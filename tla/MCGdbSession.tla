---------------------------- MODULE MCGdbSession ----------------------------
(* Small instances of GdbSession. *)
EXTENDS GdbSession

(* gdb reports the locations it was asked for. *)
AsAsked == [l \in Lines |-> l]

(* One location is resolved and the others stay pending. *)
OneResolved == [l \in Lines |-> IF l = 1 THEN l ELSE Pending]
=============================================================================
