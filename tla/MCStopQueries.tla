---------------------------- MODULE MCStopQueries ----------------------------
(* A watch of a variable local to a called function. *)
EXTENDS StopQueries

CONSTANT x

=============================================================================
