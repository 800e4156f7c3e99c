--------------------------- MODULE RequestLedger ---------------------------
(***************************************************************************)
(* What a debugger coordinator promises the views that ask it questions:   *)
(* every question gets a number no other question ever had, and the answer *)
(* shown for that number is shown once, and to the one who asked.          *)
(***************************************************************************)
EXTENDS Naturals

CONSTANTS
  Kinds,     \* the kinds of request a coordinator numbers
  Topics     \* what a request is about (a rank, an expression, a reference)

VARIABLES
  issued,    \* the requests numbered so far
  answered   \* the requests whose answer reached the view that asked

ledgerVars == <<issued, answered>>

Question == [seq : Nat, kind : Kinds, topic : Topics]

Init ==
  /\ issued = {}
  /\ answered = {}

(* One step may number several requests, each with a number of its own. *)
Issue ==
  /\ issued \subseteq issued'
  /\ issued' \subseteq Question
  /\ \A q \in issued' \ issued : \A r \in issued' : q.seq = r.seq => q = r
  /\ UNCHANGED answered

Answer ==
  /\ \E q \in issued : /\ \A r \in answered : r.seq # q.seq
                       /\ answered' = answered \cup {q}
  /\ UNCHANGED issued

Next == Issue \/ Answer

Spec == Init /\ [][Next]_ledgerVars
=============================================================================
