--------------------------- MODULE RankLifecycle ---------------------------
(***************************************************************************)
(* What the views are promised about the state shown for the ranks of a    *)
(* debug session: a rank that attaches is never shown stopped before its   *)
(* breakpoints have been flushed, a stop is shown only of a rank that was  *)
(* shown running, and a rank that exited stays so until the session ends.  *)
(***************************************************************************)
CONSTANT Ranks

VARIABLE shown  \* rank |-> the state shown, "none" without a session

States == {"none", "launching", "sync_flushing", "running", "stopped", "exited"}

Init == shown = [r \in Ranks |-> "none"]

(* launchParallelSession ends the session before it starts another. *)
Launch == shown' = [r \in Ranks |-> "launching"]

Terminate == shown' = [r \in Ranks |-> "none"]

Moves(from, to) ==
  \/ from = "launching" /\ to \in {"sync_flushing", "running"}
  \/ from = "sync_flushing" /\ to = "running"
  \/ from = "running" /\ to \in {"stopped", "exited"}
  \/ from = "stopped" /\ to = "running"

Move(r) ==
  \E to \in States : Moves(shown[r], to) /\ shown' = [shown EXCEPT ![r] = to]

Next == Launch \/ Terminate \/ \E r \in Ranks : Move(r)

Spec == Init /\ [][Next]_shown
=============================================================================
