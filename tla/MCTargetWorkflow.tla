-------------------------- MODULE MCTargetWorkflow --------------------------
(* Two single-file targets; the second deadlocks.  Their functions overlap  *)
(* in the addresses, as the functions of position independent binaries do,  *)
(* and an edit moves the lines.                                             *)
EXTENDS TargetWorkflow, TLC

(* The hypothesis under which ExitedAtReturn is proved. *)
ASSUME Returning == RunsReturn

Binary(main, helper, jumps, line) ==
  [main |-> main, functions |-> {main, helper}, jumps |-> jumps,
   returns |-> {CHOOSE a \in f : \A x \in f : x <= a : f \in {main, helper}},
   lineAddress |-> [l \in Lines |-> line]]

Images ==
  [b \in Targets \X (0..MaxEdits) |->
     IF b[1] = "ring" THEN Binary(2..3, {4}, <<>>, 2)
     ELSE IF b[2] = 0 THEN Binary(1..3, {4}, 1 :> 3, 2)
     ELSE Binary(1..3, {4}, <<>>, 3)]

Deadlocks   == ("ring" :> 1) @@ ("demo" :> 0)
Preview     == 11..13
PreviewPc   == [r \in 0..MaxRanks - 1 |-> 11 + r]
PreviewBack == 12 :> 11
Used        == (1..4) \cup Preview
=============================================================================
