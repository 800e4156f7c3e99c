------------------------ MODULE MCBreakpointWorkflow ------------------------
(* Small instances of BreakpointWorkflow. *)
EXTENDS BreakpointWorkflow

CONSTANTS f1, f2, w1, w2, elsewhere

(* Two projects, one with a breakpoint in each file, saved for each binary. *)
NoneStored  == [w \in Workspaces |-> [k \in Keys |-> NoLines]]
SomeStored  == [NoneStored EXCEPT ![w1] = [k \in Keys |-> [f \in Files |-> {1}]]]
OneStore    == {SomeStored}
EmptyStores == {NoneStored}

(* gdb names the lines of f1 as asked; of another file it calls the first  *)
(* by another name, and has no code for the second.                        *)
SomeReported == [k \in Locations |-> IF k[1] = f1 THEN k
                                     ELSE IF k[2] = 1 THEN elsewhere ELSE Pending]
=============================================================================
