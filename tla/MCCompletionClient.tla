-------------------------- MODULE MCCompletionClient --------------------------
(* The source file being edited and the one of a breakpoint popover. *)
EXTENDS CompletionClient

CONSTANTS edited, popover

=============================================================================
