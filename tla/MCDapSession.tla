---------------------------- MODULE MCDapSession ----------------------------
(* Small instances of DapSession for TLC. *)
EXTENDS DapSession

CONSTANTS x, y

TwoAsks == {x, y}
OneAsk  == {x}
Rank0   == {0}
Ranks01 == {0, 1}
EvalAndHeatmap == {"evaluate", "heatmap"}
EvalAndScopes == {"evaluate", "scopes"}
NoAsks  == {}

=============================================================================
