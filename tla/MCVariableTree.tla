--------------------------- MODULE MCVariableTree ---------------------------
(* Small instances of VariableTree: a structure with one field, and one    *)
(* that an inner block shadows by another.                                 *)
EXTENDS VariableTree

OneStructure == "locals" :> <<"s", "s">> @@ "s" :> <<"f">>
=============================================================================
