------------------------- MODULE MCDisassemblyGraph -------------------------
(***************************************************************************)
(* Small instances of DisassemblyGraph.  The listings shown first are all  *)
(* those of three instructions that straight-line code, conditional jumps, *)
(* jumps and returns make, with targets in the listing and outside of it,  *)
(* and some longer ones.                                                   *)
(***************************************************************************)
EXTENDS DisassemblyGraph

At(a, kind, to) == [at |-> a, kind |-> kind, to |-> to]

Listing(forms) == [a \in DOMAIN forms |-> At(a, forms[a][1], forms[a][2])]

Forms == ({"mov", "ret"} \X {0}) \cup ({"jne", "jg", "jmp"} \X {1, 2, 3, 9})
FewForms == {<<"mov", 0>>, <<"ret", 0>>, <<"je", 2>>, <<"jg", 3>>, <<"jmp", 1>>, <<"jmp", 4>>}

\* Only parsed and decompiled.
Shapes ==
  {Listing(forms) : forms \in [1..3 -> Forms] \cup [1..4 -> FewForms]}

\* Also used.
Loop == <<At(1, "endbr", 0), At(2, "jg", 1), At(3, "ret", 0)>>
Fork == <<At(1, "mov", 0), At(2, "je", 5), At(3, "mpi", 0), At(4, "jmp", 2), At(5, "ret", 0)>>
Gap  == <<At(2, "mov", 0), At(3, "jne", 2), At(6, "jmp", 9)>>

MCMaxActs ==
  [l \in Shapes \cup {Loop, Fork, Gap} |-> IF l \in {Loop, Fork, Gap} THEN 2 ELSE 0]

MCReports == {<<>>, <<At(2, "jne", 2), At(3, "mov", 0)>>}
MCBinary == {<<At(4, "endbr", 0), At(5, "mov", 0), At(6, "je", 5), At(7, "ret", 0)>>}
MCReplacements == {<<"mov", 0>>}
MCHome == [r \in 0..1 |-> IF r = 0 THEN 1 ELSE 3]
MCHeaders == [language \in {"C", "Pseudocode"} |-> IF language = "C" THEN 3 ELSE 2]
=============================================================================
