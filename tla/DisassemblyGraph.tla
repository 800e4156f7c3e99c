-------------------------- MODULE DisassemblyGraph --------------------------
(***************************************************************************)
(* The disassembly view: a listing, the graph of basic blocks parsed from  *)
(* it, and the decompiled text made of the graph.  The graph carries the   *)
(* ranks that stand in a block and marks the deadlocked ones; the current  *)
(* instruction is marked in the graph and a line of the decompiled text is *)
(* highlighted for it.  Listings come from gdb, for the rank in focus, and *)
(* from the binary; instructions can be patched; ranks move at any time,   *)
(* also while the graph is hidden.                                         *)
(*                                                                         *)
(* Abstracted: instructions are their address, kind and target, 0 without  *)
(* one; a jump through memory is a jump to the number it prints.  Widths   *)
(* and colours, the highlight of the rank selected, user comments and the  *)
(* variables of the decompiled text are left out, bookmarks are            *)
(* TargetWorkflow's.                                                       *)
(***************************************************************************)
EXTENDS Naturals, Sequences, FiniteSets, SequencesExt

CONSTANTS
  Reports,      \* listings sent by gdb; an error has no instruction in it
  Binary,       \* functions of the binary that can be loaded
  Replacements, \* <<kind, target>> an instruction is patched to
  RankCount,    \* ranks of the largest session
  Home,         \* where the rack shows a rank nothing is known of
  Places,       \* addresses ranks are reported at and the user seeks
  Entry,        \* address given to a text without blocks
  Mapped,       \* addresses with a source line
  Headers,      \* language |-> lines before the first block
  Closed,       \* languages that end with a closing line
  MaxActs       \* bound on what happens to the view after each of Listings

Conditional == {"je", "jg", "jne"}
Jumps       == Conditional \cup {"jmp"}
Statements  == {"mpi", "je", "jg", "jmp", "ret"} \* have a line of their own
Kinds       == Jumps \cup Statements \cup {"mov", "endbr"}
Ranks       == 0..(RankCount - 1)

Listings == DOMAIN MaxActs \* what the view may show first

Addrs(l) == {l[i].at : i \in DOMAIN l}

ASSUME GraphAssumption ==
  /\ MaxActs \in [Listings -> Nat] /\ RankCount \in Nat \ {0}
  /\ Places \subseteq Nat \ {0} /\ Mapped \subseteq Places /\ Entry \in Nat \ {0}
  /\ Home \in [Ranks -> Places]
  /\ Replacements \subseteq Kinds \X Nat
  /\ Headers \in [DOMAIN Headers -> Nat \ {0}] /\ Closed \subseteq DOMAIN Headers
  /\ "C" \in DOMAIN Headers \* shown first
  /\ \A l \in Listings \cup Reports \cup Binary :
       /\ l \in Seq([at : Nat \ {0}, kind : Kinds, to : Nat])
       /\ \A i, j \in DOMAIN l : i < j => l[i].at < l[j].at
  /\ <<>> \notin Listings \cup Binary

VARIABLES
  view,  \* members of DisassemblyView, and what the window keeps for it
  spent  \* counter for MaxActs

vars == <<view, spent>>

-----------------------------------------------------------------------------
(* parseDisassembly.  A block starts at the first instruction, at targets  *)
(* in the listing and after what transfers control.                        *)
Arcs(l) == {<<l[i].at, l[i].to>> : i \in {j \in DOMAIN l : /\ l[j].kind \in Jumps
                                                         /\ l[j].to \in Addrs(l)}}

\* Mutant: what follows a return belongs to its block.
LeadersAfterJumps(l) ==
  {l[1].at} \cup {a[2] : a \in Arcs(l)}
    \cup {l[i].at : i \in {j \in DOMAIN l : j > 1 /\ l[j - 1].kind \in Jumps}}

Leaders(l) ==
  {l[1].at} \cup {a[2] : a \in Arcs(l)}
    \cup {l[i].at : i \in {j \in DOMAIN l : /\ j > 1
                                          /\ l[j - 1].kind \in Jumps \cup {"ret"}}}

Starts(l) == LET leaders == Leaders(l) IN {i \in DOMAIN l : l[i].at \in leaders}

\* The block of each instruction, as the indices of its first and its last.
Extents(l) ==
  LET starts == Starts(l)
      first == [i \in DOMAIN l |-> Max({s \in starts : s <= i})]
  IN [i \in DOMAIN l |-> [first |-> first[i],
                         last |-> Max({j \in DOMAIN l : first[j] = first[i]})]]

Successors(l, i) ==
  LET next == IF i < Len(l) THEN {l[i + 1].at} ELSE {}
      target == {l[i].to} \ {0}
  IN CASE l[i].kind \in Conditional -> target \cup next
       [] l[i].kind = "jmp" -> target
       [] l[i].kind = "ret" -> {}
       [] OTHER -> next

Blocks(l) ==
  {[start |-> l[x.first].at, end |-> l[x.last].at,
    successors |-> Successors(l, x.last)] : x \in Range(Extents(l))}

-----------------------------------------------------------------------------
(* decompileToLanguage.  Each block is a comment naming the jumps to it, a *)
(* label, and the statements; the other instructions belong to the last    *)
(* statement of their block, and those of a prologue to the signature.     *)
Emitted(l) ==
  LET starts == Starts(l)
      targets == {a[2] : a \in Arcs(l)}
  IN {<<s, 1>> : s \in {i \in starts : l[i].at \in targets}}
       \cup {<<s, 2>> : s \in starts}
       \cup {<<i, 3>> : i \in {j \in DOMAIN l : l[j].kind \in Statements}}

Precedes(d, e) == d[1] < e[1] \/ (d[1] = e[1] /\ d[2] < e[2])

\* The line of an instruction, number giving the lines of what is emitted.
LineOf(l, header, number, x, i) ==
  LET statements == {j \in x.first..x.last : l[j].kind \in Statements}
  IN IF i = x.first /\ l[x.last].kind = "jg" THEN number[<<x.last, 3>>]
     ELSE IF l[i].kind = "endbr" THEN header
     ELSE IF i \in statements THEN number[<<i, 3>>]
     ELSE IF i # x.first /\ statements # {} THEN number[<<Max(statements), 3>>]
     ELSE IF x.first = 1 THEN header
     ELSE number[<<x.first, 2>>]

Decompiled(l, language) ==
  LET header == Headers[language]
      emitted == Emitted(l)
      number == [e \in emitted |->
                   header + Cardinality({d \in emitted : ~Precedes(e, d)})]
      extents == Extents(l)
      AddressOf(e) ==
        IF l[e[1]].kind = "jg" THEN l[extents[e[1]].first].at ELSE l[e[1]].at
      address == [n \in 1..Cardinality(emitted) |->
                    AddressOf(CHOOSE e \in emitted : number[e] = header + n)]
      end == IF language \in Closed THEN <<l[Len(l)].at>> ELSE <<>>
      index == [a \in Addrs(l) |-> CHOOSE i \in DOMAIN l : l[i].at = a]
  IN [address |-> [n \in 1..header |-> l[1].at] \o address \o end,
      line |-> [a \in Addrs(l) |->
                  LineOf(l, header, number, extents[index[a]], index[a])]]

-----------------------------------------------------------------------------
(* rebuildCfgScene draws the blocks with the ranks in them, the current    *)
(* instruction and the edges to blocks of the listing.                     *)
RanksAt(v, b) == {r \in DOMAIN v.pcs : v.pcs[r] \in b.start..b.end}

Draw(v) ==
  [v EXCEPT !.scene =
     [boxes |-> {[start |-> b.start, ranks |-> RanksAt(v, b),
                  deadlock |-> RanksAt(v, b) \cap v.cycle # {}] : b \in v.blocks},
      marked |-> {v.cursor} \cap Addrs(v.listing),
      edges |-> {e \in {b.start : b \in v.blocks} \X {b.start : b \in v.blocks} :
                   \E b \in v.blocks : b.start = e[1] /\ e[2] \in b.successors}]]

(* addressToDecompilerLine, and the line that follows the cursor if there  *)
(* is one for it.                                                          *)
MappedLine(v, a) == \* 0 for none
  LET around == {b \in v.blocks : a \in b.start..b.end /\ b.start \in DOMAIN v.text.line}
  IN IF a \in DOMAIN v.text.line THEN v.text.line[a]
     ELSE IF around # {} THEN v.text.line[(CHOOSE b \in around : TRUE).start]
     ELSE 0

\* Mutant: an address without a line takes the highlight away.
FollowAny(v) == [v EXCEPT !.line = MappedLine(v, v.cursor)]

Follow(v) ==
  IF MappedLine(v, v.cursor) > 0 THEN [v EXCEPT !.line = MappedLine(v, v.cursor)] ELSE v

(* refreshDecompilerView.  Without blocks a template is shown.             *)
Template(language) ==
  [address |-> [n \in 1..(Headers[language] + IF language \in Closed THEN 3 ELSE 2) |->
                  Entry],
   line |-> [a \in {Entry} |-> Headers[language] + 2]]

Refresh(v) ==
  Follow([v EXCEPT !.text = IF v.blocks = {} THEN Template(v.language)
                            ELSE Decompiled(v.listing, v.language)])

Patched(l, patches) ==
  [i \in DOMAIN l |->
     IF l[i].at \in DOMAIN patches
     THEN [l[i] EXCEPT !.kind = patches[l[i].at][1], !.to = patches[l[i].at][2]]
     ELSE l[i]]

\* A listing without instructions leaves the text and the cursor alone.
Parse(v, l) ==
  IF l = <<>> THEN [v EXCEPT !.listing = l, !.blocks = {}]
  ELSE Refresh([v EXCEPT !.listing = l, !.blocks = Blocks(l),
                         !.cursor = IF @ \in Addrs(l) THEN @ ELSE l[1].at])

-----------------------------------------------------------------------------
(* Operations of the view.  Without a text updateDisassembly shows the     *)
(* listing the program starts with.                                        *)
Update(v, texts) ==
  LET base == IF texts = {} THEN v.startup ELSE CHOOSE l \in texts : TRUE
  IN Draw(Parse([v EXCEPT !.base = base], Patched(base, v.patches)))

Sought(v, a) == Draw(Follow([v EXCEPT !.cursor = a]))

Relayout(v) ==
  IF v.split THEN Refresh(Draw(v))
  ELSE IF v.decompiler THEN Refresh(v)
  ELSE IF v.graph THEN Draw(v)
  ELSE v

SetSplit(v, on) ==
  Relayout([v EXCEPT !.split = on, !.decompiler = on, !.graph = on \/ @])
SetDecompiler(v, on) == Relayout([v EXCEPT !.split = FALSE, !.decompiler = on])
SetGraph(v, on) ==
  Relayout([v EXCEPT !.split = FALSE, !.decompiler = FALSE, !.graph = on])

\* Mutant: the graph is not drawn again.
SetRankAddressesQuietly(v, pcs) == [v EXCEPT !.pcs = pcs]

SetRankAddresses(v, pcs) ==
  IF v.graph THEN Draw([v EXCEPT !.pcs = pcs]) ELSE [v EXCEPT !.pcs = pcs]

SetDeadlockCycleRanks(v, cycle) ==
  IF v.graph THEN Draw([v EXCEPT !.cycle = cycle]) ELSE [v EXCEPT !.cycle = cycle]

-----------------------------------------------------------------------------
(* What the window does with the view.  An address without a source line   *)
(* brings the decompiled text up next to the graph, the next one with a    *)
(* line takes it away.                                                     *)
SetLinear(v) == SetGraph(SetSplit([v EXCEPT !.fallback = FALSE], FALSE), FALSE)

SeekToAddress(v, a) ==
  LET functions == {f \in Binary : v.loaded /\ a \in f[1].at..f[Len(f)].at}
      u == Sought(IF functions = {} THEN v ELSE Update(v, functions), a)
  IN IF a \notin Mapped THEN SetSplit([u EXCEPT !.fallback = TRUE], TRUE)
     ELSE IF u.fallback THEN SetLinear(u)
     ELSE u

\* The same, and a linear listing stays one in the Code perspective.
SeekKeepingLinear(v, a) ==
  IF ~v.graph /\ ~v.decompiler /\ ~v.split /\ v.code
  THEN SetLinear(SeekToAddress(v, a)) ELSE SeekToAddress(v, a)

\* The rack adds the rank, and those below it, when they are new.
UpdateRankState(v, r, a) ==
  SetRankAddresses(v, [q \in DOMAIN v.pcs \cup 0..r |->
                         IF q = r THEN a ELSE IF q \in DOMAIN v.pcs THEN v.pcs[q]
                         ELSE Home[q]])

RankSelected(v, r) ==
  LET u == [v EXCEPT !.focus = r]
      shown == IF r \in DOMAIN v.texts THEN Update(u, v.texts[r]) ELSE u
  IN SeekToAddress(IF v.graph THEN Draw(shown) ELSE shown, v.pcs[r])

-----------------------------------------------------------------------------
Becomes(v) == view' = v

\* onRankStateChanged: a report of a rank, with a listing or without.
OnRankStateChanged(r, a, texts) ==
  LET u == UpdateRankState([view EXCEPT !.texts = [q \in DOMAIN @ \cup {r} |->
                                           IF q = r THEN texts ELSE @[q]]], r, a)
  IN Becomes(IF r = u.focus /\ texts # {} THEN Update(u, texts) ELSE u)

SelectRank(r) ==
  r \in DOMAIN view.pcs /\ Becomes(RankSelected([view EXCEPT !.selected = r], r))

\* startTargetWorkflow with n ranks; the one selected before stays selected.
StartTargetWorkflow(n, a, deadlock) ==
  LET ranks == 0..(n - 1)
      preserve == view.selected
      fresh == [SetDeadlockCycleRanks(view, {}) EXCEPT
                  !.texts = [r \in ranks |-> {}], !.focus = preserve,
                  !.selected = IF preserve \in ranks THEN @ ELSE 0]
      placed == SetRankAddresses(fresh, [r \in ranks |-> a])
      shown == SeekKeepingLinear(IF preserve \in ranks THEN RankSelected(placed, preserve)
                                 ELSE placed, a)
  IN Becomes(IF deadlock THEN SetDeadlockCycleRanks(shown, ranks) ELSE shown)

\* stepInstructionWorkflow and continueExecutionWorkflow.
MoveRank(a) ==
  LET r == view.selected
      u == UpdateRankState([view EXCEPT !.focus = r], r, a)
      known == [q \in DOMAIN u.texts \cup {r} |-> IF q \in DOMAIN u.texts THEN u.texts[q] ELSE {}]
  IN Becomes(SeekKeepingLinear([u EXCEPT !.texts = known], a))

StopTargetWorkflow == Becomes(SetDeadlockCycleRanks(view, {}))

\* The binary is loaded and its main function sought, or its entry.
LoadBinary(f, debug) ==
  LET u == [view EXCEPT !.loaded = TRUE]
  IN Becomes(IF debug THEN SeekKeepingLinear(u, f[1].at) ELSE SeekToAddress(u, f[1].at))

SeekTo(a) == Becomes(SeekToAddress(view, a))

\* A click into the source code.
SelectSourceLine(a) == Becomes(SeekKeepingLinear(view, a))

\* A click into the graph: the view seeks, then the window.
Visible == view.split \/ (view.graph /\ ~view.decompiler)
ClickGraph(a) == Visible /\ Becomes(SeekToAddress(Sought(view, a), a))

SelectDecompilerLine(n) ==
  /\ view.decompiler
  /\ n \in DOMAIN view.text.address \ {view.line}
  /\ LET a == view.text.address[n]
     IN Becomes(SeekToAddress(Sought([view EXCEPT !.line = n], a), a))

PatchInstruction(p) ==
  Becomes(Refresh(Update([view EXCEPT !.patches =
                            [a \in DOMAIN @ \cup {view.cursor} |->
                               IF a = view.cursor THEN p ELSE @[a]]], {view.base})))

SetDecompilerTargetLanguage(language) ==
  Becomes(Refresh([view EXCEPT !.language = language]))

SetWorkspacePerspective(p) ==
  LET u == [view EXCEPT !.code = (p = "Code")]
  IN Becomes(IF p = "Reverse" THEN SetSplit(u, TRUE) ELSE u)

-----------------------------------------------------------------------------
Blank(l) ==
  [startup |-> l, base |-> l, patches |-> [a \in {} |-> <<>>], listing |-> <<>>,
   blocks |-> {}, cursor |-> Entry, text |-> [address |-> <<>>, line |-> [a \in {} |-> 0]],
   line |-> 1, scene |-> [boxes |-> {}, marked |-> {}, edges |-> {}],
   graph |-> FALSE, split |-> FALSE, decompiler |-> FALSE, language |-> "C",
   pcs |-> [r \in {} |-> 0], cycle |-> {}, texts |-> [r \in Ranks |-> {}], focus |-> 0,
   selected |-> 0, loaded |-> FALSE, fallback |-> FALSE, code |-> TRUE]

Init == spent = 0 /\ \E l \in Listings : view = SetRankAddresses(Update(Blank(l), {}), Home)

Next ==
  /\ spent < MaxActs[view.startup] /\ spent' = spent + 1
  /\ \/ \E a \in Places :
          \/ \E r \in Ranks, texts \in {{}} \cup {{l} : l \in Reports} :
               OnRankStateChanged(r, a, texts)
          \/ MoveRank(a)
          \/ \E n \in 1..RankCount, deadlock \in BOOLEAN : StartTargetWorkflow(n, a, deadlock)
          \/ SeekTo(a)
          \/ SelectSourceLine(a)
     \/ \E r \in Ranks : SelectRank(r)
     \/ StopTargetWorkflow
     \/ \E f \in Binary : LoadBinary(f, TRUE) \/ LoadBinary(f, FALSE)
     \/ \E a \in Addrs(view.listing) : ClickGraph(a)
     \/ \E n \in DOMAIN view.text.address : SelectDecompilerLine(n)
     \/ \E p \in Replacements : PatchInstruction(p)
     \/ \E language \in DOMAIN Headers : SetDecompilerTargetLanguage(language)
     \/ \E p \in {"Code", "Reverse", "MPI"} : SetWorkspacePerspective(p)
     \/ \E on \in BOOLEAN : Becomes(SetSplit(view, on)) \/ Becomes(SetDecompiler(view, on))
     \/ Becomes(SetGraph(view, ~view.graph))

Spec == Init /\ [][Next]_vars

-----------------------------------------------------------------------------
(* Types.  A line that is highlighted stays highlighted, or another one,   *)
(* whatever is sought.                                                     *)
TypeOK ==
  /\ spent \in 0..MaxActs[view.startup]
  /\ view.startup \in Listings /\ view.base \in Listings \cup Reports \cup Binary
  /\ view.listing = <<>> \/ DOMAIN view.listing = DOMAIN view.base
  /\ DOMAIN view.patches \subseteq Nat /\ Range(view.patches) \subseteq Replacements
  /\ view.cursor \in Nat \ {0} /\ view.line \in Nat \ {0}
  /\ view.language \in DOMAIN Headers
  /\ Range(view.text.address) \subseteq Nat \ {0}
  /\ Range(view.text.line) \subseteq DOMAIN view.text.address
  /\ DOMAIN view.texts \subseteq DOMAIN view.pcs /\ DOMAIN view.pcs \subseteq Ranks
  /\ Range(view.pcs) \subseteq Places
  /\ view.cycle \subseteq Ranks /\ view.focus \in Ranks /\ view.selected \in Ranks
  /\ {view.graph, view.split, view.decompiler, view.loaded, view.fallback, view.code}
       \subseteq BOOLEAN

\* Where control may go after an instruction, as far as the listing reaches.
Follows(l) ==
  {<<l[i].at, l[i + 1].at>> : i \in {j \in 1..(Len(l) - 1) : l[j].kind \notin {"jmp", "ret"}}}
    \cup Arcs(l)

(* The blocks around an address, and the steps of control within blocks    *)
(* and between them.                                                       *)
Around(blocks, a) == {b \in blocks : a \in b.start..b.end}

Within(l, blocks) ==
  {<<l[i].at, l[i + 1].at>> :
     i \in {j \in 1..(Len(l) - 1) : Around(blocks, l[j].at) = Around(blocks, l[j + 1].at)}}

Between(blocks) ==
  {e \in {b.end : b \in blocks} \X {b.start : b \in blocks} :
     \E b \in blocks : b.end = e[1] /\ e[2] \in b.successors}

(* The blocks are a control-flow graph of the listing as it is patched:    *)
(* they partition the instructions, control passes from an instruction to  *)
(* the next within a block and, between blocks, only from the end of one   *)
(* to the start of its successors; nothing the instructions may do is lost *)
(* and nothing is added (parseDisassembly's leaders against its blocks and *)
(* edges, through patches and changes of listing).                         *)
FlowGraph(l, blocks) ==
  /\ \A a \in Addrs(l) : Cardinality(Around(blocks, a)) = 1
  /\ {b.start : b \in blocks} \cup {b.end : b \in blocks} \subseteq Addrs(l)
  /\ Within(l, blocks) \cup Between(blocks) = Follows(l)

GraphFaithful == FlowGraph(Patched(view.base, view.patches), view.blocks)

(* A graph that is visible is the one that would be drawn now. *)
GraphCurrent == Visible => view.scene = Draw(view).scene

(* The line highlighted is of the block of the cursor, or the signature    *)
(* for an instruction of a prologue.                                       *)
LineCurrent ==
  \A i \in DOMAIN view.listing : view.listing[i].at = view.cursor =>
    \/ \E b \in view.blocks : {view.cursor, view.text.address[view.line]} \subseteq b.start..b.end
    \/ view.listing[i].kind = "endbr" /\ view.line = Headers[view.language]

(* A graph that is visible shows the ranks, the deadlock and the cursor as *)
(* they are, also those that changed while it was hidden, and decompiled   *)
(* text and cursor follow each other (setRankAddresses,                    *)
(* setDeadlockCycleRanks, updateViewModeLayout, addressToDecompilerLine).  *)
ViewsCurrent == GraphCurrent /\ LineCurrent

=============================================================================
