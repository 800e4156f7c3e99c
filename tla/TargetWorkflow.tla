--------------------------- MODULE TargetWorkflow ---------------------------
(***************************************************************************)
(* The toolbar's Run, Step and Continue.  The window keeps a program       *)
(* counter per rank in the server rack, but moves it with the listing the  *)
(* disassembly shows: the next instruction is the next line of the         *)
(* listing, and the current one is wherever the last seek went.  The       *)
(* listing belongs to the binary that was loaded last, or is a built-in    *)
(* fixture; the source may have been edited and compiled since, by the     *)
(* window itself or by a command typed into its terminal.                  *)
(*                                                                         *)
(* Abstracted: the back end (StepCommand and ContinueCommand go to it as   *)
(* well; what it reports is GdbSession's), registers and memory, the graph *)
(* and decompiler views, the overlay of deadlocked ranks.  Targets are     *)
(* single files, so the window knows where their binary is.                *)
(***************************************************************************)
EXTENDS Naturals, Sequences, FiniteSets

CONSTANTS
  Targets,
  DeadlockLine, \* target |-> line of an MPI_Send before its MPI_Recv, or 0
  Lines,
  Addresses,
  Image,        \* <<target, version>> |-> what objdump shows of the binary
  Fixture,      \* defaultStartupDisassembly
  FixtureReturn,
  FixturePc,    \* where loadPreviewFixture puts the ranks
  FixtureBack,  \* its jumps back, followed by nextInstructionAddress
  None,
  MaxRanks,     \* 64 in the spin box
  MaxWalk,      \* 512 instructions of one Run or Continue
  MaxEdits,     \* bound on edits of the sources
  MaxQueue,     \* bound on commands waiting in the terminal
  MaxHistory,   \* bound on the seek history
  MaxActs,      \* bound on what the user does besides running the ranks
  Sought,       \* bound on the addresses the user seeks
  Clicked       \* bound on the addresses the user bookmarks

Versions == 0..MaxEdits
Binaries == Targets \X Versions

ASSUME TargetAssumption ==
  /\ MaxRanks \in Nat \ {0}
  /\ MaxWalk \in Nat \ {0} /\ {MaxEdits, MaxQueue, MaxHistory, MaxActs} \subseteq Nat
  /\ Addresses \subseteq Nat \ {0} /\ Sought \cup Clicked \subseteq Addresses
  /\ None \notin Versions \cup Binaries
  /\ Fixture \subseteq Addresses /\ FixtureReturn \in Fixture
  /\ FixtureBack \in [DOMAIN FixtureBack -> Fixture]
  /\ FixturePc \in [0..MaxRanks - 1 -> Fixture]
  /\ DeadlockLine \in [Targets -> Lines \cup {0}]
  /\ \A b \in Binaries :
       /\ Image[b].main \in Image[b].functions
       /\ Image[b].functions \subseteq (SUBSET (Addresses \ Fixture)) \ {{}}
       /\ Image[b].returns \subseteq Addresses
       /\ Image[b].jumps \in [DOMAIN Image[b].jumps -> Addresses]
       /\ Image[b].lineAddress \in [Lines -> Addresses]

VARIABLES
  shown,     \* m_currentFile, the target Run compiles
  source,    \* target |-> version saved last
  broken,    \* target |-> that version does not compile
  disk,      \* target |-> version its binary was compiled from, or None
  terminal,  \* commands sent to the terminal, not run yet
  loaded,    \* m_elfInspector and its line maps: a binary, or None
  view,      \* listing and cursor of the disassembly, m_currentSeekOrPc and
             \* m_seekHistory
  marks,     \* target |-> lines marked in its source view
  bookmarks, \* DisassemblyView::m_bookmarks
  active,    \* m_debugSessionActive
  status,    \* m_currentTargetState
  pc,        \* ServerRackView::m_states, the program counters
  selected,  \* ServerRackView::m_selectedRank
  focused,   \* MainWindow::m_focusedRank
  spin,      \* m_rankCountSpin
  mover,     \* history: what moved the cursor last, a Run, a rank or the user
  spent      \* counter for MaxActs

files   == <<source, broken, disk>>
ranks   == <<pc, selected, focused, spin>>
session == <<active, status>>
vars == <<shown, files, terminal, loaded, view, marks, bookmarks, session,
          ranks, mover, spent>>

Spend == spent < MaxActs /\ spent' = spent + 1

First(listing) == CHOOSE a \in listing : \A x \in listing : a <= x
Last(s)        == s[Len(s)]

FunctionsAt(b, a) == IF b = None THEN {} ELSE {f \in Image[b].functions : a \in f}

(* sourceLineToAddress.  Without a binary the lines are matched against    *)
(* the fixture; which one is of no importance here.                        *)
LineAddress(b, l) == IF b = None THEN First(Fixture) ELSE Image[b].lineAddress[l]

-----------------------------------------------------------------------------
(* Showing.  A new listing moves a cursor it does not contain; a seek      *)
(* shows the function at the address, if the binary has one there.         *)
Show(v, listing) ==
  [v EXCEPT !.listing = listing,
            !.cursor = IF v.cursor \in listing THEN v.cursor ELSE First(listing)]

Moved(v, b, a) ==
  [v EXCEPT !.listing = IF FunctionsAt(b, a) = {} THEN v.listing
                        ELSE CHOOSE f \in FunctionsAt(b, a) : TRUE,
            !.cursor = a,
            !.address = a]

\* Mutant: what lies ahead of the position is kept.
RememberedAll(v, a) ==
  IF v.history # <<>> /\ Last(v.history) = a THEN v
  ELSE [v EXCEPT !.history = Append(@, a), !.at = Len(v.history) + 1]

Remembered(v, a) ==
  LET past == SubSeq(v.history, 1, v.at)
  IN IF past # <<>> /\ Last(past) = a THEN [v EXCEPT !.history = past]
     ELSE [v EXCEPT !.history = Append(past, a), !.at = Len(past) + 1]

Seek(v, b, a) == Remembered(Moved(v, b, a), a)

(* selectRank: the rank's own listing is empty in this workflow, so the    *)
(* fixture is shown first and then the function of the program counter.    *)
\* Mutant: the seek to the program counter is left out.
ShowRankOnly(v, b, a) == Show(v, Fixture)

ShowRank(v, b, a) == Seek(Show(v, Fixture), b, a)

-----------------------------------------------------------------------------
(* advanceRankProgramCounter.  Jumps forward within the listing are        *)
(* followed, conditional jumps and jumps back are not; after the last line *)
(* comes the first.                                                        *)
NextInstruction(listing, a) ==
  LET later == {x \in listing : x > a}
  IN IF a \in DOMAIN FixtureBack THEN FixtureBack[a]
     ELSE IF later # {} THEN First(later) ELSE First(listing)

Returns(b) == {FixtureReturn} \cup (IF b = None THEN {} ELSE Image[b].returns)

JumpTargets(b, listing, a) ==
  IF b = None \/ a \notin listing THEN {}
  ELSE {x \in listing : /\ a \in DOMAIN Image[b].jumps
                        /\ x = Image[b].jumps[a] /\ x > a}

\* Mutant: the return is an instruction like any other.
AdvanceOn(b, listing, a) ==
  IF JumpTargets(b, listing, a) # {}
  THEN CHOOSE x \in JumpTargets(b, listing, a) : TRUE
  ELSE NextInstruction(listing, a)

Advance(b, listing, a) ==
  IF a \in listing \cap Returns(b) THEN a
  ELSE IF JumpTargets(b, listing, a) # {}
       THEN CHOOSE x \in JumpTargets(b, listing, a) : TRUE
       ELSE NextInstruction(listing, a)

(* At least one instruction, then on to a breakpoint, to an instruction    *)
(* that does not move, or to the bound.                                    *)
Walk(b, listing, from, stops) ==
  LET after[n \in 1..MaxWalk] ==
        IF n = 1 THEN Advance(b, listing, from)
        ELSE IF after[n - 1] \in stops THEN after[n - 1]
        ELSE Advance(b, listing, after[n - 1])
  IN after[MaxWalk]

Hits(b, listing, from, stops) ==
  /\ Advance(b, listing, from) # from
  /\ Walk(b, listing, from, stops) \in stops

Breakpoints(b) == bookmarks \cup {LineAddress(b, l) : l \in marks[shown]}

-----------------------------------------------------------------------------
(* ensureTargetBinaryCompiled for target t: compile if the binary is       *)
(* missing or older than its source, give up without a binary, and load it *)
(* if it was compiled here or another one is loaded.                       *)
Ensured(t) ==
  LET need == disk[t] # source[t]
      made == IF need /\ ~broken[t] THEN source[t] ELSE disk[t]
      load == /\ made # None
              /\ need \/ loaded = None \/ loaded[1] # t
      main == Image[<<t, made>>].main
  IN [disk   |-> [disk EXCEPT ![t] = made],
      loaded |-> IF load THEN <<t, made>> ELSE loaded,
      load   |-> load,
      view   |-> IF load THEN Seek(Show(view, main), <<t, made>>, First(main))
                 ELSE view]

Room == view.at + 2 <= MaxHistory

-----------------------------------------------------------------------------
Init ==
  /\ shown \in Targets
  /\ source = [t \in Targets |-> 0]
  /\ broken = [t \in Targets |-> FALSE]
  /\ disk = [t \in Targets |-> None]
  /\ terminal = <<>>
  /\ loaded = None
  /\ view = [listing |-> Fixture, cursor |-> First(Fixture), address |-> 0,
             history |-> <<>>, at |-> 0]
  /\ marks = [t \in Targets |-> {}]
  /\ bookmarks = {}
  /\ active = FALSE
  /\ status = "IDLE"
  /\ pc = FixturePc
  /\ selected = 0
  /\ focused = 0
  /\ spin = MaxRanks
  /\ mover = "rank"
  /\ spent = 0

(* The source is changed and saved. *)
EditSource(t, b) ==
  /\ Spend
  /\ source[t] < MaxEdits
  /\ source' = [source EXCEPT ![t] = @ + 1]
  /\ broken' = [broken EXCEPT ![t] = b]
  /\ UNCHANGED <<shown, disk, terminal, loaded, view, marks, bookmarks, session,
                 ranks, mover>>

(* loadSourceFile: the tab, and with it the file Run compiles. *)
OpenSource(t) ==
  /\ Spend
  /\ t # shown
  /\ shown' = t
  /\ UNCHANGED <<files, terminal, loaded, view, marks, bookmarks, session,
                 ranks, mover>>

(* selectTargetByName: forget the bookmarks, load, bookmark the marks of   *)
(* the view, end a session.  That the binary could not be made changes     *)
(* nothing.                                                                *)
SelectTarget(t) ==
  LET e == Ensured(t)
      b == e.loaded
  IN /\ Spend
     /\ t # shown
     /\ Room
     /\ shown' = t
     /\ disk' = e.disk
     /\ loaded' = b
     /\ bookmarks' = {LineAddress(b, l) : l \in marks[t]}
     /\ view' = Show(e.view, e.view.listing)
     /\ active' = FALSE
     /\ status' = IF active THEN "IDLE" ELSE status
     /\ mover' = IF e.load THEN "user" ELSE mover
     /\ UNCHANGED <<source, broken, terminal, marks, ranks>>

(* buildTargetWorkflow compiles twice: in the terminal and at once.        *)
(* rebuildTargetWorkflow and cleanTargetWorkflow only use the terminal.    *)
Send(commands) ==
  /\ Len(terminal) + Len(commands) <= MaxQueue
  /\ terminal' = terminal \o commands
  /\ status' = "BUILDING"

BuildTarget ==
  LET e == Ensured(shown)
  IN /\ Spend
     /\ Room
     /\ Send(<<<<"build", shown>>>>)
     /\ disk' = e.disk
     /\ loaded' = e.loaded
     /\ view' = e.view
     /\ mover' = IF e.load THEN "user" ELSE mover
     /\ UNCHANGED <<shown, source, broken, marks, bookmarks, active, ranks>>

CleanTarget ==
  /\ Spend
  /\ Send(<<<<"clean", shown>>>>)
  /\ UNCHANGED <<shown, files, loaded, view, marks, bookmarks, active, ranks,
                 mover>>

RebuildTarget ==
  /\ Spend
  /\ Send(<<<<"clean", shown>>, <<"build", shown>>>>)
  /\ UNCHANGED <<shown, files, loaded, view, marks, bookmarks, active, ranks,
                 mover>>

(* The shell in the terminal. *)
TerminalRuns ==
  /\ terminal # <<>>
  /\ terminal' = Tail(terminal)
  /\ LET command == Head(terminal)[1]
         t == Head(terminal)[2]
     IN \/ /\ command = "clean"
           /\ disk' = [disk EXCEPT ![t] = None]
        \/ /\ command = "build"
           /\ disk' = [disk EXCEPT ![t] = IF broken[t] THEN @ ELSE source[t]]
  /\ UNCHANGED <<shown, source, broken, loaded, view, marks, bookmarks, session,
                 ranks, mover, spent>>

-----------------------------------------------------------------------------
(* Run Target: ensureTargetBinaryCompiled, whose result is not looked at,  *)
(* then startTargetWorkflow from the first line of the listing.            *)
StopAddress(b, listing, stops) ==
  LET entry == First(listing)
      line  == DeadlockLine[shown]
  IN IF stops = {}
     THEN IF line # 0 THEN LineAddress(b, line) ELSE entry
     ELSE IF entry \notin stops /\ Hits(b, listing, entry, stops)
          THEN Walk(b, listing, entry, stops) ELSE entry

\* Mutant: the ranks start where the listing starts.
StartedAtEntry(b, v, stop) ==
  /\ pc' = [r \in 0..spin - 1 |-> First(v.listing)]
  /\ selected' = IF selected < spin THEN selected ELSE 0
  /\ focused' = selected
  /\ view' = Seek(IF selected < spin THEN ShowRank(v, b, stop) ELSE v, b, stop)

\* Mutant: the selection survives a launch of fewer ranks.
StartedSelected(b, v, stop) ==
  /\ pc' = [r \in 0..spin - 1 |-> stop]
  /\ selected' = selected
  /\ focused' = selected
  /\ view' = Seek(IF selected < spin THEN ShowRank(v, b, stop) ELSE v, b, stop)

Started(b, v, stop) ==
  /\ pc' = [r \in 0..spin - 1 |-> stop]
  /\ selected' = IF selected < spin THEN selected ELSE 0
  /\ focused' = selected
  /\ view' = Seek(IF selected < spin THEN ShowRank(v, b, stop) ELSE v, b, stop)

RunTarget ==
  LET e == Ensured(shown)
      b == e.loaded
      stops == Breakpoints(b)
  IN /\ Room
     /\ disk' = e.disk
     /\ loaded' = b
     /\ bookmarks' = stops
     /\ Started(b, e.view, StopAddress(b, e.view.listing, stops))
     /\ active' = TRUE
     /\ status' = "PAUSED"
     /\ mover' = "run"
     /\ UNCHANGED <<shown, source, broken, terminal, marks, spin, spent>>

(* The rank selected in the rack moves from the cursor of the listing. *)
MoveRank(to) ==
  /\ pc' = [pc EXCEPT ![selected] = to]
  /\ focused' = selected
  /\ view' = Seek(view, loaded, to)
  /\ mover' = "rank"
  /\ UNCHANGED <<shown, files, terminal, loaded, marks, bookmarks, active,
                 selected, spin, spent>>

Step ==
  LET next == Advance(loaded, view.listing, view.cursor)
  IN /\ active
     /\ Room
     /\ MoveRank(next)
     /\ status' = IF next = view.cursor THEN "COMPLETED" ELSE "PAUSED"

Continue ==
  LET stops == Breakpoints(loaded)
  IN /\ active
     /\ Room
     /\ MoveRank(Walk(loaded, view.listing, view.cursor, stops))
     /\ status' = IF Hits(loaded, view.listing, view.cursor, stops)
                  THEN "PAUSED" ELSE "EXITED"

Stop ==
  /\ active
  /\ active' = FALSE
  /\ status' = "IDLE"
  /\ UNCHANGED <<shown, files, terminal, loaded, view, marks, bookmarks, ranks,
                 mover, spent>>

SelectRank(r) ==
  /\ Room
  /\ selected' = r
  /\ focused' = r
  /\ view' = ShowRank(view, loaded, pc[r])
  /\ status' = "SELECTED"
  /\ mover' = "rank"
  /\ UNCHANGED <<shown, files, terminal, loaded, marks, bookmarks, active, pc,
                 spin, spent>>

SetRankCount(n) ==
  /\ Spend
  /\ n # spin
  /\ spin' = n
  /\ UNCHANGED <<shown, files, terminal, loaded, view, marks, bookmarks, session,
                 pc, selected, focused, mover>>

-----------------------------------------------------------------------------
(* Seeking: the seek bar, a symbol, a register, the address ribbon or an   *)
(* instruction.                                                            *)
SeekTo(a) ==
  /\ Spend
  /\ Room
  /\ view' = Seek(view, loaded, a)
  /\ mover' = "user"
  /\ UNCHANGED <<shown, files, terminal, loaded, marks, bookmarks, session, ranks>>

Navigate(to) ==
  /\ Spend
  /\ to \in 1..Len(view.history)
  /\ view' = [Moved(view, loaded, view.history[to]) EXCEPT !.at = to]
  /\ mover' = "user"
  /\ UNCHANGED <<shown, files, terminal, loaded, marks, bookmarks, session, ranks>>

NavigateBack    == Navigate(view.at - 1)
NavigateForward == view.at > 0 /\ Navigate(view.at + 1)

(* A click in the gutter of the source, whose bookmark follows the mark if *)
(* it differs, and one in the gutter of the disassembly.  A bookmark       *)
(* redraws the listing.                                                    *)
ToggleMark(l) ==
  LET a == LineAddress(loaded, l)
      set == l \notin marks[shown]
      follow == (a \in bookmarks) # set
  IN /\ Spend
     /\ marks' = [marks EXCEPT ![shown] = IF set THEN @ \cup {l} ELSE @ \ {l}]
     /\ bookmarks' = IF set THEN bookmarks \cup {a} ELSE bookmarks \ {a}
     /\ view' = IF follow THEN Show(view, view.listing) ELSE view
     /\ mover' = IF view'.cursor # view.cursor THEN "user" ELSE mover
     /\ UNCHANGED <<shown, files, terminal, loaded, session, ranks>>

ToggleBookmark(a) ==
  /\ Spend
  /\ a \in view.listing
  /\ bookmarks' = IF a \in bookmarks THEN bookmarks \ {a} ELSE bookmarks \cup {a}
  /\ view' = Show(view, view.listing)
  /\ mover' = IF view'.cursor # view.cursor THEN "user" ELSE mover
  /\ UNCHANGED <<shown, files, terminal, loaded, marks, session, ranks>>

Next ==
  \/ \E t \in Targets, b \in BOOLEAN : EditSource(t, b)
  \/ \E t \in Targets : OpenSource(t) \/ SelectTarget(t)
  \/ BuildTarget \/ CleanTarget \/ RebuildTarget \/ TerminalRuns
  \/ RunTarget \/ Step \/ Continue \/ Stop
  \/ \E r \in DOMAIN pc : SelectRank(r)
  \/ \E n \in 1..MaxRanks : SetRankCount(n)
  \/ \E a \in Sought : SeekTo(a)
  \/ \E a \in Clicked : ToggleBookmark(a)
  \/ NavigateBack \/ NavigateForward
  \/ \E l \in Lines : ToggleMark(l)

Spec == Init /\ [][Next]_vars

-----------------------------------------------------------------------------
Statuses == {"IDLE", "PAUSED", "COMPLETED", "EXITED", "SELECTED", "BUILDING"}

Views ==
  {v \in [listing : (SUBSET Addresses) \ {{}}, cursor : Addresses,
          address : Addresses \cup {0}, history : Seq(Addresses), at : Nat] :
     v.at <= Len(v.history)}

TypeOK ==
  /\ shown \in Targets
  /\ source \in [Targets -> Versions]
  /\ broken \in [Targets -> BOOLEAN]
  /\ disk \in [Targets -> Versions \cup {None}]
  /\ terminal \in Seq({"build", "clean"} \X Targets)
  /\ loaded \in Binaries \cup {None}
  /\ view \in Views
  /\ marks \in [Targets -> SUBSET Lines]
  /\ bookmarks \in SUBSET Addresses
  /\ active \in BOOLEAN
  /\ status \in Statuses
  /\ spin \in 1..MaxRanks
  /\ \E n \in 1..MaxRanks : pc \in [0..n - 1 -> Addresses] /\ selected \in 0..n - 1
  /\ focused \in 0..MaxRanks - 1
  /\ mover \in {"run", "rank", "user"}
  /\ spent \in 0..MaxActs

(* During a session the cursor from which Step and Continue move the       *)
(* selected rank is that rank's program counter, however runs, steps and   *)
(* selections of ranks follow each other, unless the user sought another   *)
(* address: a rank is never moved from where another one stands.           *)
CursorIsPc == active /\ mover # "user" => view.cursor = pc[selected]

(* Back and Forward start from the address shown in the status bar, and    *)
(* each of their steps moves.                                              *)
HistoryAtAddress ==
  /\ (view.at = 0) <=> (view.history = <<>>)
  /\ view.at > 0 => view.history[view.at] = view.address
  /\ \A i \in 1..Len(view.history) - 1 : view.history[i] # view.history[i + 1]

(* The address of the status bar is the instruction that is highlighted,   *)
(* whichever listings were shown in between, if the listing contains it.   *)
AddressHighlighted == view.address \in view.listing => view.cursor = view.address

(* The window says EXITED or COMPLETED of a rank of a binary only at a     *)
(* return: Run and Continue never give up at the bound in between.         *)
ExitedAtReturn ==
  status \in {"EXITED", "COMPLETED"} /\ mover # "user" =>
    pc[selected] \in Returns(loaded) \cup Fixture

(* What ExitedAtReturn takes of the binaries and of the fixture: a jump     *)
(* back of the fixture leads to an instruction that is none, and the        *)
(* functions of a binary are shorter than the bound and end in a return.    *)
RunsReturn ==
  /\ DOMAIN FixtureBack \subseteq Fixture
  /\ \A a \in DOMAIN FixtureBack : FixtureBack[a] \notin DOMAIN FixtureBack
  /\ \A b \in Binaries : \A f \in Image[b].functions :
       /\ IsFiniteSet(f) /\ Cardinality(f) < MaxWalk
       /\ \E last \in f \cap Image[b].returns : \A a \in f : a <= last

=============================================================================
