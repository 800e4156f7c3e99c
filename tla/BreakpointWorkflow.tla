-------------------------- MODULE BreakpointWorkflow --------------------------
(***************************************************************************)
(* The four copies of a breakpoint: the marks in the gutter of an open     *)
(* source view, the window's m_persistentBreakpoints, the project's        *)
(* .gridlock/workspace.toml, and what the back end holds (the adapter's    *)
(* list, or the breakpoints of a rank's gdb).                              *)
(*                                                                         *)
(* Every handler runs to its end on the GUI thread.  The popover of a      *)
(* right click is modal (QDialog::exec): until it closes only the          *)
(* shortcuts of the application-wide event filter get through.             *)
(*                                                                         *)
(* Ranks are told the same and share nothing, so one stands for all.  What *)
(* its gdb holds is what was asked of it and not deleted again; gdb's      *)
(* answers fill the table in which broadcastBreakpoint looks for what to   *)
(* delete, and are late.                                                   *)
(*                                                                         *)
(* Abstracted: the commands on their way (GdbSession, DapSession), so that *)
(* a back end holds already what was written; what gdb was told of         *)
(* conditions; the suspend scope, which only the view keeps; bookmarks of  *)
(* the disassembly (TargetWorkflow); watch expressions.                    *)
(***************************************************************************)
EXTENDS Naturals, FiniteSets

CONSTANTS
  Files,
  Lines,
  Workspaces,
  Binaries,      \* keys of the tables of workspace.toml
  NoBinary,      \* targetBinary of a workspace without settings, also a key
  DefaultBinary, \* what Alt+R launches then
  DemoBinary,    \* what the tutorial compiles
  Conditions,    \* conditions of the popover
  NoCondition,
  Off,           \* no breakpoint
  NoPopover,
  Pending,       \* what gdb reports for a location it cannot resolve
  Reported,      \* location |-> the `file:line` of gdb's reply: itself, another
                 \* (the name the compiler was given), or Pending
  Stores,        \* the workspace.toml files the program may find
  MaxEdits,      \* bound on clicks, right clicks and Alt+B
  MaxTabs,       \* bound on tabs opened or closed
  MaxLaunches,   \* bound on Alt+R and on tutorials
  MaxProjects,   \* bound on workspaces opened, created or given a target
  MaxSessions    \* bound on sessions saved or loaded

Keys  == Binaries \cup {NoBinary}
Marks == Conditions \cup {NoCondition, Off}
Lists == [Files -> SUBSET Lines]
Locations == Files \X Lines
Ats   == Locations \cup {Reported[k] : k \in Locations} \cup {Pending}
Bkpts == [n : Nat, loc : Locations, at : Ats, answered : BOOLEAN]

ASSUME WorkflowAssumption ==
  /\ {DefaultBinary, DemoBinary} \subseteq Binaries
  /\ Off \notin Conditions \cup {NoCondition}
  /\ DOMAIN Reported = Locations
  /\ Pending \notin Locations
  /\ NoPopover \notin [file : Files, line : Lines, wasSet : BOOLEAN]
  /\ Stores \subseteq [Workspaces -> [Keys -> Lists]]
  /\ {MaxEdits, MaxTabs, MaxLaunches, MaxProjects, MaxSessions} \subseteq Nat

VARIABLES
  backend,     \* the coordinator of the window, "gdb" or "dap"
  open,        \* EditorTabManager::m_openFiles
  marks,       \* SourceCodeView::m_breakpoints, Off everywhere without a view
  popover,     \* the right click whose popover is open
  persistent,  \* MainWindow::m_persistentBreakpoints
  workspace,   \* ConfigManager::m_workspacePath
  target,      \* workspace |-> targetBinary of its settings.toml
  stored,      \* workspace |-> binary |-> breakpoints in its workspace.toml
  adapter,     \* DapCoordinator's list: lines of each file
  rank,        \* a slot of m_processes: none, before its gdb is connected,
               \* before the first stop, or flushed
  binary,      \* m_currentBinaryPath
  held,        \* gdb's breakpoints: asked for at loc in the order of n,
               \* reported at at, and whether the reply was handled
  asked,       \* the n of the next
  crossed,     \* history: locations asked about again before gdb's reply for
               \* them was handled, or before the flush, which asks again
  session,     \* the session file: breakpoints, or none
  windowFresh, \* history: persistent was the open project's when it was
               \* opened, and no other list was loaded over it
  heldFresh,   \* history: the back end was given all of persistent
  spent

projectVars == <<workspace, target>>
slotVars == <<rank, binary>>
gdbVars  == <<held, asked, crossed>>
vars == <<backend, open, marks, popover, persistent, projectVars, stored,
          adapter, slotVars, gdbVars, session, windowFresh, heldFresh, spent>>

Bounds == [edits |-> MaxEdits, tabs |-> MaxTabs, launches |-> MaxLaunches,
           projects |-> MaxProjects, sessions |-> MaxSessions]

Spend(what) ==
  /\ spent[what] < Bounds[what]
  /\ spent' = [spent EXCEPT ![what] = @ + 1]

NoLines    == [f \in Files |-> {}]
NoMarks    == [l \in Lines |-> Off]
Unmarked   == [f \in Files |-> NoMarks]
Plain(ls)  == [l \in Lines |-> IF l \in ls THEN NoCondition ELSE Off]
Marked(ms) == {l \in Lines : ms[l] # Off}

(* ConfigManager::getBreakpoints, for the project's target or for another  *)
(* binary; saveBreakpoints, for the project's target.                      *)
GetBreakpoints == stored[workspace][target[workspace]]

\* Mutant: the tables of the other binaries are not kept.
SaveBreakpointsOnly(lists) ==
  stored' = [stored EXCEPT ![workspace] =
               [k \in Keys |-> IF k = target[workspace] THEN lists
                               ELSE NoLines]]

SaveBreakpoints(lists) ==
  stored' = [stored EXCEPT ![workspace] = [@ EXCEPT ![target[workspace]] = lists]]

-----------------------------------------------------------------------------
Init ==
  /\ backend \in {"gdb", "dap"}
  /\ open = {}
  /\ marks = Unmarked
  /\ popover = NoPopover
  /\ workspace \in Workspaces
  /\ target \in [Workspaces -> {NoBinary}]
  /\ stored \in Stores
  /\ persistent = GetBreakpoints
  /\ adapter = NoLines
  /\ rank = "none"
  /\ binary = NoBinary
  /\ held = {}
  /\ asked = 0
  /\ crossed = {}
  /\ session = NoLines
  /\ windowFresh = TRUE
  /\ heldFresh = (\A f \in Files : persistent[f] = {})
  /\ spent = [what \in DOMAIN Bounds |-> 0]

-----------------------------------------------------------------------------
(* The rank.  The breakpoints gdb has of a location; RankState::breakpoints *)
(* with that location, filled from the replies; and of these the one       *)
(* broadcastBreakpoint deletes, the first by number.                       *)
Here(loc) == {b \in held : b.loc = loc}

Recorded(loc) == {b \in held : b.answered /\ b.at = loc}

Deleted(loc) == {b \in Recorded(loc) : \A c \in Recorded(loc) : b.n <= c.n}

AskedFor(locs) ==
  {[n |-> asked, loc |-> k, at |-> Reported[k], answered |-> FALSE] : k \in locs}

(* What gdb takes without -f: what it resolves, and nothing before it is   *)
(* connected, because it has no symbols then.                              *)
Taken(locs) ==
  {k \in locs : rank \in {"connected", "synced"} /\ Reported[k] # Pending}

(* broadcastBreakpoint of some locations, one after the other: the table   *)
(* entry of each is deleted, and it is asked for if it is to be set.       *)
BroadcastAll(locs, isSet) ==
  \/ /\ rank = "none"
     /\ UNCHANGED gdbVars
  \/ /\ rank # "none"
     /\ held' = (held \ UNION {Deleted(k) : k \in locs})
                  \cup (IF isSet THEN AskedFor(Taken(locs)) ELSE {})
     /\ asked' = asked + 1
     /\ crossed' = crossed \cup {k \in locs : \E b \in Here(k) : ~b.answered}

\* Mutant: an unset breakpoint is not deleted.
BroadcastSet(f, l, isSet) ==
  \/ /\ isSet
     /\ BroadcastAll({<<f, l>>}, isSet)
  \/ /\ ~isSet
     /\ UNCHANGED gdbVars

Broadcast(f, l, isSet) == BroadcastAll({<<f, l>>}, isSet)

(* DapCoordinator::toggleBreakpoint flips its list, whatever is meant. *)
Flip(lines, ls) == (lines \ ls) \cup (ls \ lines)

Toggle(f, l) == adapter' = [adapter EXCEPT ![f] = Flip(@, {l})]

Send(f, l, isSet) ==
  \/ /\ backend = "gdb"
     /\ Broadcast(f, l, isSet)
     /\ UNCHANGED adapter
  \/ /\ backend = "dap"
     /\ Toggle(f, l)
     /\ UNCHANGED gdbVars

(* Many breakpoints at once, all to be set. *)
SendAll(lists) ==
  \/ /\ backend = "gdb"
     /\ BroadcastAll({k \in Locations : k[2] \in lists[k[1]]}, TRUE)
     /\ UNCHANGED adapter
  \/ /\ backend = "dap"
     /\ adapter' = [f \in Files |-> Flip(adapter[f], lists[f])]
     /\ UNCHANGED gdbVars

(* launchParallelSession: a fresh gdb, or the adapter with its list.       *)
Launch(b) ==
  \/ /\ backend = "gdb"
     /\ rank' = "launching"
     /\ binary' = b
     /\ held' = {}
     /\ asked' = 0
     /\ crossed' = {}
     /\ heldFresh' = FALSE
  \/ /\ backend = "dap"
     /\ UNCHANGED <<slotVars, gdbVars>>

(* What the handlers of gdb's records leave alone. *)
windowVars == <<backend, open, marks, popover, persistent, projectVars, stored,
                adapter, binary, session, windowFresh, spent>>

(* The connection that succeeds is written. *)
Connect ==
  /\ rank = "launching"
  /\ rank' = "connected"
  /\ UNCHANGED <<windowVars, gdbVars, heldFresh>>

(* The first stop: gdb is asked for what is saved for the binary now, also *)
(* for what it cannot resolve.                                             *)
FlushCachedBreakpoints ==
  LET lists == stored[workspace][binary]
  IN  /\ rank = "connected"
      /\ rank' = "synced"
      /\ held' = held \cup AskedFor({k \in Locations : k[2] \in lists[k[1]]})
      /\ asked' = asked + 1
      /\ crossed' = crossed \cup {b.loc : b \in held}
      /\ heldFresh' = (lists = persistent)
      /\ UNCHANGED windowVars

(* The next reply to an insertion is handled; they come in the order of    *)
(* the insertions.                                                         *)
HandleBkpt ==
  /\ \E b \in held :
       /\ ~b.answered
       /\ \A c \in held : ~c.answered => b.n <= c.n
       /\ held' = (held \ {b}) \cup {[b EXCEPT !.answered = TRUE]}
  /\ UNCHANGED <<windowVars, rank, asked, crossed, heldFresh>>

(* The handler of EditorTabManager::breakpointToggled. *)
BreakpointToggled(f, l, mark) ==
  /\ marks' = [marks EXCEPT ![f] = [@ EXCEPT ![l] = mark]]
  /\ persistent' = [persistent EXCEPT ![f] = IF mark = Off THEN @ \ {l} ELSE @ \cup {l}]
  /\ SaveBreakpoints(persistent')
  /\ Send(f, l, mark # Off)
  /\ UNCHANGED <<backend, open, projectVars, slotVars, session, windowFresh,
                 heldFresh>>

-----------------------------------------------------------------------------
(* A left click in the gutter of an open view. *)
Click(f, l) ==
  /\ popover = NoPopover
  /\ f \in open
  /\ Spend("edits")
  /\ BreakpointToggled(f, l, IF marks[f][l] = Off THEN NoCondition ELSE Off)
  /\ UNCHANGED popover

(* A right click marks the line tentatively and opens the popover. *)
RightClick(f, l) ==
  /\ popover = NoPopover
  /\ f \in open
  /\ Spend("edits")
  /\ popover' = [file |-> f, line |-> l, wasSet |-> marks[f][l] # Off]
  /\ \/ /\ marks[f][l] = Off
        /\ BreakpointToggled(f, l, NoCondition)
     \/ /\ marks[f][l] # Off
        /\ UNCHANGED <<backend, open, marks, persistent, projectVars, stored,
                       adapter, slotVars, gdbVars, session, windowFresh, heldFresh>>

\* Mutant: a cancelled popover leaves the tentative mark.
PopoverResultKept(accepted, enabled, condition) ==
  LET f == popover.file
      l == popover.line
  IN  /\ popover # NoPopover
      /\ popover' = NoPopover
      /\ \/ /\ accepted
            /\ BreakpointToggled(f, l, IF enabled THEN condition ELSE Off)
         \/ /\ ~accepted
            /\ UNCHANGED <<backend, open, marks, persistent, projectVars,
                           stored, adapter, slotVars, gdbVars, session,
                           windowFresh, heldFresh>>
      /\ UNCHANGED spent

(* handleBreakpointPopoverResult: a new mark is taken back when the        *)
(* popover is cancelled, any mark when it was removed or disabled, and     *)
(* the condition is put on it otherwise.                                   *)
PopoverResult(accepted, enabled, condition) ==
  LET f == popover.file
      l == popover.line
      removed == \/ ~accepted /\ ~popover.wasSet
                 \/ accepted /\ ~enabled
  IN  /\ popover # NoPopover
      /\ popover' = NoPopover
      /\ \/ /\ removed /\ marks[f][l] # Off
            /\ BreakpointToggled(f, l, Off)
         \/ /\ ~removed /\ accepted
            /\ BreakpointToggled(f, l, condition)
         \/ /\ removed => marks[f][l] = Off
            /\ ~removed => ~accepted
            /\ UNCHANGED <<backend, open, marks, persistent, projectVars,
                           stored, adapter, slotVars, gdbVars, session,
                           windowFresh, heldFresh>>
      /\ UNCHANGED spent

Cancel  == PopoverResult(FALSE, TRUE, NoCondition)
Remove  == PopoverResult(TRUE, FALSE, NoCondition)
Done(c) == PopoverResult(TRUE, TRUE, c)

(* Alt+B toggles the adapter's breakpoint and nothing else.  The event     *)
(* filter sees the key before the modal popover does.                      *)
ToggleBreakpointCommand(f, l) ==
  /\ f \in open
  /\ backend = "dap"
  /\ Spend("edits")
  /\ Toggle(f, l)
  /\ heldFresh' = FALSE
  /\ UNCHANGED <<backend, open, marks, popover, persistent, projectVars, stored,
                 slotVars, gdbVars, session, windowFresh>>

-----------------------------------------------------------------------------
(* EditorTabManager::openFile: a new view shows what is saved. *)
OpenFile(f) ==
  /\ popover = NoPopover
  /\ f \notin open
  /\ Spend("tabs")
  /\ open' = open \cup {f}
  /\ marks' = [marks EXCEPT ![f] = Plain(GetBreakpoints[f])]
  /\ UNCHANGED <<backend, popover, persistent, projectVars, stored, adapter,
                 slotVars, gdbVars, session, windowFresh, heldFresh>>

CloseTab(f) ==
  /\ popover = NoPopover
  /\ f \in open
  /\ Spend("tabs")
  /\ open' = open \ {f}
  /\ marks' = [marks EXCEPT ![f] = NoMarks]
  /\ UNCHANGED <<backend, popover, persistent, projectVars, stored, adapter,
                 slotVars, gdbVars, session, windowFresh, heldFresh>>

\* Mutants: the tabs of the last project stay; views outlive their tabs.
ClearNoTabs == UNCHANGED <<open, marks>>

ClearTabsOnly ==
  /\ open' = {}
  /\ UNCHANGED marks

ClearAllTabs ==
  /\ open' = {}
  /\ marks' = Unmarked

(* File > Open Workspace. *)
OpenWorkspace(w) ==
  /\ popover = NoPopover
  /\ Spend("projects")
  /\ ClearAllTabs
  /\ workspace' = w
  /\ persistent' = stored[w][target[w]]
  /\ windowFresh' = TRUE
  /\ heldFresh' = (heldFresh /\ persistent' = persistent)
  /\ UNCHANGED <<backend, popover, target, stored, adapter, slotVars, gdbVars,
                 session>>

(* File > New Project: the settings get the target, a session starts, and  *)
(* the window's list stays what it was.                                    *)
NewProject(w, b) ==
  /\ popover = NoPopover
  /\ Spend("projects")
  /\ ClearAllTabs
  /\ workspace' = w
  /\ target' = [target EXCEPT ![w] = b]
  /\ windowFresh' = (persistent = stored[w][b])
  /\ Launch(b)
  /\ backend = "dap" => UNCHANGED heldFresh
  /\ UNCHANGED <<backend, popover, persistent, stored, adapter, session>>

(* The program ends, or is killed with a popover open, and is started in   *)
(* some directory.                                                         *)
Restart(w) ==
  /\ Spend("projects")
  /\ ClearAllTabs
  /\ popover' = NoPopover
  /\ workspace' = w
  /\ persistent' = stored[w][target[w]]
  /\ adapter' = NoLines
  /\ rank' = "none"
  /\ binary' = NoBinary
  /\ held' = {}
  /\ asked' = 0
  /\ crossed' = {}
  /\ windowFresh' = TRUE
  /\ heldFresh' = (\A f \in Files : persistent'[f] = {})
  /\ UNCHANGED <<backend, target, stored, session>>

(* Project settings dialog: the saved target, and nothing in the window. *)
AcceptSettings(b) ==
  /\ popover = NoPopover
  /\ Spend("projects")
  /\ target' = [target EXCEPT ![workspace] = b]
  /\ windowFresh' = (windowFresh /\ GetBreakpoints = stored[workspace][b])
  /\ UNCHANGED <<backend, open, marks, popover, persistent, workspace, stored,
                 adapter, slotVars, gdbVars, session, heldFresh>>

(* Alt+R launches the target of the settings; the key gets through while   *)
(* the popover is open.                                                    *)
LaunchCommand ==
  /\ Spend("launches")
  /\ Launch(IF target[workspace] = NoBinary THEN DefaultBinary ELSE target[workspace])
  /\ backend = "dap" => UNCHANGED heldFresh
  /\ UNCHANGED <<backend, open, marks, popover, persistent, projectVars, stored,
                 adapter, session, windowFresh>>

(* onTutorialLaunchRequested with a source that compiles.  What is sent to *)
(* the ranks there are is lost when the demo's session replaces them.      *)
TutorialLaunch(f) ==
  LET lists == [g \in Files |-> IF g = f THEN GetBreakpoints[f] ELSE {}]
  IN  /\ popover = NoPopover
      /\ Spend("launches")
      /\ open' = open \cup {f}
      /\ persistent' = GetBreakpoints
      /\ marks' = [marks EXCEPT ![f] = Plain(GetBreakpoints[f])]
      /\ UNCHANGED <<backend, popover, projectVars, stored, session, windowFresh>>
      /\ Launch(DemoBinary)
      /\ backend = "gdb" => UNCHANGED adapter
      /\ backend = "dap" =>
           /\ SendAll(lists)
           /\ heldFresh' = (heldFresh /\ persistent' = persistent
                                      /\ GetBreakpoints[f] = {})

(* File > Save Session and File > Load Session.  A session replaces the    *)
(* window's list, not the project's, and the marks of the files it names.  *)
SaveSession ==
  /\ popover = NoPopover
  /\ Spend("sessions")
  /\ session' = persistent
  /\ UNCHANGED <<backend, open, marks, popover, persistent, projectVars, stored,
                 adapter, slotVars, gdbVars, windowFresh, heldFresh>>

LoadSession ==
  /\ popover = NoPopover
  /\ Spend("sessions")
  /\ persistent' = session
  /\ marks' = [f \in Files |-> IF f \in open /\ session[f] # {}
                               THEN Plain(session[f]) ELSE marks[f]]
  /\ SendAll(session)
  /\ windowFresh' = FALSE
  /\ heldFresh' = FALSE
  /\ UNCHANGED <<backend, open, popover, projectVars, stored, slotVars, session>>

-----------------------------------------------------------------------------
Edit ==
  \E f \in Files, l \in Lines :
    Click(f, l) \/ RightClick(f, l) \/ ToggleBreakpointCommand(f, l)

ClosePopover == Cancel \/ Remove \/ \E c \in Conditions \cup {NoCondition} : Done(c)

Tab == \E f \in Files : OpenFile(f) \/ CloseTab(f)

Project ==
  \/ \E w \in Workspaces : OpenWorkspace(w) \/ Restart(w)
  \/ \E w \in Workspaces, b \in Binaries : NewProject(w, b)
  \/ \E b \in Binaries : AcceptSettings(b)

Start == LaunchCommand \/ \E f \in Files : TutorialLaunch(f)

Gdb == Connect \/ FlushCachedBreakpoints \/ HandleBkpt

Next ==
  \/ Edit \/ ClosePopover \/ Tab \/ Project \/ Start \/ SaveSession \/ LoadSession
  \/ Gdb

Spec == Init /\ [][Next]_vars

-----------------------------------------------------------------------------
TypeOK ==
  /\ backend \in {"gdb", "dap"}
  /\ open \subseteq Files
  /\ marks \in [Files -> [Lines -> Marks]]
  /\ \A f \in Files \ open : marks[f] = NoMarks
  /\ \/ popover = NoPopover
     \/ popover \in [file : open, line : Lines, wasSet : BOOLEAN]
  /\ persistent \in Lists
  /\ workspace \in Workspaces
  /\ target \in [Workspaces -> Keys]
  /\ stored \in [Workspaces -> [Keys -> Lists]]
  /\ adapter \in Lists
  /\ rank \in {"none", "launching", "connected", "synced"}
  /\ binary \in Keys
  /\ held \subseteq Bkpts
  /\ asked \in Nat
  /\ crossed \subseteq Locations
  /\ session \in Lists
  /\ windowFresh \in BOOLEAN
  /\ heldFresh \in BOOLEAN
  /\ spent \in [DOMAIN Bounds -> Nat]

(* While the window's list was loaded from the open project, the file on   *)
(* disk is that list and each open view marks it, also while a popover is  *)
(* open: what the gutter shows is what the next start of the program, or   *)
(* the next session, will find.                                            *)
ViewsAgree ==
  windowFresh =>
    /\ persistent = GetBreakpoints
    /\ \A f \in open : Marked(marks[f]) = persistent[f]

(* A rank that was flushed with the window's list has each of its          *)
(* breakpoints that gdb can resolve, whatever was clicked since.  Where    *)
(* gdb names the location as asked it stops nowhere else, and once at      *)
(* each, unless a location was clicked again before gdb's reply for it was *)
(* handled: broadcastBreakpoint deletes only what the replies put in its   *)
(* table.                                                                  *)
RanksAgree ==
  backend = "gdb" /\ rank = "synced" /\ heldFresh =>
    \A f \in Files, l \in Lines :
      LET k == <<f, l>> IN
      /\ l \in persistent[f] /\ Reported[k] # Pending => Here(k) # {}
      /\ Reported[k] = k /\ k \notin crossed =>
           /\ \A b, c \in Here(k) : b = c
           /\ Here(k) # {} => l \in persistent[f]

(* The adapter's list is the window's, if it started empty.  The code does *)
(* not keep it: the popover's Done toggles the adapter's breakpoint.       *)
AdapterAgrees == backend = "dap" /\ heldFresh => adapter = persistent

(* A right click that is cancelled leaves no trace in the view, the window *)
(* or the project.                                                         *)
Untouched(f, l) ==
  popover # NoPopover /\ popover.file = f /\ popover.line = l /\ ~popover.wasSet

CancelRestores ==
  [][\A f \in Files, l \in Lines :
       windowFresh /\ Untouched(f, l) /\ Cancel =>
         /\ marks'[f][l] = Off
         /\ l \notin persistent'[f]
         /\ l \notin GetBreakpoints'[f]]_vars

(* Saving the whole list of the window never loses what is saved for       *)
(* another file, binary or workspace, as long as the list is the open      *)
(* project's: a step changes the saved breakpoints of one line.            *)
SavesOneLine ==
  [][windowFresh =>
       \A w, v \in Workspaces, k, j \in Keys, f, g \in Files :
         /\ stored'[w][k][f] # stored[w][k][f]
         /\ stored'[v][j][g] # stored[v][j][g]
         => /\ w = v /\ k = j /\ f = g
            /\ \E l \in Lines : stored'[w][k][f] \ {l} = stored[w][k][f] \ {l}]_vars

=============================================================================
