# GridLock: specifications and proofs

GridLock is a desktop debugger for MPI programs (C++23, Qt 6). A main window
drives one of two *coordinators*. `DapCoordinator` talks to a single `lldb-dap`
adapter over the Debug Adapter Protocol; it is the production back end
(`src/src/main.cpp:181`). `GdbRankCoordinator` runs one `gdb --interpreter=mi3`
per MPI rank, attached over TCP to the gdbserver that `mpiexec` started for the
rank; the automation runner and the tests use it and the window supports both.

This directory holds TLA+ models of the parts where the order of events decides
whether the program is right, TLC instances that check them, and TLAPS proofs.

## 1. Inventory

| Component | State | Operations | Talks to | Hard behaviour | What makes it correct |
|---|---|---|---|---|---|
| DapCoordinator | session state, next sequence number, six request maps, frame and pid caches, SLURM job, breakpoints, byte buffer | launch, terminate, step/continue/pause, five questions, heatmap, toggle breakpoint, handle message, process signals | adapter (pipes), thread pool, views (signals), `scancel` | messages parsed by pool tasks and handled in any order; requests refused or dropped by state; adapter starts, fails and ends at any time | answers reach who asked, once; the adapter holds the breakpoints shown; the handshake completes; no job is forgotten; the state tells the truth |
| GdbRankCoordinator | a slot per rank (process, RankState), watch variables, hover and evaluate slots | launch, terminate, broadcast breakpoint, commands, timers, `processGdbOutput` | gdb per rank (FIFO pipes), mpiexec/gdbserver (TCP), workspace file, views | connect timers that outlive a session; breakpoint flush as a barrier; edits while replies are on their way | the breakpoint table is gdb's; no breakpoint is missing; every rank is released; the state shown is the target's |
| DebugCommands | none | launch, step, continue, halt, toggle a breakpoint | a coordinator | the event filter sees the keys before a modal popover does | the command does what the gutter would |
| Variables view (VariableTreeModel, VariablesDockWidget) | tree of nodes, rank shown, loaded flags, variable objects to delete, last state noted per rank | select a rank, reload on stop, fetch children, merge answers | both coordinators | late answers, answers for nodes that are gone, two copies of the rank | the rows are of the rank selected, each is alive in its gdb, none is missing, a node expanded gets its children |
| DeadlockAnalyzer | a flag per rank: a stack was asked for | `onRankStateChanged`, `onGdbOutputReceived` | GdbRankCoordinator, MpiDiagnosticsWidget | answers to its own questions cause further announcements; a rank resumed between question and answer | an alert is about the stop shown; a blocked rank gets one; the questions run out |
| ClangdLspClient | clangd, initialized flag, active document, request number, document version | `completeDetailedAtLine`, start, quit | clangd (pipes), source view, breakpoint popover | calls that give up, whose answers arrive later; clangd ends and is started again | completions are of the text asked about; documents are opened and closed in turn |
| LspCoordinator | child process, initialized flag, hover requests, byte buffer | start, stop, didOpen, hover, parse | clangd | nothing can be sent before the process runs | the handshake completes; a hover is answered at the right place |
| Breakpoint workflow | marks of each open source view, the window's list, `workspace.toml` per binary, what the back end holds, a saved session | click, right click and popover, Alt+B, open and close a tab, open, create or configure a project, launch, tutorial, save and load a session | both coordinators, ConfigManager, SessionManager | four copies of one set, a tentative breakpoint while a modal popover is open, tables of several binaries | the copies agree; a cancel leaves nothing; a save changes one line |
| Target workflow (main window, disassembly view, server rack) | file shown, sources and binaries, terminal queue, binary loaded, listing and cursor, seek history, marks and bookmarks, program counter per rank | select, edit, build, rebuild, clean, run, step, continue, stop, select a rank, seek, back, forward | terminal, compiler, objdump | one cursor stands for the selected rank's program counter and is moved by five other features; the terminal compiles in the background | a rank moves from where it stands; history goes back to where one was; a rank is called exited at a return |
| Disassembly view | listing, patches, basic blocks, decompiled text with its two maps of lines, highlighted line, cursor, graph as drawn, three mode flags, program counter per rank, deadlocked ranks | report of a rank, select a rank, run, step, stop, load a binary, seek, click, patch, change language, mode or perspective | window, server rack, gdb's and the binary's listings | derived views are rebuilt by some operations in some modes | the graph is the listing's control flow; what is visible is current |
| Memory tools | none | validate a range, compare, export, read `/proc` | memory view | machine-width arithmetic | a range accepted lies in its allocation |
| TelemetryObfuscator | byte buffer under a mutex | push (any thread), flush (timer) | sink of packets | concurrent push and flush | every byte leaves once, in order |
| ConfigManager, SessionManager | TOML and JSON files | load, save | window, coordinators | tables per binary in one file | a save loses nothing of the others |
| Views, widgets, dialogs, other managers, utilities | presentation | – | – | sequential | – |

## 2. Plan

Order: the most important behaviour first.

1. `RequestLedger`, `DapSession` – the production coordinator (**done**).
2. `RankLifecycle`, `GdbSession` – the per-rank coordinator (**done**).
3. `VariableTree` – lazy loading against late answers (**done**).
4. `BreakpointWorkflow` – breakpoints of the window, its files and both
   coordinators (**done**).
5. `TargetWorkflow` – build, run, step and seek (**done**).
6. `StopQueries` – the questions of a stop, watch variables, deadlock alerts
   (**done**).
7. `CompletionClient` – the completion client of the editor (**done**).
8. `DisassemblyGraph` – graph and decompiled text of a listing (**done**).
9. `PackageSearch` – debounced searches of HpcConsoleWidget and their late
   results; `MemoryPatches` – patches of MemView against new snapshots (left).

Abstract specifications: `RequestLedger` (what a client of numbered requests
promises), `RankLifecycle` (what the views are promised about a rank's state).

Theorems still worth proving: that `GdbSession` implements `RankLifecycle` for
the exits and relaunches where it does, `JobNeverForgotten` for one banner,
`RowsAlive` (a variable object is created once, and a deletion names one whose
creation was answered), and `ObjectsKnown`, its like for watches.

## 3. Modules

### RequestLedger
The promise of a coordinator to the views: `issued` questions have numbers no
other question ever had, and `answered` grows by one open question at a time.

### DapSession
One module for `DapCoordinator` and, marked external, the adapter and target
under it. Three actors share the state:

- the **GUI thread** runs methods and handlers one at a time. One action per
  method (`LaunchParallelSession`, `Control`, `Ask`, `RequestHeatmapRender`,
  `ToggleBreakpoint`), two for `terminateSession` because its
  `waitForFinished` calls leave time for the process to end
  (`TerminateSession`, `TerminateReturns`; nothing else of the GUI thread runs
  while `terminating`), one per branch of `handleMessage`, one per QProcess
  signal;
- the **thread pool** parses each message in a task of its own and posts it
  back, so `pool` is a set and any element may be handled next;
- the **adapter** reads `stdin` in order and puts answers and events in `pool`.

`SendAll` is `sendRequest` followed by `sendRawMessage`: the first refuses in
Terminating and Disconnected (but not `disconnect`), the second drops in every
state but Running, Paused and Terminating. The six `m_*Requests` maps are one
set of entries `[map, seq, tag]`; `asked`, `told`, `captured` and `cancelled`
are history variables. `QProcess::start` on a process that has not ended does
nothing.

### RankLifecycle
What the views are promised about the state shown for a rank: never stopped
before the breakpoints were flushed, stopped only after running, exited until
the session ends.

### GdbSession
`GdbRankCoordinator` with a gdb, a gdbserver and a target per rank (external).
Pipes are FIFO (`toGdb`, `fromGdb`). `LaunchParallelSession` makes fresh slots
and arms one connect timer per rank; `TimerFires` writes the connection to
whatever process has the slot now; `HandleFirstStop` is the first `*stopped` of
a slot, which calls `flushCachedBreakpoints` (one command per saved line, in any
order: the lines are iterated from a hash); `HandleBkpt` counts the replies and
fills `RankState::breakpoints`; `HandleRefused` arms another timer.
`EditBreakpoint` is the window's handler with `broadcastBreakpoint`: at most one
deletion and one insertion per rank. `Reported` says what gdb answers for a line
(the line, another location, or none yet), a constant because the code's
regular expression and comparison depend on it.

### VariableTree
`VariableTreeModel` and the dock that owns it, over one of the two back ends
(`backend`, chosen initially: the code asks `dynamic_cast` at each step). The
dock and the model each keep the rank they think is shown (`selected`,
`m_currentRankId`); a selection, a stop of that rank, and with DAP every stack
trace of it reload the tree (`LoadFromGdb`, `LoadFromDap`). `Clear` deletes the
variable objects of the rank shown so far. With gdb the answers come on that
rank's FIFO pipe (`HandleRecord`, which the dock reads for state changes and
the model for answers); with DAP they come in any order (`HandleMessage`). A
DAP reference is good for one stop (`gen` is the stop), a variable object has
the generation of its list (`gen` is `m_updateCounter`). What `DapSession` shows
of numbers and answers is used here: an answer is a copy of its request. A row
is nested or not; `Fields` says what a structure contains, one level deep.

### BreakpointWorkflow
The four copies of a breakpoint and every handler that changes one. All of them
run to their end on the GUI thread, so an action is a handler with everything it
calls: `Click` and `RightClick` are SourceCodeView's mouse handlers with the
window's slot for `breakpointToggled` (`BreakpointToggled`: the mark, the
window's list, the file, the back end). The popover of a right click is modal;
while `popover` is set only `Alt+B` and `Alt+R` get through the application-wide
event filter, and the program may be killed (`Restart`). `stored` is
`workspace.toml`: per workspace and per binary, because a save writes the table
of the project's target and keeps the others. With DAP everything is a toggle
(`Toggle`, `SendAll`). With gdb `rank` is a slot: launched, connected
(`Connect`), flushed at its first stop with what is saved for the binary
launched (`FlushCachedBreakpoints`). `held` has gdb's breakpoints in the order
they were asked for, each with the location gdb reports for it (`Reported`: the
one asked for, another, or none yet) and whether that reply was handled
(`HandleBkpt`). `Broadcast` deletes what it finds under the location among the
replies handled (`Deleted`), which may be nothing or another breakpoint, and
then asks for another. `windowFresh`, `heldFresh` and `crossed` are history:
whether the window's list is the open project's, whether the back end was given
all of it, and the locations asked about again before a reply for them was
handled. How commands and replies cross on the pipes, and how the flush ends, is
`GdbSession`'s; here a command takes effect when it is written.

### TargetWorkflow
The toolbar's Run, Step and Continue. `Ensured` is `ensureTargetBinaryCompiled`
with the load it may end in; `RunTarget` is that and `startTargetWorkflow`.
`view` is the listing, the cursor, the address of the status bar and the seek
history; `Seek` shows a function and remembers the address. `Advance` is
`advanceRankProgramCounter` and `Walk` the loop of Run and Continue, a recursive
function over at most `MaxWalk` instructions. What the compiler and objdump make
of a version of a source is the constant `Image`; the terminal is a queue of
commands which it runs later (`TerminalRuns`). `mover` is history: what moved
the cursor last.

### StopQueries
What is asked of a rank's gdb when it stops, for one rank: the handlers of two
ranks share only the list of watched names. A stop is one of three, and all ask
for disassembly and registers (`Stop`, `StopQuestions`): the first of a session
(`HandleFirstStop`) flushes the saved breakpoints, or continues if there are
none; one without a file (`HandleUnmappedStop`) continues; any other is shown
(`HandleStopped`) and asks for missing watch objects and (the analyzer) the
stack too. `HandleInserted` counts the replies to the flush and continues at the
last. Only the third announces: the first stop, the unmapped stop and the end
of the flush set the rank running in silence.
`HandleDisassembly` chains `-var-update`; every answer that changes a RankState
is announced (`Announce`), and an announcement of a stopped rank makes
DeadlockAnalyzer ask again. `objectOf` and `watchOf` are the two maps between
names and variable objects, `objects` is gdb's side. A value is the number of
the last stop at which the variables changed, so that a stale value can be told.

### CompletionClient
`ClangdLspClient`, one clangd for the process. Its calls wait without running
the event loop, so one call is under way at a time: `call` is what it waits for.
`CompleteWithServer`, `CompleteUninitialized`, `CompleteStarting`,
`CompleteStarted` and `CompleteNotStarted` are the ways
`completeDetailedAtLine` may begin, `Take` and `SkipAnswer` are
`readResponseForId`, `TimeOut` is its deadline. QProcess learns of an end later
than it happens (`ServerEnds`, `EndNoticed`). clangd is external: it reads its
input in order, computes answers, and writes them in any order.

### DisassemblyGraph
The disassembly view below the cursor and bookmarks of `TargetWorkflow`. `view`
is a record of its members and of what the window keeps for it (`fallback`,
`code`, `texts` of m_latestStates, `selected` of the rack); the view's operations
are functions from a view to a view (`Update`, `Sought`, `SetGraph`,
`SetRankAddresses`, ...), because the window calls several of them in one
handler, and an action is a handler: `OnRankStateChanged`, `SelectRank`,
`StartTargetWorkflow`, `MoveRank` (step and continue), clicks, patches. `Extents`
and `Blocks` are parseDisassembly's two passes, `Decompiled` is
decompileToLanguage with the lines it emits numbered (comment, label, statement)
and the two maps between lines and addresses. `Draw` is rebuildCfgScene: `scene` is
what was drawn last and keeps showing it until it is drawn again. Listings of gdb
and of the binary are sequences of addresses, kinds and targets; code of the
binary outside of functions counts as a function. The highlight of the rank
selected is left out of `scene`.

### MCDapSession, MCGdbSession, MCVariableTree, MCBreakpointWorkflow, MCTargetWorkflow, MCStopQueries, MCCompletionClient, MCDisassemblyGraph
Definitions of the constants for TLC.

### DapSession_proofs, GdbSession_proofs, VariableTree_proofs, BreakpointWorkflow_proofs, TargetWorkflow_proofs, StopQueries_proofs, CompletionClient_proofs, DisassemblyGraph_proofs
The theorems, section 6.

Comments that start "Mutant" in the models mark alternative bodies of the
definition next to them. No run uses them; they exist so that one can replace
the definition by its mutant and see the property fail.

## 4. Runs

Runs that pass:

| Run | Asks | Instance |
|---|---|---|
| dap_requests | do answers reach who asked, once, over a crash; does the coordinator implement `RequestLedger` | 1 rank, evaluate and heatmap, 2 questions, 1 stop, 2 adapter processes, the first of which may end at any time |
| dap_breakpoints | do the adapter's breakpoints follow the view's through handshake and restart; does the handshake end | 2 lines, 2 toggles, 2 sessions, 1 terminate |
| dap_slurm | is a job read once always cancelled or known | 2 ranks, 1 banner, 2 stops, 1 exit, 1 pipe error, 2 terminates |
| gdb_attach | is the state shown the target's, along `RankLifecycle`; is every rank released | 1 rank, 2 lines, 2 edits, 1 command, 2 stops |
| gdb_relaunch | do table, replies, deletions and gdb agree over a relaunch; is no breakpoint missing | 1 rank, 2 launches, 2 edits, one location unresolved |
| tree | are the rows of the rank selected, alive in its gdb, and complete once all is quiet | 2 ranks, a structure with a field that is shadowed by another of its name, 2 stops, 1 step, 1 selection, either back end |
| breakpoint_copies | do view, window and file agree, also over a cancelled popover, a restart and a launch; does a save change one line; has a flushed rank each breakpoint of the window, and no other where gdb's replies were not overtaken | 2 files of 2 lines, of which gdb reports two as asked, one under another name and one as pending; 2 workspaces, one with saved breakpoints, 2 binaries, 2 edits, 1 tab opened or closed, 1 launch, 1 project opened, created or configured, 1 session saved or loaded, either back end |
| target | does a rank move from where it stands; are cursor, address and history one; is exited said at a return | 2 targets, one that deadlocks, 2 ranks, 2 versions of each source, 3 acts of the user between any number of runs, steps and selections |
| stops | do watches and alerts settle on the stop shown; is no variable object forgotten; do the questions run out | a watch visible in a called function only; 2 sessions, with up to 2 breakpoints to flush, 3 stops, the first of each session among them, 1 watch added, 1 command |
| completions | is a completion made from the text asked about; is clangd asked in turn; do the documents open agree | 2 documents, 6 calls, 2 ends of clangd |
| graph | are the blocks the control flow of every small listing; is the graph current whenever it is visible, the highlighted line of the cursor's block | all 2744 listings of 3 instructions (move, return, three jumps to 4 targets) and 1296 of 4 are parsed; 3 listings are used for 2 acts of the user, of 2 ranks, of gdb (one report an error) or the binary, in 2 languages |

A run that shows a disagreement between the code and what is said of it:

| Run | Property | What TLC finds |
|---|---|---|
| breakpoint_done | AdapterAgrees | Done in the popover of a breakpoint removes it from the adapter: the same toggle is sent whether it was set, edited or removed |

Other places where the models show the code going wrong, which no run repeats
(each is a path of one of the models, some under larger bounds, or is read off a
definition where the bullet says so):

- `DapCoordinator.cpp:372`: `terminateSession` while the adapter starts finds the
  process not Running, does not wait for it, and leaves Disconnected with an
  adapter that comes alive.
- `DapCoordinator.cpp:644`: a message handled after the adapter ended sets the
  state to Running, Paused or Queued although nothing runs.
- `DapCoordinator.cpp:522`: two stackTrace answers handled out of order cache the
  older frame, although the cache is described as that of the last one
  (`DapCoordinator.hpp:106`).
- `DapCoordinator.cpp:180`: continuing leaves the state at Paused.
- `DapCoordinator.cpp:681`: `m_rankToPid` is not cleared by a relaunch and its
  size is the next rank, so rank 0 keeps the pid of the ended session.
- `DapCoordinator.cpp:237`: in Queued (an allocation banner came) a toggle is
  recorded and not sent; nothing sends it later.
- `DapCoordinator.cpp:669`: a second banner overwrites the job of the first.
- `DapCoordinator.cpp:672`: a banner of the previous session handled during the
  next start sets Queued, in which `launch` is dropped; the handshake never ends.
- `GdbRankCoordinator.cpp:793`: the reply to a breakpoint gdb leaves pending has no
  `file="…"`, is not counted, and its rank stays in sync_flushing for ever.
- `GdbRankCoordinator.cpp:799`: the reply to an edit counts towards the flush
  barrier, so the rank may be released before its flush is complete.
- `GdbRankCoordinator.cpp:361`: a breakpoint switched off before the reply to its
  insertion is not in the table, so no deletion is sent and it stays in gdb
  (comment at :358: "Remove any existing GDB breakpoint at the same `file:line` before
  re-inserting or toggling off."). One switched on between the connection and the first stop is
  inserted twice, then and by the flush, and switching it off deletes one.
- `GdbRankCoordinator.cpp:363`: a breakpoint that gdb reports at another line is
  in the table under that line and cannot be switched off; if that line has a
  breakpoint of its own, switching it off deletes whichever the table holds there.
  That no breakpoint is missing is therefore proved only where gdb reports lines of
  breakpoints as themselves, or as lines nobody asks for (`Faithful`, in both modules
  about breakpoints).
- `GdbRankCoordinator.cpp:659`: after a stop in user code a stop record without a
  file takes the earlier file's place, and is not continued as unmapped code is.
- `GdbRankCoordinator.cpp:263`: the connect timer of an ended session connects
  the gdb of the next one before its own delay is over, and its own timer then
  connects it again.
- `VariableTreeModel.cpp:288`: a structure that is expanded stays empty, with either
  back end: `fetchMore` sets `childrenLoaded` when the request leaves (:204), and the
  answer is dropped for a node with it set (:288, :504). `VariableNode.hpp:40`: "True
  once child nodes have been lazily fetched and populated."
- `VariableTreeModel.cpp:280`: with DAP, an expansion answered after a reload
  replaces the locals by the fields of the structure (comment at :281).
- `VariableTreeModel.cpp:371`: a rank left and selected again before its list
  came back gets two lists, and every variable a row from each.
- `VariableTreeModel.cpp:419`: a variable object is named after the generation and
  the variable, so of two locals of one name (one shadows the other) gdb refuses the
  second and the tree has one row for both.
- `VariableTreeModel.cpp:371`: a variable object whose creation is answered after
  the rank was left is never deleted, although the comment at line 347 wants no
  leaks.
- `VariableTreeModel.cpp:230`: at a new stop the tree is first loaded with the
  frame of the earlier one, whose scopes the adapter no longer has.
- `GdbRankCoordinator.cpp:667`: `m_varNameMap` survives a relaunch, so the watches
  are not created in the new gdb (comment at :663) and the grid keeps the values
  of the ended session; a change reported under a number of the new gdb may be
  shown under the name it had in the old one.
- `GdbRankCoordinator.cpp:747`: a variable object that died at a stop is shown as
  out of scope until the next stop, even if its name is visible in the new frame.
- `GdbRankCoordinator.cpp:107`, `:803`, `:661`: a rank is set running by its first
  stop, by the end of the flush and in unmapped code without `rankStateChanged`, so
  the alert of the last session stays listed of a rank that runs until gdb's next
  record is announced. `AlertCurrent` claims that a rank running has none only once
  every answer is handled.
- `DeadlockAnalyzer.cpp:49`: an alert stays when its rank exits and while the
  session is replaced; the row of MpiDiagnosticsWidget stays "DEADLOCKED" after
  `onRankCleared`.
- `MainWindowWorkspace.cpp:496`: watch expressions of the last session come back as
  columns of the grid and are never registered (read off the code).
- `MainWindow.cpp:473`: a new project, and a new target, keep the window's list of
  the one before; the next edit saves it over the new project's.
- `MainWindowNavigation.cpp:645`: a loaded session is not saved, broadcasts
  breakpoints the adapter has (and so removes them) and leaves those of files it
  does not name.
- `MainWindowWorkspace.cpp:448`: opening a project with saved breakpoints gives the
  adapter none; a click on a marked line then adds it there. Reopening a tab
  drops the conditions.
- The tutorial broadcasts its breakpoints to the ranks its launch replaces, whose
  successors are flushed with those saved for the demo's binary: none. With DAP a
  second tutorial launch removes them. Alt+R without a target in the settings
  launches `build/mpi_mm_bin`, while edits are saved under no name.
- A program killed with a popover open keeps the tentative breakpoint.
- `MainWindowDebugger.cpp:794`: Run loads a binary again only if it compiled it
  itself (comment at :792), so after Build or Rebuild in the terminal it runs
  with the old listing. A failed compile runs the old binary.
- Run starts from the first address of the listing shown, so it may stop outside
  `main` (`docs/USER_GUIDE.md:12`); it stops at bookmarks of an earlier compile or
  of the fixture; with fewer ranks than the rank selected it leaves
  `m_focusedRank` beyond the last.
- Two lines with one address: unmarking one removes the bookmark of both. Build
  during a session moves the cursor, and the next Step moves the rank from there.
- `MainWindowNavigation.cpp:322`: a seek to a symbol seeks again inside itself,
  which the guard rejects, so it does not jump (`docs/USER_GUIDE.md:101`; read off
  the code).
- `ClangdLspClient.cpp:281`: after an `initialize` that was not answered in time the
  next call sends a second one to the same clangd, and any answer to it, an error
  too, counts as success.
- `DisassemblyAnalysis.cpp:154`: conditional jumps that are not in the list (`jp`, `jc`,
  `jecxz`, `loop`) and jumps with a prefix (`bnd jmp`) count as straight-line code (read
  off the code).
- `DisassemblyDecompiler.cpp:590`: patches are kept by address and spliced into every
  listing that has the address, also into another binary's.
- `DisassemblyView.cpp:901`: `setActiveSteppingRank` changes the rank selected without
  drawing the graph, so after a Run of fewer ranks the block of the earlier rank may
  stay highlighted (read off the code).
- `DisassemblyDecompiler.cpp:734`: `outgoingXrefs` returns every reference of the
  listing, whatever the address (read off the code).

### Bounds

All bounds are constants used in guards (`Spend`) or on the number of sessions;
nothing else limits the models. Two sessions are what any confusion between an
ended and a live one needs. Two questions, one of them a heatmap that travels as
`evaluate`, are what mixing up two maps needs. A structure with one field is what an expansion and
a late answer to it need, two ranks what an answer about the wrong one needs.
Two lines and two edits are what
an edit racing another edit, or a flush of two, needs. Two files and two lines are what saving the wrong list needs, one project opened
what a list of another needs. Two edits are a breakpoint switched on and off at any
two moments of a launch. Three stops are the first of each of two sessions and one
between them that leaves an alert, or in one session the first, one whose answers
are late and one that settles (4 stops in 2 sessions were checked once and pass
too). Two breakpoints to flush are a reply that ends the barrier and one
that does not. Six calls are one that
starts clangd, one that gives up, one that is answered, and the same after an
end. The walk of six instructions crosses each of the small listings twice.
Two acts on the disassembly view are one that shows, hides or half hides the
graph and one that changes something; it starts hidden, so the two orders are
change and show, and show and change (three acts on two of the listings were
checked once and pass too). Three instructions are what a block needs that is
entered from before and after and left both ways, four what two such blocks need.
The proofs of section 6 lift the bounds for the properties they state.
CHECK_DEADLOCK is off in all runs
because a bounded instance ends when its bounds are spent, and because a user
may do nothing for ever.

### Fairness

Weak fairness is assumed of what the event loop, the pool and the external
programs do by themselves: posted tasks run, timers fire, a starting process
starts, bounded waits end, an adapter and a gdb that run read their input, a
gdbserver listens in the end, an adapter told to disconnect ends. Nothing is
assumed of the user, of the target (which may run for ever) or of an adapter
that was not told to end. HandshakeCompletes, RanksReleased and AnswersEnd are
checked under `FairSpec`. For the last
StopQueries assumes that the event loop handles what arrives and that gdb
reads what is written; `Handle` and `Gdb` each take the only record or command
that is next, so weak fairness of the disjunction is that of the queue. The
other modules state no liveness: BreakpointWorkflow and TargetWorkflow are
handlers that run to their end, and a call of CompletionClient ends by its
deadline.

## 5. Properties

`DapSession`: `TypeOK`; `AttributionSound` (an answer reaches the view that
asked); `Correlation`, the inductive invariant behind it, of which `NoDoubleAnswer`
is a part; `KeepsLedger` (refinement of `RequestLedger`); `BreakpointsSynced`;
`HandshakeCompletes`; `JobNeverForgotten`.

`GdbSession`: `TypeOK`; `TableAgrees`, the inductive invariant of which
`TableSound` is a part; `NoneMissing`; `StateFresh`; `ShowsLifecycle`
(refinement of `RankLifecycle`); `RanksReleased`, which the instance with every
location resolved keeps and a breakpoint left pending breaks.

`StateFresh` holds within a session: over a relaunch, the second connection of a
gdb (the timer of an ended session, above) drops the target it has.
`BreakpointsSynced` holds unless the session becomes Queued, and
`JobNeverForgotten` for one banner. The instances say so with `MaxLaunches`,
`MaxBanners`.

`VariableTree`: `TypeOK`; `RowsOfCurrentRank`, part of the inductive
`Attribution`; `RowsAlive`; `LocalsComplete`. `LocalsComplete` is of
gdb only: with DAP the stack trace of one stop may be handled after that of the
next, and the frame it leaves in the cache has no scopes.

`BreakpointWorkflow`: `TypeOK`; `ViewsAgree` (gutter, window and file, as long as
the window's list was loaded from the open project); `RanksAgree` (a flushed rank
lacks no breakpoint of the window that gdb can resolve; at a location gdb names as
asked it has none the window has not, and never two, unless the location was asked
about again before its reply was handled or before the flush); `CancelRestores`;
`SavesOneLine`. It fails `AdapterAgrees`. Without that exception `RanksAgree` fails too
(section 4).

`TargetWorkflow`: `TypeOK`; `CursorIsPc`, by which Step and Continue move a rank
from where it stands; `HistoryAtAddress`; `AddressHighlighted`; `ExitedAtReturn`.
The first and the last speak of positions that runs, steps and selections of
ranks left: after a seek of the user the rank is moved from the address sought,
which is what the code offers, and `mover` says so.

`StopQueries`: `TypeOK`; `WatchesFresh`; `ObjectsKnown`; `AlertCurrent` (the
alert of a stopped rank is about the stop shown, and a running rank has none once every
answer is handled); `AlertSettled` (once all is quiet, a rank has an
alert if and only if it is blocked); `AnswersEnd`.

`CompletionClient`: `TypeOK`; `AnswersMatch`; `ProtocolKept` (documents are opened
and completed after `initialize` was read, opened once, and completed at the
version asked about); `DocumentsAgree`.

`DisassemblyGraph`: `TypeOK`; `GraphFaithful` (blocks and edges against `Follows`,
the control flow by itself); `ViewsCurrent` (what is visible is what would be drawn
now, and the highlighted line of the decompiled text is of the cursor's block).

## 6. Proofs

Assumptions: `DapAssumption` (ranks are naturals, the subject of no question is
no rank, bounds are naturals) and `GdbAssumption` (the lines are finite,
`Reported` is defined on them, the location "not yet" is no line, bounds are
naturals), `TreeAssumption` (ranks are naturals with 0 among them, what a
structure contains is scalar and of no other structure), `WorkflowAssumption` (the
default and the demo binary are binaries, what stands for no breakpoint, for no popover
and for no location yet is none of them, `Reported` is defined on the locations, the
projects on disk are tables, bounds are naturals), `CompletionAssumption` (what
stands for no document is none, bounds are naturals), `TargetAssumption` (what
stands for no binary is none; each binary has a function with its entry; functions,
returns, jumps, lines and the fixture are of addresses, and the fixture is of no
binary), `QueriesAssumption` (the watches of a function are watches, what a cell
shows without a value is no value, bounds are naturals) and `GraphAssumption`
(listings are sequences of instructions in the order of their addresses, none empty
but a report; every rank has a place; the language shown first has a header). They
are stated in the modules and evaluated by the runs.

Six theorems have a hypothesis on constants besides. `StateFreshHolds` is about one
launch (`MaxLaunches = 1`), because a connect timer of an ended session reaches the
next (section 4) and the target may then be connected twice. `NoneMissingHolds` is
about a gdb that reports a line of which it is asked as no other line (`Faithful`),
because of `GdbRankCoordinator.cpp:363`, and `RanksAgreeHolds` is about one that reports
a location of which it is asked as no other location (`Faithful` again) for the same
reason. `BreakpointsSyncedHolds` is about a session
that is not queued (`MaxBanners = 0`), because what is toggled while it is queued is
never sent (`DapCoordinator.cpp:237`). `JobNeverForgottenHolds` is about one banner at
most (`MaxBanners \in {0, 1}`), because a second overwrites the job of the first
(`DapCoordinator.cpp:669`). `ExitedAtReturnHolds` is about binaries whose functions are
shorter than the bound of a walk and end in a return, and a fixture whose jumps back
lead to no other jump back (`RunsReturn`): a longer function is given up in the middle
and called exited (`MainWindowDebugger.cpp:549`), and one that ends in a call or a jump
goes round from its last line to its first (`DisassemblyView.cpp:893`). Each hypothesis
holds of the instance of the run that checks the property (`MCTargetWorkflow` has
`RunsReturn` as an ASSUME, which TLC evaluates), and the other constants and bounds are
not limited.

**DapSession_proofs.** `TypeCorrect` is by induction with one lemma per group of
actions. `AttributionSound` is not inductive: that the entry found for an answer
is the asker's depends on what numbers stand for. `Correlation` says it: every
number taken was taken once and lies below the next (`NumbersUnique`); what is
on its way was asked under that number and kind (`FlightGenuine`), is there once
and has not been told (`FlightOnce`); an entry under a number that was taken for
its kind carries the asker's subject (`EntriesRight`), although entries may also
stand for a number not taken yet, because requests are recorded before they may
be refused; and what was told was asked (`TellingsGenuine`). `SendKeeps` carries
it over every send, `MatchIsRight` finds the right entry for an answer,
`FlightShrinks` covers ends and crashes. `CorrelationHolds` is the invariant;
`NoDoubleAnswerHolds` and `AttributionHolds` follow; `LedgerKept` maps each step
to an `Issue`, an `Answer` or a stutter of `RequestLedger`.

`BreakpointsSynced` is about what the adapter has when nothing is on its way, so its
invariant `Synced` is about what the adapter will have: an adapter that is alive and
not about to end (`Alive`) either has not been flushed (`Unflushed`), or will hold the
view's breakpoints (`WillHold`), because the last `setBreakpoints` in its input is of
them, or none is and it holds them. The flush makes the second of the first
(`FlushKeeps`), each toggle of a session that runs is written (`ToggleKeeps`), and the
adapter reading its input changes nothing of what it will hold (`ReadFlush`). `Fresh`
carries it over restarts: an adapter that does not run holds nothing. `OneJob` says of
the job that there is one, and that a session terminating has cancelled the one it
knows.

**GdbSession_proofs.** `TypeCorrect` likewise. `TableSound` needs
`TableAgrees`: numbers gdb gave are below the next and unique (`IdsGenuine`), a
reply on its way names a breakpoint gdb has, that no deletion on its way removes
and that the table does not have (`RepliesFresh`). The agreement is of each rank
by itself (`RankByRank`), so the lemmas speak of one rank's breakpoints, table,
queues and next number and cover insertion, deletion, reply, edit and records
that are neither; a relaunch starts from nothing, which agrees.

`LifecycleShown` is the refinement of `RankLifecycle`. A coordinator shows a state
some records behind the target, so a step of the lifecycle is right because of what
the queue holds: the records on their way lead (`Leads`), phase by phase, from what
is shown to what the target is. `ShownRight` says it of every rank, a step of gdb or
of the target appends to the way, one of the coordinator takes its first record, and
what it shows then is what the lifecycle allows. `StateFresh` needs two invariants
more: `OneSession`, that of the timer, the connection, the refusal and the attached
target there is only one at a time, and `Heard`, that what the target became is told
by a record on its way, or a continue that will be told is. `NoneMissing` relates the
lines of the window to gdb's breakpoints through the queues in both directions:
`BpsRight` and `Held` say that a line switched on is held by gdb, on its way to it,
or waits for the flush of its rank. That the flush is complete when the last reply
is read (`FlushesAll`) rests on counting: as many replies as lines, each of another
line, leave none out.

**VariableTree_proofs.** That no row of another rank is shown does not follow
from the check of the rank in the answers alone: the rank named and the variable
carried by whatever is on its way must agree, on the pipe of each gdb and in the
adapter's requests and answers, and the objects to delete must be of the rank
shown, or the deletions would be about another one. `Attribution` says so. It is
proved together with `TypeOK` as `Shape`, which gives every pipe the set of the
messages about its rank (`ShapeMeaning` shows the two are the same), so that what
a step appends or takes is typed by `PipeStep`, `PipeAppend` and `SendKeeps`.

`RowsAlive` and `LocalsComplete` follow from `Backed`, about the objects of each gdb.
`Life` relates the two pipes of a rank, its objects and the generation counter: a
deletion on its way is of an object that exists and is the last said of it; what a
record says was created exists and is not to be deleted; what was asked for its
children has no record of its creation on its way. `Rooted` says that each row of the rank
shown is backed by such an object, once, and that a row not expanded was not asked for
its children (so the answers to `children` find no row to fill, section 4). Each command
and record has its lemma (`LifeCreate`, `LifeChildren`, `LifeDelete`, `LifeCreates`,
`LifeDeletes`, `LifeAsks`, `RootedCreate`). For completeness, `Noted` says that the records on
their way lead from the state the dock noted for a rank to the one its target is in, so
that a stop not handled yet will be a change; and `Filled` that for a stopped rank
selected a stop, a list or a continue is on its way, or there is one generation of which
each local has its row, its record, or a creation to come that gdb will not refuse.

**BreakpointWorkflow_proofs.** `ViewsAgree` is inductive together with `TypeOK`: a
handler that changes one copy changes the others, or clears the flag under which
they are compared (`windowFresh`). `OneMark`, `ToggledViews` and `PopoverCases` say what
a toggle and the ends of the popover do to the gutter and the list, `ViewsStep` carries
the agreement over each action. `RanksAgree` is not inductive: what a click deletes
depends on the replies handled. `HeldRight` says that gdb reports of each breakpoint what
`Reported` has for its location, that there is one at most where gdb names the location
as asked and it is not `crossed`, and that before the connection there is none. Then, under `Faithful`, what is found under a
location was asked for there (`DeletedHere`), so a click disturbs no other location; where
gdb names the location as asked and the reply was handled it finds what there is
(`BroadcastAt`), and a location with a reply outstanding becomes `crossed`.
`FlushRanks` starts the agreement, with every location that had a breakpoint before the
flush crossed, `AnsweredRanks` carries it over the replies, `RanksStep` over all steps.
`CancelRestores` and `SavesOneLine` are properties of steps, proved from the same cases
as `ViewsAgree`.

**TargetWorkflow_proofs.** The three invariants of the views are `Good`: the cursor
is at the address if the listing has it, the entry the history stands at is the
address, and the history moves with each step. Every operation of the view keeps it
(`ShowKeeps`, `MovedKeeps`, `RememberedGood`, `SeekGood`, `ShowRankGood`), and so do
the compositions in the window's handlers. `CursorIsPcHolds` needs that what a rank
is moved to is an address: `WalkType` proves that the walk, a recursive function, is
one, by `WalkKeeps`: what holds of the first instruction of a walk and is kept by each
that follows holds of the last, because there is no least number of instructions after
which it would not. `ExitedAtReturnHolds` needs that the listing belongs to the binary
loaded (`Listed`) and that a rank said to have exited did so in the session and at a
return, in the present binary (`Ended`). In a function every instruction but a return
leads further down (`Onward`), so after n instructions at most |f| + 1 - n of it are
ahead (`Nearer`; the one more because the user may have sought a jump back of the
fixture, from which the first instruction leads out of the listing), none is at the
bound, and the instruction with none ahead is the return (`WalkEnds`). A rank that does
not move at all is at a return, or the fixture is shown (`RestAtReturn`, `WalkInFixture`).

**StopQueries_proofs.** The coordinator knows an earlier state of gdb, and the
records printed lead from it to the present one: `Way` has a sequence of states, one
before and after each record, of status, stop, value of the variables and next
object number. The status the coordinator has heard of is not the state it shows: it
sets a rank running when it writes a continue at the first stop, in unmapped code or
at the end of the flush, and `Released` has that continue, or the record gdb prints
for it, on its way. A record handled moves the coordinator along it, a record printed
extends it (`WayHandled`, `WayGdb`, `WayTarget`). With the way given, `AlertKept` says
that the alert of a stopped rank is what the last stack was about, or another is asked
for; `Known`
that an object whose answer was handled has a name or is about to be deleted, and the
others' answers are on their way; `ToldKept` that the value an object was told last is
shown or on its way; `ChainKept` that as long as an object of a stopped rank is not told
the last value, a disassembly or the update it chains is asked for. `Kept` is all of it
and inductive. When nothing is on its way it says what is promised: `AlertSettled`,
`ObjectsKnown` and `WatchesFresh`; and that a rank shown running has heard so, which
cleared its alert.

**DisassemblyGraph_proofs.** `BlocksFaithful` is a theorem about the two passes of the
parser for every listing: a block is the interval from one leader to the next
(`ExtentsAre`, `BlockBounds`), a transfer ends its block (`TransferEnds`), so control
enters a block only at its first and leaves it only at its last instruction, and
each step of `Follows` is within a block or an edge (`FollowsCovered`). `LinesRight` is
about the decompiled text: its lines are numbered without a gap in the order they
are emitted (`PlacesExact`), so each address leads to a line and that line to the block
of the address. `Consistent` (blocks of the listing, text of the listing, line of the
cursor, scene as it would be drawn when it is seen) is kept by each operation of the
view and hence by each handler.

**CompletionClient_proofs.** That an answer was made from the text asked about
needs what is on its way in both directions. `Exchange` has four parts. `Process`:
who is alive, and that a dead clangd has nothing to read. `Queue`: each message
written may follow the one before it (`Follows`), the first is one clangd may read
now (`Ready`), and the last leads to the document the client believes open. `Numbers`:
they grow along the queue and lie above those of all answers. `Waiting`: what bears
the number of the call under way is about its text. `Written` extends the queue,
`ReadQueue` and `ReadKeeps` shorten it, and each message has its lemma; a death of
clangd empties it (`Emptied`), an answer taken or lost only makes less be on its way
(`LessOnTheWay`). `AnswersMatch` is inductive with `Exchange`, `ProtocolKept` and
`DocumentsAgree` follow from `Queue`.

Only model-checked: the liveness properties (proofs under fairness and ENABLED
are out of the prover's reach). Every safety invariant and action property that a
passing run checks is a theorem; `BreakpointsSynced`, `JobNeverForgotten`, `StateFresh`,
`NoneMissing`, `RanksAgree` and `ExitedAtReturn` are proved under the hypotheses above. No module has
a RECURSIVE operator. Two recursive functions, the walk of `TargetWorkflow` and the
creations of `StopQueries`, are reasoned about by a least counterexample, which the
library's theorem on the order of the naturals gives (`WFMin`): that they are functions,
the range of their values, and for the walk where it ends. What any other recursive
function computes for every input is not proved.

## 7. Not modelled

- `DapCoordinator`: the byte framing of its input (a message is an element of
  the pool), its local fallback for reading memory, the contents of answers.
- `GdbRankCoordinator`: the slots of hover and expression queries
  (`lastHoverVarName` is shared by both, so that of two questions the first is
  answered under the name of the second: nothing of it depends on more than those two
  handlers), memory queries, a gdb that fails to start,
  `insertBreakpoint` (its signal is never emitted), `initializeMockSession`
  (test data). In `GdbSession` breakpoints are saved for the executable launched;
  `BreakpointWorkflow` has the tables of several.
- `VariablesDockWidget`, `VariableTreeModel`: values, types and their
  highlighting, the address queried for an aggregate, a relaunch, structures
  within structures.
- `LspCoordinator`: `start` sends `initialize` right after `QProcess::start`, where
  `sendPayload` (`LspCoordinator.cpp:99`) drops it because the process does not run
  yet, and nothing sends it again. No state of the protocol is ever reached, and
  `requestHover` has no caller.
- Disassembly view: cross references and their dialog, comments of the user (only
  tests set one), highlighted words, the minimap, `revertAllPatches` (no caller), the
  stack variables the decompiled text declares.
- Breakpoint workflow: hover previews, the text of conditions, hit counts, and the
  rank scope of a breakpoint, which is shown and never sent.
- Main window: docks and layout, search, cross references, exports, the display
  of what coordinators report, and the part of `advanceRankProgramCounter`
  for the preview fixture's branches (246-275), which only tests reach.
- `ClangdLspClient`: the completion it computes itself from the structure of the
  source, and the `Content-Length` framing.
- MiSanitizer, MemoryDiffer, MemoryBoundsValidator, MemoryExporter: functions of
  their arguments that unit tests reach. NativeMemoryReader and the ELF, TOML and
  JSON code: file and system input.
- TelemetryObfuscator: each of its methods is one critical section.
- HpcConsoleWidget, DocsetManager, SpackManager, the memory view,
  dialogs, themes and icons: presentation and forms. Their searches run in child
  processes whose late results only replace what a list shows: an
  empty query returns before the search under way is stopped, so its result
  replaces the newer list, and Clear stops neither timer nor search.
- MockHpcBackend, GridLockAutomationRunner, TestGenerator: made-up data, a script
  over GdbRankCoordinator, and a writer of test files.
