----------------------------- MODULE GdbSession -----------------------------
(***************************************************************************)
(* GdbRankCoordinator: one `gdb --interpreter=mi3` per MPI rank, attached  *)
(* over TCP to the gdbserver that mpiexec started for the rank.            *)
(*                                                                         *)
(* The GUI thread runs every method, every timer and processGdbOutput, one *)
(* at a time.  The pipes to and from each gdb are FIFO.  gdb and gdbserver *)
(* are external.                                                           *)
(*                                                                         *)
(* Abstracted: payloads, the queries sent on every stop (disassembly,      *)
(* registers, thread, watch variables) and their replies, which change     *)
(* only what is displayed, and the file of a breakpoint (one file).        *)
(***************************************************************************)
EXTENDS Integers, Sequences, FiniteSets

CONSTANTS
  Ranks,
  Lines,       \* lines of the source file breakpoints can be set on
  Pending,     \* what gdb reports for a breakpoint it could not resolve yet
  Reported,    \* line |-> the `file:line` of gdb's reply: the line itself when
               \* it is the location that was asked for, or Pending
  MaxLaunches, \* bound on sessions
  MaxEdits,    \* bound on breakpoint edits in the source view
  MaxCommands, \* bound on commands of the user
  MaxStops     \* bound on stops of the targets

ASSUME GdbAssumption ==
  /\ Pending \notin Lines
  /\ IsFiniteSet(Lines)
  /\ DOMAIN Reported = Lines
  /\ {MaxLaunches, MaxEdits, MaxCommands, MaxStops} \subseteq Nat

VARIABLES
  persisted,          \* breakpoints in .gridlock/workspace.toml
  launched,           \* m_processes holds a slot per rank
  currentState,       \* RankState, per rank; "none" without a slot
  synced,             \* lastFiredTimestamp is not empty
  located,            \* currentFile is not empty
  pendingBreakpoints,
  breakpoints,        \* RankState::breakpoints: entries [id, at]
  timers,             \* rank |-> session |-> single-shot timers armed to connect
  toGdb,              \* rank |-> commands written, not yet read by gdb
  fromGdb,            \* rank |-> records printed by gdb, not yet handled
  server,             \* rank |-> gdbserver
  target,             \* rank |-> the target as its gdb knows it
  gdbBps,             \* rank |-> breakpoints of gdb: [id, line, at]
  nextId,             \* rank |-> the number of the next breakpoint
  sessions,           \* number of sessions launched
  spent

stateVars == <<launched, currentState, synced, located, pendingBreakpoints,
               breakpoints>>
gdbVars   == <<server, target, gdbBps, nextId>>
vars == <<persisted, stateVars, timers, toGdb, fromGdb, gdbVars, sessions, spent>>

States    == {"none", "launching", "sync_flushing", "running", "stopped", "exited"}
Locations == Lines \cup {Reported[l] : l \in Lines} \cup {Pending}
Bounds    == [edits |-> MaxEdits, commands |-> MaxCommands, stops |-> MaxStops]

Spend(what) ==
  /\ spent[what] < Bounds[what]
  /\ spent' = [spent EXCEPT ![what] = @ + 1]

(* Commands.  `-break-insert -f` is "flush"; a line or id a command does   *)
(* not carry is 0.                                                         *)
Connect(s) == [name |-> "connect", line |-> 0, n |-> s]
Insert(l)  == [name |-> "insert", line |-> l, n |-> 0]
FlushOf(l) == [name |-> "flush", line |-> l, n |-> 0]
Delete(id) == [name |-> "delete", line |-> 0, n |-> id]
Exec(name) == [name |-> name, line |-> 0, n |-> 0]

(* Records: an answer to an insertion carries the breakpoint; a stop,      *)
(* whether its frame has a fullname.                                       *)
NoBreakpoint == [id |-> 0, line |-> 0, at |-> Pending]
Bkpt(b)     == [kind |-> "bkpt", bp |-> b, mapped |-> FALSE]
Stopped(mp) == [kind |-> "stopped", bp |-> NoBreakpoint, mapped |-> mp]
Plain(kind) == [kind |-> kind, bp |-> NoBreakpoint, mapped |-> FALSE]

(* writeCmd. *)
Write(r, cmds) ==
  toGdb' = [toGdb EXCEPT ![r] = IF launched THEN @ \o cmds ELSE @]

-----------------------------------------------------------------------------
Init ==
  /\ persisted \in SUBSET Lines
  /\ launched = FALSE
  /\ currentState = [r \in Ranks |-> "none"]
  /\ synced = [r \in Ranks |-> FALSE]
  /\ located = [r \in Ranks |-> FALSE]
  /\ pendingBreakpoints = [r \in Ranks |-> 0]
  /\ breakpoints = [r \in Ranks |-> {}]
  /\ timers = [r \in Ranks |-> [s \in 1..MaxLaunches |-> 0]]
  /\ toGdb = [r \in Ranks |-> <<>>]
  /\ fromGdb = [r \in Ranks |-> <<>>]
  /\ server = [r \in Ranks |-> "none"]
  /\ target = [r \in Ranks |-> "unattached"]
  /\ gdbBps = [r \in Ranks |-> {}]
  /\ nextId = [r \in Ranks |-> 1]
  /\ sessions = 0
  /\ spent = [what \in DOMAIN Bounds |-> 0]

(* Slots and gdb processes are destroyed, or fresh. *)
FreshSlots(state, up) ==
  /\ currentState' = [r \in Ranks |-> state]
  /\ synced' = [r \in Ranks |-> FALSE]
  /\ located' = [r \in Ranks |-> FALSE]
  /\ pendingBreakpoints' = [r \in Ranks |-> 0]
  /\ breakpoints' = [r \in Ranks |-> {}]
  /\ toGdb' = [r \in Ranks |-> <<>>]
  /\ fromGdb' = [r \in Ranks |-> <<>>]
  /\ server' = [r \in Ranks |-> up]
  /\ target' = [r \in Ranks |-> "unattached"]
  /\ gdbBps' = [r \in Ranks |-> {}]
  /\ nextId' = [r \in Ranks |-> 1]

-----------------------------------------------------------------------------
(* The views.                                                              *)

(* launchParallelSession: terminateAllSessions, mpiexec, a gdb per rank    *)
(* and, per rank, a 500 ms timer to connect it.                            *)
LaunchParallelSession ==
  /\ sessions < MaxLaunches
  /\ sessions' = sessions + 1
  /\ launched' = TRUE
  /\ FreshSlots("launching", "starting")
  /\ timers' = [r \in Ranks |-> [timers[r] EXCEPT ![sessions + 1] = @ + 1]]
  /\ UNCHANGED <<persisted, spent>>

(* The timers already armed stay armed. *)
TerminateAllSessions ==
  /\ launched
  /\ launched' = FALSE
  /\ FreshSlots("none", "none")
  /\ UNCHANGED <<persisted, timers, sessions, spent>>

(* Mutant: a breakpoint already in the table is taken for set. *)
EditCommandsOnce(line, isSet, id) ==
  (IF id # 0 THEN <<Delete(id)>> ELSE <<>>)
    \o (IF isSet /\ id = 0 THEN <<Insert(line)>> ELSE <<>>)

EditCommands(line, isSet, id) ==
  (IF id # 0 THEN <<Delete(id)>> ELSE <<>>)
    \o (IF isSet THEN <<Insert(line)>> ELSE <<>>)

(* Mutant: the deleted breakpoint stays in the table. *)
TableKept(r, id) == breakpoints[r]

TableWithout(r, id) == {e \in breakpoints[r] : e.id # id}

(* The ids of the table's entries for the location, 0 when it has none.    *)
(* The hash is searched in no particular order.                            *)
Victims(r, line) ==
  LET ids == {e.id : e \in {b \in breakpoints[r] : b.at = line}}
  IN  IF ids = {} THEN {0} ELSE ids

(* The breakpointToggled handler of MainWindow, then broadcastBreakpoint.  *)
(* A breakpoint whose condition is edited is set again.                    *)
EditBreakpoint(line, isSet) ==
  /\ Spend("edits")
  /\ isSet \/ line \in persisted
  /\ persisted' = IF isSet THEN persisted \cup {line} ELSE persisted \ {line}
  /\ IF launched
     THEN \E id \in [Ranks -> UNION {Victims(r, line) : r \in Ranks}] :
            /\ \A r \in Ranks : id[r] \in Victims(r, line)
            /\ breakpoints' = [r \in Ranks |-> TableWithout(r, id[r])]
            /\ toGdb' = [r \in Ranks |->
                           toGdb[r] \o EditCommands(line, isSet, id[r])]
     ELSE UNCHANGED <<breakpoints, toGdb>>
  /\ UNCHANGED <<launched, currentState, synced, located, pendingBreakpoints,
                 timers, fromGdb, gdbVars, sessions>>

(* continueAll, stepAll, haltAll, pauseFocusedRank, and the same commands  *)
(* typed in the console (sendCommand, broadcastCommand).                   *)
Command(name, to) ==
  /\ launched
  /\ Spend("commands")
  /\ toGdb' = [r \in Ranks |->
                 IF r \in to THEN Append(toGdb[r], Exec(name)) ELSE toGdb[r]]
  /\ UNCHANGED <<persisted, stateVars, timers, fromGdb, gdbVars, sessions>>

-----------------------------------------------------------------------------
(* Timers and processGdbOutput.                                            *)

(* A timer is bound to the rank and not to the session that armed it.      *)
TimerFires(r, s) ==
  /\ timers[r][s] > 0
  /\ timers' = [timers EXCEPT ![r][s] = @ - 1]
  /\ Write(r, <<Connect(s)>>)
  /\ UNCHANGED <<persisted, stateVars, fromGdb, gdbVars, sessions, spent>>

Take(r, kind) ==
  /\ fromGdb[r] # <<>>
  /\ Head(fromGdb[r]).kind = kind
  /\ fromGdb' = [fromGdb EXCEPT ![r] = Tail(@)]

(* What flushCachedBreakpoints sends: the sets of lines are iterated in no *)
(* particular order.                                                       *)
FlushCommands ==
  {[i \in 1..Cardinality(persisted) |-> FlushOf(order[i])] :
     order \in {f \in [1..Cardinality(persisted) -> persisted] :
                  \A i, j \in DOMAIN f : f[i] = f[j] => i = j}}

(* Mutant: the stop at which gdb attached is shown. *)
ShowAttach(r) ==
  /\ Write(r, <<Exec("continue")>>)
  /\ currentState' = [currentState EXCEPT ![r] = "stopped"]
  /\ UNCHANGED pendingBreakpoints

(* flushCachedBreakpoints with nothing to flush, or the barrier's end. *)
Release(r) ==
  /\ Write(r, <<Exec("continue")>>)
  /\ currentState' = [currentState EXCEPT ![r] = "running"]
  /\ UNCHANGED pendingBreakpoints

(* *stopped for the first time: flushCachedBreakpoints. *)
HandleFirstStop(r) ==
  /\ Take(r, "stopped")
  /\ ~synced[r]
  /\ synced' = [synced EXCEPT ![r] = TRUE]
  /\ located' = [located EXCEPT ![r] = @ \/ Head(fromGdb[r]).mapped]
  /\ \E cmds \in FlushCommands :
       IF cmds = <<>> THEN Release(r)
       ELSE /\ Write(r, cmds)
            /\ currentState' = [currentState EXCEPT ![r] = "sync_flushing"]
            /\ pendingBreakpoints' = [pendingBreakpoints EXCEPT ![r] = Len(cmds)]
  /\ UNCHANGED <<persisted, launched, breakpoints, timers, gdbVars, sessions, spent>>

(* Any other stop: code without a source file is continued; the file of an *)
(* earlier stop stands in for one that is missing.                         *)
HandleStopped(r) ==
  /\ Take(r, "stopped")
  /\ synced[r]
  /\ located' = [located EXCEPT ![r] = @ \/ Head(fromGdb[r]).mapped]
  /\ IF located'[r]
     THEN /\ currentState' = [currentState EXCEPT ![r] = "stopped"]
          /\ UNCHANGED toGdb
     ELSE /\ currentState' = [currentState EXCEPT ![r] = "running"]
          /\ Write(r, <<Exec("continue")>>)
  /\ UNCHANGED <<persisted, launched, synced, pendingBreakpoints, breakpoints,
                 timers, gdbVars, sessions, spent>>

(* Mutant: the exit of the target is not a state of its own. *)
ShownAtExit == "stopped"

ShownExited == "exited"

(* *running, and *stopped with reason "exited". *)
HandleExecution(r) ==
  /\ \/ /\ Take(r, "running")
        /\ currentState' = [currentState EXCEPT ![r] = "running"]
     \/ /\ Take(r, "exited")
        /\ currentState' = [currentState EXCEPT ![r] = ShownExited]
  /\ UNCHANGED <<persisted, launched, synced, located, pendingBreakpoints,
                 breakpoints, timers, toGdb, gdbVars, sessions, spent>>

(* Mutant: the barrier waits for one reply more than was asked for. *)
BarrierPassed(left) == left < 0

BarrierOver(left) == left <= 0

(* Mutant: every reply enters the table. *)
TableWithAny(r, b) == breakpoints[r] \cup {[id |-> b.id, at |-> b.at]}

(* The table after a reply: a pending breakpoint has no file to match.     *)
TableWith(r, b) ==
  IF b.at = Pending THEN breakpoints[r]
  ELSE {e \in breakpoints[r] : e.id # b.id} \cup {[id |-> b.id, at |-> b.at]}

(* A reply to -break-insert. *)
HandleBkpt(r) ==
  LET m      == Head(fromGdb[r])
      counts == m.bp.at # Pending /\ currentState[r] = "sync_flushing"
  IN  /\ Take(r, "bkpt")
      /\ breakpoints' = [breakpoints EXCEPT ![r] = TableWith(r, m.bp)]
      /\ pendingBreakpoints' = [pendingBreakpoints EXCEPT ![r] =
                                  IF counts THEN @ - 1 ELSE @]
      /\ IF counts /\ BarrierOver(pendingBreakpoints'[r])
         THEN /\ Write(r, <<Exec("continue")>>)
              /\ currentState' = [currentState EXCEPT ![r] = "running"]
         ELSE UNCHANGED <<toGdb, currentState>>
      /\ UNCHANGED <<persisted, launched, synced, located, timers, gdbVars, sessions, spent>>

(* The connection was refused: another timer. *)
HandleRefused(r) ==
  /\ Take(r, "refused")
  /\ timers' = [timers EXCEPT ![r][sessions] = @ + 1]
  /\ UNCHANGED <<persisted, stateVars, toGdb, gdbVars, sessions, spent>>

-----------------------------------------------------------------------------
(* gdb, gdbserver and the target (external).                               *)

Emit(r, records) == fromGdb' = [fromGdb EXCEPT ![r] = @ \o records]

Reads(r, names) ==
  /\ toGdb[r] # <<>>
  /\ Head(toGdb[r]).name \in names
  /\ toGdb' = [toGdb EXCEPT ![r] = Tail(@)]

ServerListens(r) ==
  /\ server[r] = "starting"
  /\ server' = [server EXCEPT ![r] = "listening"]
  /\ UNCHANGED <<persisted, stateVars, timers, toGdb, fromGdb, target, gdbBps,
                 nextId, sessions, spent>>

(* A connection stops the target at its entry, before any source line.     *)
(* gdb drops the connection it has, and with it the target and its         *)
(* gdbserver, before it makes another.                                     *)
GdbConnects(r) ==
  /\ Reads(r, {"connect"})
  /\ IF target[r] = "unattached" /\ server[r] = "listening"
     THEN /\ server' = [server EXCEPT ![r] = "attached"]
          /\ target' = [target EXCEPT ![r] = "stopped"]
          /\ Emit(r, <<Stopped(FALSE)>>)
     ELSE /\ server' = [server EXCEPT ![r] = IF @ = "starting" THEN @ ELSE "gone"]
          /\ target' = [target EXCEPT ![r] = IF @ = "unattached" THEN @ ELSE "over"]
          /\ Emit(r, <<Plain("refused")>>)
  /\ UNCHANGED <<persisted, stateVars, timers, gdbBps, nextId, sessions, spent>>

(* Without -f a location that cannot be resolved is an error, and there    *)
(* are no symbols before the first connection.                             *)
GdbInserts(r) ==
  LET c  == Head(toGdb[r])
      at == IF target[r] = "unattached" THEN Pending ELSE Reported[c.line]
      b  == [id |-> nextId[r], line |-> c.line, at |-> at]
  IN  /\ Reads(r, {"insert", "flush"})
      /\ IF c.name = "flush" \/ at # Pending
         THEN /\ gdbBps' = [gdbBps EXCEPT ![r] = @ \cup {b}]
              /\ nextId' = [nextId EXCEPT ![r] = @ + 1]
              /\ Emit(r, <<Bkpt(b)>>)
         ELSE UNCHANGED <<gdbBps, nextId, fromGdb>>
      /\ UNCHANGED <<persisted, stateVars, timers, server, target, sessions,
                     spent>>

GdbDeletes(r) ==
  /\ Reads(r, {"delete"})
  /\ gdbBps' = [gdbBps EXCEPT ![r] = {b \in @ : b.id # Head(toGdb[r]).n}]
  /\ UNCHANGED <<persisted, stateVars, timers, fromGdb, server, target, nextId,
                 sessions, spent>>

(* What cannot be done in the target's state is an error, only displayed.  *)
GdbExecutes(r) ==
  LET name == Head(toGdb[r]).name
  IN  /\ Reads(r, {"continue", "interrupt"})
      /\ CASE name = "continue" /\ target[r] = "stopped" ->
                /\ target' = [target EXCEPT ![r] = "running"]
                /\ Emit(r, <<Plain("running")>>)
           [] name = "interrupt" /\ target[r] = "running" ->
                /\ target' = [target EXCEPT ![r] = "stopped"]
                /\ \E mp \in BOOLEAN : Emit(r, <<Stopped(mp)>>)
           [] OTHER -> UNCHANGED <<target, fromGdb>>
      /\ UNCHANGED <<persisted, stateVars, timers, server, gdbBps, nextId, sessions, spent>>

TargetStops(r, mp) ==
  /\ target[r] = "running"
  /\ Spend("stops")
  /\ target' = [target EXCEPT ![r] = "stopped"]
  /\ Emit(r, <<Stopped(mp)>>)
  /\ UNCHANGED <<persisted, stateVars, timers, toGdb, server, gdbBps, nextId,
                 sessions>>

TargetExits(r) ==
  /\ target[r] = "running"
  /\ target' = [target EXCEPT ![r] = "over"]
  /\ server' = [server EXCEPT ![r] = "gone"]
  /\ Emit(r, <<Plain("exited")>>)
  /\ UNCHANGED <<persisted, stateVars, timers, toGdb, gdbBps, nextId, sessions, spent>>

-----------------------------------------------------------------------------
Views ==
  \/ LaunchParallelSession
  \/ TerminateAllSessions
  \/ \E line \in Lines, isSet \in BOOLEAN : EditBreakpoint(line, isSet)
  \/ \E name \in {"continue", "interrupt"}, to \in {Ranks} \cup {{r} : r \in Ranks} :
       Command(name, to)

Handle(r) ==
  \/ HandleFirstStop(r)
  \/ HandleStopped(r)
  \/ HandleExecution(r)
  \/ HandleBkpt(r)
  \/ HandleRefused(r)

Gdb(r) ==
  \/ GdbConnects(r)
  \/ GdbInserts(r)
  \/ GdbDeletes(r)
  \/ GdbExecutes(r)

Next ==
  \/ Views
  \/ \E r \in Ranks : \E s \in 1..MaxLaunches : TimerFires(r, s)
  \/ \E r \in Ranks : Handle(r)
  \/ \E r \in Ranks : ServerListens(r)
  \/ \E r \in Ranks : Gdb(r)
  \/ \E r \in Ranks : \E mp \in BOOLEAN : TargetStops(r, mp)
  \/ \E r \in Ranks : TargetExits(r)

Spec == Init /\ [][Next]_vars

(* The event loop fires timers and handles records, gdb reads commands,    *)
(* and a gdbserver that was started listens in the end.                    *)
Fairness ==
  \A r \in Ranks :
    /\ \A s \in 1..MaxLaunches : WF_vars(TimerFires(r, s))
    /\ WF_vars(Handle(r))
    /\ WF_vars(ServerListens(r))
    /\ WF_vars(Gdb(r))

FairSpec == Spec /\ Fairness

-----------------------------------------------------------------------------
(* Properties.                                                             *)

Commands ==
  [name : {"connect"}, line : {0}, n : 1..MaxLaunches]
  \cup [name : {"insert", "flush"}, line : Lines, n : {0}]
  \cup [name : {"delete"}, line : {0}, n : Nat \ {0}]
  \cup [name : {"continue", "interrupt"}, line : {0}, n : {0}]

Breakpoint == [id : Nat \ {0}, line : Lines, at : Locations]

Records ==
  [kind : {"bkpt"}, bp : Breakpoint, mapped : {FALSE}]
  \cup [kind : {"stopped"}, bp : {NoBreakpoint}, mapped : BOOLEAN]
  \cup [kind : {"running", "exited", "refused"}, bp : {NoBreakpoint},
        mapped : {FALSE}]

(* The values the coordinator's fields can hold. *)
TypeOK ==
  /\ persisted \subseteq Lines
  /\ launched \in BOOLEAN
  /\ currentState \in [Ranks -> States]
  /\ synced \in [Ranks -> BOOLEAN]
  /\ located \in [Ranks -> BOOLEAN]
  /\ pendingBreakpoints \in [Ranks -> Int]
  /\ breakpoints \in [Ranks -> SUBSET [id : Nat \ {0}, at : Locations \ {Pending}]]
  /\ timers \in [Ranks -> [1..MaxLaunches -> Nat]]
  /\ toGdb \in [Ranks -> Seq(Commands)]
  /\ fromGdb \in [Ranks -> Seq(Records)]
  /\ server \in [Ranks -> {"none", "starting", "listening", "attached", "gone"}]
  /\ target \in [Ranks -> {"unattached", "stopped", "running", "over"}]
  /\ gdbBps \in [Ranks -> SUBSET Breakpoint]
  /\ nextId \in [Ranks -> Nat \ {0}]
  /\ sessions \in 0..MaxLaunches
  /\ spent \in [DOMAIN Bounds -> Nat]

(* Ids of breakpoints whose deletion is on its way to gdb. *)
DeletedIn(cmds) == {cmds[i].n : i \in {k \in 1..Len(cmds) : cmds[k].name = "delete"}}
Leaving(r) == DeletedIn(toGdb[r])

(* Every number the table holds is a breakpoint gdb still has, at the same *)
(* place and with no deletion on its way: replies, edits and restarts      *)
(* never leave an entry that would delete some other breakpoint.           *)
TableSound ==
  \A r \in Ranks : \A e \in breakpoints[r] :
    /\ \E b \in gdbBps[r] : b.id = e.id /\ b.at = e.at
    /\ e.id \notin Leaving(r)

(* Why: a number is given once, and every reply on its way carries a       *)
(* breakpoint that gdb still has and that is not in the table yet.         *)
IdsGenuine ==
  \A r \in Ranks :
    /\ \A b \in gdbBps[r] : b.id < nextId[r]
    /\ \A b, c \in gdbBps[r] : b.id = c.id => b = c
    /\ \A id \in Leaving(r) : id < nextId[r]

RepliesFresh ==
  \A r \in Ranks :
    LET reply == {i \in 1..Len(fromGdb[r]) : fromGdb[r][i].kind = "bkpt"}
    IN  /\ \A i \in reply : /\ fromGdb[r][i].bp \in gdbBps[r]
                            /\ fromGdb[r][i].bp.id \notin Leaving(r)
                            /\ \A e \in breakpoints[r] : e.id # fromGdb[r][i].bp.id
        /\ \A i, j \in reply : fromGdb[r][i].bp.id = fromGdb[r][j].bp.id => i = j

TableAgrees == TableSound /\ IdsGenuine /\ RepliesFresh

(* Everything written was read and handled. *)
Quiet(r) == launched /\ toGdb[r] = <<>> /\ fromGdb[r] = <<>>

(* Edits race the launch, the connection and the flush, and an edit before *)
(* the connection is an error; still, when all is handled, a synced rank   *)
(* has every breakpoint of the workspace that it can resolve.              *)
NoneMissing ==
  \A r \in Ranks : Quiet(r) /\ synced[r] =>
    \A l \in persisted : Reported[l] # Pending => \E b \in gdbBps[r] : b.line = l

(* The coordinator sets the state before gdb acts and again when it hears  *)
(* of it; when all is handled, the state shown is the target's.            *)
StateFresh ==
  \A r \in Ranks : Quiet(r) =>
    CASE target[r] = "unattached" -> currentState[r] = "launching"
      [] target[r] = "stopped"    -> currentState[r] \in {"stopped", "sync_flushing"}
      [] target[r] = "running"    -> currentState[r] = "running"
      [] target[r] = "over"       -> currentState[r] = "exited"

(* The states shown follow RankLifecycle. *)
Lifecycle == INSTANCE RankLifecycle WITH shown <- currentState

ShowsLifecycle == Lifecycle!Spec

(* A rank that was launched is flushed and released, whatever is edited    *)
(* and ordered meanwhile: the barrier never waits for a reply that does    *)
(* not come.                                                               *)
RanksReleased ==
  \A r \in Ranks :
    currentState[r] = "launching" ~>
      (currentState[r] \in {"none", "running", "exited"})

=============================================================================
