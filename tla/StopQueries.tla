----------------------------- MODULE StopQueries -----------------------------
(***************************************************************************)
(* What GdbRankCoordinator and DeadlockAnalyzer ask of a rank's gdb when   *)
(* the rank stops, and what becomes of the answers: the watch variables of *)
(* the differential grid and the alert of a rank blocked in MPI.  Every    *)
(* answer that changes a RankState is announced, and every announcement of *)
(* a stopped rank makes the analyzer ask for the stack again.              *)
(*                                                                         *)
(* One rank: the handlers of two ranks share only the list of watched      *)
(* names.  Of GdbSession's connection and flush there is what changes the  *)
(* state without announcing it: the first stop of a session, the barrier   *)
(* of the breakpoints flushed then, and stops in code without a file.      *)
(*                                                                         *)
(* Abstracted: the texts of disassembly, registers and memory; hover and   *)
(* expression queries, which announce nothing; connections refused and     *)
(* breakpoints left pending (GdbSession).  A value is the number of the    *)
(* last stop at which the variables changed.                               *)
(***************************************************************************)
EXTENDS Naturals, Sequences

CONSTANTS
  Watches,     \* names the user may watch
  Local,       \* those visible in a called function only; others, only outside
  NoWatch,
  Unknown, Gone, \* what a cell shows that has no value
  MaxBreakpoints, \* bound on breakpoints saved for the program
  MaxSessions, \* bound on launches
  MaxStops,    \* bound on stops
  MaxWatches,  \* bound on additions of a watch
  MaxCommands  \* bound on commands of the user

ASSUME QueriesAssumption ==
  /\ Local \subseteq Watches
  /\ NoWatch \notin Watches /\ {Unknown, Gone} \cap Nat = {} /\ Unknown # Gone
  /\ {MaxBreakpoints, MaxSessions, MaxStops, MaxWatches, MaxCommands} \subseteq Nat

VARIABLES
  state,     \* RankState::currentState, "none" without a slot
  synced,    \* lastFiredTimestamp is not empty
  located,   \* currentFile is not empty
  pending,   \* pendingBreakpoints
  watched,   \* m_watchVariables
  objectOf,  \* m_varNameMap of the rank: name |-> number of the object, or 0
  watchOf,   \* m_varNameRevMap: number |-> name, or NoWatch
  cells,     \* the rank's row of the grid: name |-> value, Unknown or Gone
  asked,     \* m_pendingStackRequest
  alert,     \* the rank's entry of the alert list: the stop it is about, or 0
  toGdb,     \* commands written, not read yet
  fromGdb,   \* records printed, not handled yet
  target,    \* the target: its status, the frame it is in, and whether it is
             \* blocked in MPI
  stops,     \* number of the last stop
  changed,   \* stop at which the variables changed last
  objects,   \* gdb's variable objects: number, name, frame, value last told
  nextObject,
  at,        \* history: the stop handled last
  spent

slot        == <<state, synced, located, pending>>
coordinator == <<watched, objectOf, watchOf, cells>>
analyzer    == <<asked, alert>>
gdb         == <<target, stops, changed, objects, nextObject>>
vars == <<slot, coordinator, analyzer, toGdb, fromGdb, gdb, at, spent>>

Bounds == [sessions |-> MaxSessions, watches |-> MaxWatches,
           commands |-> MaxCommands]

Spend(what) ==
  /\ spent[what] < Bounds[what]
  /\ spent' = [spent EXCEPT ![what] = @ + 1]

(* Commands and records.  The -var-delete commands of one answer are one;  *)
(* a stop says whether its frame has a file.                               *)
Command(name, w, ns) == [name |-> name, watch |-> w, numbers |-> ns]
Ask(name)            == Command(name, NoWatch, {})
Create(w)            == Command("create", w, {})
Delete(ns)           == Command("delete", NoWatch, ns)

Record(kind, w, n, value) ==
  [kind |-> kind, watch |-> w, number |-> n, value |-> value, list |-> {},
   mapped |-> FALSE]
Plain(kind)   == Record(kind, NoWatch, 0, 0)
Stopped(n, m) == [Record("stopped", NoWatch, n, 0) EXCEPT !.mapped = m]
Stack(n)      == Record("stack", NoWatch, n, 0)
Changes(list) == [Plain("changes") EXCEPT !.list = list]

-----------------------------------------------------------------------------
Init ==
  /\ state = "none"
  /\ synced = FALSE
  /\ located = FALSE
  /\ pending = 0
  /\ watched = <<>>
  /\ objectOf = [w \in Watches |-> 0]
  /\ watchOf = <<>>
  /\ cells = [w \in Watches |-> Unknown]
  /\ asked = FALSE
  /\ alert = 0
  /\ toGdb = <<>>
  /\ fromGdb = <<>>
  /\ target = [status |-> "none", frame |-> 0, blocked |-> FALSE]
  /\ stops = 0
  /\ changed = 0
  /\ objects = {}
  /\ nextObject = 1
  /\ at = 0
  /\ spent = [what \in DOMAIN Bounds |-> 0]

-----------------------------------------------------------------------------
(* Mutant: the alert is not cleared when the rank runs again.              *)
AnnounceUncleared(s) ==
  /\ asked' = IF s = "stopped" THEN TRUE ELSE IF s = "running" THEN FALSE ELSE asked
  /\ UNCHANGED alert

(* Mutant: the analyzer asks but does not note that it did.                *)
AnnounceUnasked(s) ==
  /\ asked' = IF s = "running" THEN FALSE ELSE asked
  /\ alert' = IF s = "running" THEN 0 ELSE alert

(* DeadlockAnalyzer::onRankStateChanged, at every rankStateChanged.        *)
Announce(s) ==
  /\ asked' = IF s = "stopped" THEN TRUE ELSE IF s = "running" THEN FALSE ELSE asked
  /\ alert' = IF s = "running" THEN 0 ELSE alert

AnalyzerAsks(s) == IF s = "stopped" THEN <<Ask("stack")>> ELSE <<>>

Take(kind) ==
  /\ fromGdb # <<>>
  /\ Head(fromGdb).kind = kind
  /\ fromGdb' = Tail(fromGdb)

(* The watches of the list without an object, as far as is known.          *)
Missing(w) == objectOf[w] = 0

Creates ==
  LET upTo[i \in 0..Len(watched)] ==
        IF i = 0 THEN <<>>
        ELSE IF Missing(watched[i]) THEN Append(upTo[i - 1], Create(watched[i]))
        ELSE upTo[i - 1]
  IN upTo[Len(watched)]

(* *stopped: disassembly and registers are asked for whatever follows; the *)
(* file of an earlier stop stands in for one that is missing.              *)
Stop ==
  /\ Take("stopped")
  /\ located' = (located \/ Head(fromGdb).mapped)
  /\ at' = Head(fromGdb).number
  /\ UNCHANGED <<coordinator, gdb, spent>>

StopQuestions == <<Ask("disassembly"), Ask("registers")>>

(* The first of a session: flushCachedBreakpoints asks for the breakpoints *)
(* saved, or continues at once.  Nothing is announced.                     *)
HandleFirstStop ==
  /\ Stop
  /\ ~synced
  /\ synced' = TRUE
  /\ \/ /\ state' = "running"
        /\ toGdb' = toGdb \o StopQuestions \o <<Ask("continue")>>
        /\ UNCHANGED pending
     \/ /\ state' = "sync_flushing"
        /\ pending' \in 1..MaxBreakpoints
        /\ toGdb' = toGdb \o StopQuestions \o [i \in 1..pending' |-> Ask("insert")]
  /\ UNCHANGED analyzer

(* In code without a file: continued, and not announced either.            *)
HandleUnmappedStop ==
  /\ Stop
  /\ synced /\ ~located'
  /\ state' = "running"
  /\ toGdb' = toGdb \o StopQuestions \o <<Ask("continue")>>
  /\ UNCHANGED <<synced, pending, analyzer>>

(* Any other is shown. *)
HandleStopped ==
  /\ Stop
  /\ synced /\ located'
  /\ state' = "stopped"
  /\ toGdb' = toGdb \o StopQuestions \o Creates \o AnalyzerAsks("stopped")
  /\ Announce("stopped")
  /\ UNCHANGED <<synced, pending>>

(* The answer to an insertion, of the flush or of an edit.  The barrier    *)
(* counts either, and its end is not announced.                            *)
HandleInserted ==
  /\ Take("inserted")
  /\ \/ /\ state = "sync_flushing"
        /\ pending' = pending - 1
        /\ \/ /\ pending' > 0
              /\ UNCHANGED <<state, toGdb>>
           \/ /\ pending' <= 0
              /\ state' = "running"
              /\ toGdb' = Append(toGdb, Ask("continue"))
        /\ UNCHANGED analyzer
     \/ /\ state # "sync_flushing"
        /\ Announce(state)
        /\ toGdb' = toGdb \o AnalyzerAsks(state)
        /\ UNCHANGED <<state, pending>>
  /\ UNCHANGED <<synced, located, coordinator, gdb, at, spent>>

HandleRunning ==
  /\ Take("running")
  /\ state' = "running"
  /\ Announce("running")
  /\ UNCHANGED <<synced, located, pending, coordinator, toGdb, gdb, at, spent>>

HandleExited ==
  /\ Take("exited")
  /\ state' = "exited"
  /\ Announce("exited")
  /\ UNCHANGED <<synced, located, pending, coordinator, toGdb, gdb, at, spent>>

(* An answer whose text is shown, or an error without a number.            *)
HandleText ==
  /\ Take("registers") \/ Take("error")
  /\ Announce(state)
  /\ toGdb' = toGdb \o AnalyzerAsks(state)
  /\ UNCHANGED <<slot, coordinator, gdb, at, spent>>

(* Mutant: the update of the watches is not chained. *)
HandleDisassemblyAlone ==
  /\ Take("disassembly")
  /\ Announce(state)
  /\ toGdb' = toGdb \o AnalyzerAsks(state)
  /\ UNCHANGED <<slot, coordinator, gdb, at, spent>>

(* Number 200, an error or not: the update of the watches follows.         *)
HandleDisassembly ==
  /\ Take("disassembly")
  /\ Announce(state)
  /\ toGdb' = toGdb \o AnalyzerAsks(state) \o <<Ask("update")>>
  /\ UNCHANGED <<slot, coordinator, gdb, at, spent>>

(* Number 30<index>. *)
HandleCreated ==
  LET m == Head(fromGdb)
  IN /\ Take("created")
     /\ objectOf' = [objectOf EXCEPT ![m.watch] = m.number]
     /\ watchOf' = [n \in DOMAIN watchOf \cup {m.number} |->
                      IF n = m.number THEN m.watch ELSE watchOf[n]]
     /\ cells' = [cells EXCEPT ![m.watch] = m.value]
     /\ Announce(state)
     /\ toGdb' = toGdb \o AnalyzerAsks(state)
     /\ UNCHANGED <<slot, watched, gdb, at, spent>>

HandleUncreated ==
  LET w == Head(fromGdb).watch
  IN /\ Take("uncreated")
     /\ objectOf' = [objectOf EXCEPT ![w] = 0]
     /\ cells' = [cells EXCEPT ![w] = Gone]
     /\ Announce(state)
     /\ toGdb' = toGdb \o AnalyzerAsks(state)
     /\ UNCHANGED <<slot, watched, watchOf, gdb, at, spent>>

(* Mutant: an object whose frame is gone is forgotten and not deleted. *)
HandleChangesKept ==
  LET known == {c \in Head(fromGdb).list : c.number \in DOMAIN watchOf}
      about(w) == {c \in known : watchOf[c.number] = w}
      dead == {c.number : c \in {d \in known : ~d.alive}}
  IN /\ Take("changes")
     /\ \E last \in [Watches -> known \cup {Plain("none")}] :
          /\ \A w \in Watches : IF about(w) = {} THEN last[w] = Plain("none")
                               ELSE last[w] \in about(w)
          /\ cells' = [w \in Watches |->
                         IF about(w) = {} THEN cells[w]
                         ELSE IF last[w].alive THEN last[w].value ELSE Gone]
     /\ objectOf' = [w \in Watches |->
                       IF \E c \in about(w) : ~c.alive THEN 0 ELSE objectOf[w]]
     /\ watchOf' = [n \in DOMAIN watchOf \ dead |-> watchOf[n]]
     /\ IF known = {} THEN UNCHANGED <<analyzer, toGdb>>
        ELSE /\ Announce(state)
             /\ toGdb' = toGdb \o AnalyzerAsks(state)
     /\ UNCHANGED <<slot, watched, gdb, at, spent>>

(* A changelist: values, and objects whose frame is gone, which are        *)
(* deleted.  gdb lists the objects in no particular order, the last one    *)
(* for a name is shown.                                                    *)
HandleChanges ==
  LET known == {c \in Head(fromGdb).list : c.number \in DOMAIN watchOf}
      about(w) == {c \in known : watchOf[c.number] = w}
      dead == {c.number : c \in {d \in known : ~d.alive}}
  IN /\ Take("changes")
     /\ \E last \in [Watches -> known \cup {Plain("none")}] :
          /\ \A w \in Watches : IF about(w) = {} THEN last[w] = Plain("none")
                               ELSE last[w] \in about(w)
          /\ cells' = [w \in Watches |->
                         IF about(w) = {} THEN cells[w]
                         ELSE IF last[w].alive THEN last[w].value ELSE Gone]
     /\ objectOf' = [w \in Watches |->
                       IF \E c \in about(w) : ~c.alive THEN 0 ELSE objectOf[w]]
     /\ watchOf' = [n \in DOMAIN watchOf \ dead |-> watchOf[n]]
     /\ IF known = {} THEN UNCHANGED <<analyzer, toGdb>>
        ELSE /\ Announce(state)
             /\ toGdb' = toGdb \o (IF dead = {} THEN <<>> ELSE <<Delete(dead)>>)
                               \o AnalyzerAsks(state)
     /\ UNCHANGED <<slot, watched, gdb, at, spent>>

(* Mutant: what the stack showed is announced as a change of state. *)
HandleStackAnnounced ==
  /\ Take("stack")
  /\ Announce(state)
  /\ toGdb' = toGdb \o AnalyzerAsks(state)
  /\ UNCHANGED <<slot, coordinator, gdb, at, spent>>

(* DeadlockAnalyzer::onGdbOutputReceived; nobody else reads the answer.    *)
HandleStack ==
  /\ Take("stack")
  /\ asked' = FALSE
  /\ alert' = IF asked THEN Head(fromGdb).number ELSE alert
  /\ UNCHANGED <<slot, coordinator, toGdb, gdb, at, spent>>

-----------------------------------------------------------------------------
(* The user.                                                               *)

(* A watch that is added a second time is asked for again.                 *)
RegisterWatchVariable(w) ==
  /\ Spend("watches")
  /\ watched' = IF \E i \in 1..Len(watched) : watched[i] = w THEN watched
                ELSE Append(watched, w)
  /\ toGdb' = IF state # "none" /\ Missing(w) THEN Append(toGdb, Create(w))
              ELSE toGdb
  /\ UNCHANGED <<slot, objectOf, watchOf, cells, analyzer, fromGdb, gdb, at>>

(* stepAll, continueAll and the like. *)
Resume ==
  /\ state # "none"
  /\ Spend("commands")
  /\ toGdb' = Append(toGdb, Ask("continue"))
  /\ UNCHANGED <<slot, coordinator, analyzer, fromGdb, gdb, at>>

(* broadcastBreakpoint of an edit; the answer to a deletion says nothing.  *)
BroadcastBreakpoint ==
  /\ state # "none"
  /\ Spend("commands")
  /\ toGdb' = Append(toGdb, Ask("insert"))
  /\ UNCHANGED <<slot, coordinator, analyzer, fromGdb, gdb, at>>

(* The rank is selected and its disassembly is not known yet.              *)
RequestDisassemblyFallback ==
  /\ state = "stopped"
  /\ Spend("commands")
  /\ toGdb' = Append(toGdb, Ask("disassembly"))
  /\ UNCHANGED <<slot, coordinator, analyzer, fromGdb, gdb, at>>

(* Mutant: the gdb of the last session is used again. *)
FreshGdbKept(s, status) ==
  /\ state' = s
  /\ synced' = FALSE
  /\ located' = FALSE
  /\ pending' = 0
  /\ toGdb' = <<>>
  /\ fromGdb' = <<>>
  /\ target' = [status |-> status, frame |-> 0, blocked |-> FALSE]
  /\ nextObject' = 1
  /\ UNCHANGED objects

(* What is known of variable objects, and the alert, outlive the session.  *)
Fresh(s, status) ==
  /\ state' = s
  /\ synced' = FALSE
  /\ located' = FALSE
  /\ pending' = 0
  /\ toGdb' = <<>>
  /\ fromGdb' = <<>>
  /\ target' = [status |-> status, frame |-> 0, blocked |-> FALSE]
  /\ objects' = {}
  /\ nextObject' = 1

LaunchParallelSession ==
  /\ Spend("sessions")
  /\ stops < MaxStops
  /\ Fresh("launching", "unattached")
  /\ stops' = stops + 1
  /\ changed' = stops'
  /\ UNCHANGED <<coordinator, analyzer, at>>

TerminateAllSessions ==
  /\ state # "none"
  /\ Fresh("none", "none")
  /\ UNCHANGED <<coordinator, analyzer, stops, changed, at, spent>>

-----------------------------------------------------------------------------
(* gdb and the target (external).                                          *)

Reads(names) ==
  /\ toGdb # <<>>
  /\ Head(toGdb).name \in names
  /\ toGdb' = Tail(toGdb)

Tell(record) == fromGdb' = Append(fromGdb, record)

Halted == target.status = "stopped"

(* A connection stops the target at its entry, before any source line.     *)
GdbConnects ==
  /\ target.status = "unattached"
  /\ target' = [target EXCEPT !.status = "stopped"]
  /\ Tell(Stopped(stops, FALSE))
  /\ UNCHANGED <<slot, coordinator, analyzer, toGdb, stops, changed, objects,
                 nextObject, at, spent>>

(* There are no symbols before the connection. *)
GdbInserts ==
  /\ Reads({"insert"})
  /\ Tell(Plain(IF target.status = "unattached" THEN "error" ELSE "inserted"))
  /\ UNCHANGED <<slot, coordinator, analyzer, gdb, at, spent>>

GdbContinues ==
  /\ Reads({"continue"})
  /\ IF Halted
     THEN target' = [target EXCEPT !.status = "running"] /\ Tell(Plain("running"))
     ELSE UNCHANGED target /\ Tell(Plain("error"))
  /\ UNCHANGED <<slot, coordinator, analyzer, stops, changed, objects,
                 nextObject, at, spent>>

GdbAnswers ==
  /\ Reads({"disassembly", "registers", "stack"})
  /\ LET name == Head(toGdb).name
     IN Tell(IF name = "disassembly" THEN Plain("disassembly")
             ELSE IF ~Halted THEN Plain("error")
             ELSE IF name = "registers" THEN Plain("registers")
             ELSE Stack(IF target.blocked THEN stops ELSE 0))
  /\ UNCHANGED <<slot, coordinator, analyzer, gdb, at, spent>>

Visible(w) == Halted /\ ((w \in Local) <=> target.frame # 0)

GdbCreates ==
  LET w == Head(toGdb).watch
  IN /\ Reads({"create"})
     /\ IF Visible(w)
        THEN /\ Tell(Record("created", w, nextObject, changed))
             /\ objects' = objects \cup
                  {[number |-> nextObject, watch |-> w, frame |-> target.frame,
                    told |-> changed]}
             /\ nextObject' = nextObject + 1
        ELSE Tell(Record("uncreated", w, 0, 0)) /\ UNCHANGED <<objects, nextObject>>
     /\ UNCHANGED <<slot, coordinator, analyzer, target, stops, changed, at, spent>>

Alive(o) == Halted /\ o.frame \in {0, target.frame}

GdbUpdates ==
  /\ Reads({"update"})
  /\ IF target.status \in {"running", "unattached"}
     THEN Tell(Plain("error")) /\ UNCHANGED objects
     ELSE /\ Tell(Changes({[number |-> o.number, alive |-> Alive(o), value |-> changed] :
                             o \in {p \in objects : ~Alive(p) \/ p.told # changed}}))
          /\ objects' = {IF Alive(o) THEN [o EXCEPT !.told = changed] ELSE o :
                          o \in objects}
  /\ UNCHANGED <<slot, coordinator, analyzer, target, stops, changed,
                 nextObject, at, spent>>

GdbDeletes ==
  /\ Reads({"delete"})
  /\ objects' = {o \in objects : o.number \notin Head(toGdb).numbers}
  /\ UNCHANGED <<slot, coordinator, analyzer, fromGdb, target, stops, changed,
                 nextObject, at, spent>>

(* In the frame it was in, back in its caller, or in another call.         *)
TargetStops(changes, blocked, mapped) ==
  /\ target.status = "running"
  /\ stops < MaxStops
  /\ stops' = stops + 1
  /\ changed' = IF changes THEN stops' ELSE changed
  /\ \E f \in {target.frame, 0, stops'} :
       target' = [status |-> "stopped", frame |-> f, blocked |-> blocked]
  /\ Tell(Stopped(stops', mapped))
  /\ UNCHANGED <<slot, coordinator, analyzer, toGdb, objects, nextObject, at,
                 spent>>

TargetExits ==
  /\ target.status = "running"
  /\ target' = [target EXCEPT !.status = "over"]
  /\ Tell(Plain("exited"))
  /\ UNCHANGED <<slot, coordinator, analyzer, toGdb, stops, changed, objects,
                 nextObject, at, spent>>

-----------------------------------------------------------------------------
Handle ==
  \/ HandleFirstStop \/ HandleUnmappedStop \/ HandleStopped \/ HandleRunning
  \/ HandleExited \/ HandleText \/ HandleDisassembly \/ HandleCreated
  \/ HandleUncreated \/ HandleChanges \/ HandleStack \/ HandleInserted

User ==
  \/ \E w \in Watches : RegisterWatchVariable(w)
  \/ Resume \/ BroadcastBreakpoint \/ RequestDisassemblyFallback
  \/ LaunchParallelSession \/ TerminateAllSessions

Gdb ==
  \/ GdbConnects \/ GdbContinues \/ GdbInserts \/ GdbAnswers \/ GdbCreates
  \/ GdbUpdates \/ GdbDeletes

Target ==
  \/ TargetExits
  \/ \E changes, blocked, mapped \in BOOLEAN : TargetStops(changes, blocked, mapped)

Next == Handle \/ User \/ Gdb \/ Target

Spec == Init /\ [][Next]_vars

(* The event loop handles what arrives, and gdb reads what is written.     *)
FairSpec == Spec /\ WF_vars(Handle) /\ WF_vars(Gdb)

-----------------------------------------------------------------------------
Names == {"disassembly", "registers", "stack", "create", "update", "delete",
          "continue", "insert"}
Kinds == {"stopped", "running", "exited", "registers", "error", "disassembly",
          "created", "uncreated", "changes", "stack", "inserted"}
Values == 0..MaxStops

TypeOK ==
  /\ state \in {"none", "launching", "sync_flushing", "running", "stopped", "exited"}
  /\ synced \in BOOLEAN /\ located \in BOOLEAN
  /\ pending \in Nat /\ (state = "sync_flushing" => pending > 0)
  /\ watched \in Seq(Watches)
  /\ objectOf \in [Watches -> Nat]
  /\ watchOf \in [DOMAIN watchOf -> Watches] /\ DOMAIN watchOf \subseteq Nat
  /\ cells \in [Watches -> Values \cup {Unknown, Gone}]
  /\ asked \in BOOLEAN
  /\ alert \in Values
  /\ toGdb \in Seq([name : Names, watch : Watches \cup {NoWatch}, numbers : SUBSET Nat])
  /\ \A i \in DOMAIN fromGdb :
       /\ fromGdb[i].kind \in Kinds
       /\ fromGdb[i].number \in Nat /\ fromGdb[i].value \in Values
  /\ target \in [status : {"none", "unattached", "running", "stopped", "over"},
                 frame : Values, blocked : BOOLEAN]
  /\ stops \in Values /\ changed \in 0..stops /\ at \in 0..stops
  /\ objects \subseteq [number : 1..nextObject - 1, watch : Watches, frame : Values,
                        told : Values]
  /\ nextObject \in Nat \ {0}

Quiet   == toGdb = <<>> /\ fromGdb = <<>>
Settled == Quiet /\ state = "stopped"

(* Once every answer of a stop is handled, a watch whose object the        *)
(* coordinator knows shows its value of this stop, or that it is gone,     *)
(* however stops, resumes and additions of watches overlapped the answers. *)
WatchesFresh ==
  Settled => \A o \in objects :
    o.number \in DOMAIN watchOf => cells[o.watch] \in {changed, Gone}

(* No variable object is forgotten: gdb only has objects the coordinator   *)
(* knows under their name, is about to be told of, or has deleted.         *)
ObjectsKnown ==
  \A o \in objects :
    \/ o.number \in DOMAIN watchOf /\ watchOf[o.number] = o.watch
    \/ \E i \in DOMAIN fromGdb : /\ fromGdb[i].kind = "created"
                                /\ fromGdb[i].number = o.number
    \/ \E i \in DOMAIN toGdb : o.number \in toGdb[i].numbers

(* An alert of a stopped rank is about the stop shown, never about an      *)
(* earlier one whose stack arrived late or of the last session; and a rank *)
(* that runs has none once every answer is handled.  Until then it may     *)
(* have the last session's: it is set running at its first stop, or when   *)
(* its breakpoints are flushed, without an announcement.                   *)
AlertCurrent ==
  /\ state = "stopped" => alert \in {0, at}
  /\ Quiet /\ state = "running" => alert = 0

(* Once every answer of a stop is handled, the rank has an alert if and    *)
(* only if it is blocked in MPI.                                           *)
AlertSettled == Settled => (alert # 0 <=> target.blocked)

(* The questions end although most answers raise another.                  *)
AnswersEnd == []<>Quiet

=============================================================================
