----------------------------- MODULE DapSession -----------------------------
(***************************************************************************)
(* DapCoordinator: the client of one `lldb-dap` child process.             *)
(*                                                                         *)
(* Three actors share the state.  The GUI thread runs every method and     *)
(* every signal handler of DapCoordinator, one at a time.  The adapter     *)
(* (an external program) reads requests from its standard input in order   *)
(* and writes responses and events.  The global thread pool parses each    *)
(* incoming message in a task of its own and posts it back to the GUI      *)
(* thread, so messages are handled in any order: `pool` is a set.          *)
(*                                                                         *)
(* Abstracted: payload formatting, logging, signals to the views (the ones *)
(* a property needs are the history variable `told`), and the file of a    *)
(* breakpoint (the model has one file, setBreakpoints is per file).        *)
(***************************************************************************)
EXTENDS Naturals, Integers, Sequences, FiniteSets

CONSTANTS
  Ranks,        \* ranks of the target; DAP thread ids are rank + 1
  Asks,         \* what the views ask about: expressions, references, frames
  NoTag,        \* the subject of a request that is not a question
  AskMaps,      \* the kinds of question the views put in this instance
  Lines,        \* lines of the source file breakpoints can be set on
  MaxSessions,  \* bound on adapter processes started
  MaxAsks,      \* bound on questions and commands of the views
  MaxToggles,   \* bound on breakpoint toggles
  MaxStops,     \* bound on stops of the target, over all sessions
  MaxBanners,   \* bound on SLURM banners printed by the target
  MaxExits,     \* bound on the target ending by itself
  MaxErrors,    \* bound on pipe errors reported by QProcess
  MaxTerminates \* bound on terminateSession calls

RequestMaps == {"stackTrace", "scopes", "variables", "readMemory", "evaluate",
                "heatmap"}
Controls == {"initialize", "launch", "setBreakpoints", "configurationDone",
             "continue", "disconnect"}
Commands == Controls \cup (RequestMaps \ {"heatmap"})

ASSUME DapAssumption ==
  /\ Ranks \subseteq Nat
  /\ NoTag \notin Ranks \cup Asks
  /\ AskMaps \subseteq RequestMaps \ {"stackTrace"}
  /\ {MaxSessions, MaxAsks, MaxToggles, MaxStops, MaxBanners, MaxExits, MaxErrors,
      MaxTerminates} \subseteq Nat

VARIABLES
  m_state,           \* SessionState
  m_sequenceNumber,
  requests,          \* the six m_*Requests maps: entries [map, seq, tag]
  m_activeFrameIds,  \* rank |-> id of the cached top frame, 0 when absent
  m_rankToPid,       \* sequence of pids: entry i is rank i - 1
  m_slurmJobId,      \* -1, or the job captured from the target's output
  m_breakpoints,     \* lines with a breakpoint
  process,           \* QProcess::state() of the adapter
  terminating,       \* terminateSession is on the GUI thread's stack
  stdin,             \* requests written to the adapter and not yet read
  phase,             \* what the adapter (and the target under it) is doing
  adapterBps,        \* breakpoints the adapter holds
  topFrame,          \* rank |-> frame the target last stopped in
  pool,              \* messages read from the adapter, not yet handled
  session,           \* number of adapter processes started; also the target's pid
  asked,             \* history: every request that took a sequence number
  told,              \* history: answers given to the views
  cancelled,         \* history: SLURM jobs given to scancel
  captured,          \* history: SLURM jobs read from the target's output
  spent              \* how much of each bound has been used

sessionVars == <<m_state, process, session, terminating>>
requestVars == <<m_sequenceNumber, requests, stdin, asked, told>>
targetVars  == <<phase, adapterBps, topFrame>>
cacheVars   == <<m_activeFrameIds, m_rankToPid>>
slurmVars   == <<m_slurmJobId, cancelled, captured>>
vars == <<sessionVars, requestVars, targetVars, cacheVars, slurmVars,
          m_breakpoints, pool, spent>>

SessionStates == {"Disconnected", "Launching", "Queued", "Running", "Paused",
                  "Terminating"}
Tags    == Ranks \cup Asks \cup {NoTag}
Entry   == [map : RequestMaps, seq : Nat, tag : Tags]
Request == {r \in [seq : Nat, command : Commands, map : RequestMaps \cup {"none"},
                    tag : Tags, lines : SUBSET Lines] :
              r.command = "stackTrace" => r.tag \in Ranks}
Bounds  == [asks |-> MaxAsks, toggles |-> MaxToggles, stops |-> MaxStops,
            banners |-> MaxBanners, exits |-> MaxExits, errors |-> MaxErrors,
            terminates |-> MaxTerminates]

Spend(what) ==
  /\ spent[what] < Bounds[what]
  /\ spent' = [spent EXCEPT ![what] = @ + 1]

-----------------------------------------------------------------------------
(* Sending.                                                                *)

(* sendRequest and sendRawMessage.  A request other than `disconnect` is   *)
(* refused in Terminating and Disconnected; an accepted one takes a number *)
(* and is written only in Running, Paused and Terminating, to a process    *)
(* that has been started (QProcess buffers writes while it is starting).   *)
Accepts(st, command) ==
  st \notin {"Terminating", "Disconnected"} \/ command = "disconnect"

Writes(st) ==
  st \in {"Running", "Paused", "Terminating"} /\ process # "NotRunning"

Plain(command) == [command |-> command, map |-> "none", tag |-> NoTag, lines |-> {}]

Numbered(s, m) == [seq |-> s, command |-> m.command, map |-> m.map, tag |-> m.tag,
                   lines |-> m.lines]

Logged(st, r) == [seq |-> r.seq, map |-> r.map, tag |-> r.tag, written |-> Writes(st)]

SendAll(st, msgs) ==
  LET rs == [i \in 1..Len(msgs) |-> Numbered(m_sequenceNumber + i - 1, msgs[i])]
  IN  IF Accepts(st, msgs[1].command)
      THEN /\ m_sequenceNumber' = m_sequenceNumber + Len(msgs)
           /\ stdin' = IF Writes(st) THEN stdin \o rs ELSE stdin
           /\ asked' = asked \cup {Logged(st, rs[i]) : i \in 1..Len(msgs)}
      ELSE UNCHANGED <<m_sequenceNumber, stdin, asked>>

Send(st, msg) == SendAll(st, <<msg>>)

(* Mutant: the key is the number the next request will take. *)
RecordedLate(map, s, t) ==
  {e \in requests : e.map # map \/ e.seq # s + 1}
    \cup {[map |-> map, seq |-> s + 1, tag |-> t]}

(* QMap assignment: one entry per key. *)
Recorded(map, s, t) ==
  {e \in requests : e.map # map \/ e.seq # s} \cup {[map |-> map, seq |-> s, tag |-> t]}

(* Mutant: the entry is keyed after sendRequest has taken its number. *)
SendAndRecord(st, map, t) ==
  /\ Send(st, [command |-> map, map |-> map, tag |-> t, lines |-> {}])
  /\ requests' = Recorded(map, m_sequenceNumber', t)

(* requestStackTrace, requestScopes, requestVariables, evaluateExpression  *)
(* and readMemory: the entry is keyed by the number the request is about   *)
(* to take, before sendRequest decides whether it takes one.               *)
RecordAndSend(st, map, t) ==
  /\ requests' = Recorded(map, m_sequenceNumber, t)
  /\ Send(st, [command |-> map, map |-> map, tag |-> t, lines |-> {}])

SetBreakpoints(ls) ==
  [command |-> "setBreakpoints", map |-> "none", tag |-> NoTag, lines |-> ls]

(* Mutants: the flush forgets the breakpoints, or to release the target.   *)
FlushNothing == <<Plain("configurationDone")>>
FlushOnly ==
  IF m_breakpoints = {} THEN FlushNothing ELSE <<SetBreakpoints(m_breakpoints)>>

(* What `initialized` is answered with. *)
Flush ==
  IF m_breakpoints = {} THEN <<Plain("configurationDone")>>
  ELSE <<SetBreakpoints(m_breakpoints), Plain("configurationDone")>>

(* Mutant: scancel only while the session is shown as queued. *)
CancelQueued ==
  cancelled' = IF m_state = "Queued" THEN cancelled \cup {m_slurmJobId} ELSE cancelled

Cancel ==
  cancelled' = IF m_slurmJobId = -1 THEN cancelled ELSE cancelled \cup {m_slurmJobId}

(* Mutant: DAP thread ids taken for ranks. *)
RankIsThread(thread) == thread

RankOf(thread) == thread - 1

-----------------------------------------------------------------------------
Init ==
  /\ m_state = "Disconnected"
  /\ m_sequenceNumber = 1
  /\ requests = {}
  /\ m_activeFrameIds = [r \in Ranks |-> 0]
  /\ m_rankToPid = <<>>
  /\ m_slurmJobId = -1
  /\ m_breakpoints = {}
  /\ process = "NotRunning"
  /\ terminating = FALSE
  /\ stdin = <<>>
  /\ phase = "none"
  /\ adapterBps = {}
  /\ topFrame = [r \in Ranks |-> 0]
  /\ pool = {}
  /\ session = 0
  /\ asked = {}
  /\ told = {}
  /\ cancelled = {}
  /\ captured = {}
  /\ spent = [what \in DOMAIN Bounds |-> 0]

-----------------------------------------------------------------------------
(* The views, on the GUI thread.                                           *)

(* launchParallelSession and startAdapter.  QProcess::start on a process   *)
(* that has not ended yet only warns.                                      *)
LaunchParallelSession ==
  /\ ~terminating
  /\ m_state = "Disconnected"
  /\ m_state' = "Launching"
  /\ IF process = "NotRunning"
     THEN /\ session < MaxSessions
          /\ session' = session + 1
          /\ process' = "Starting"
     ELSE UNCHANGED <<session, process>>
  /\ UNCHANGED <<terminating, requestVars, targetVars, cacheVars, slurmVars,
                 m_breakpoints, pool, spent>>

(* stepOver, stepInto, continueExecution and pauseExecution send one       *)
(* request and change nothing else.                                        *)
Control ==
  /\ ~terminating
  /\ Spend("asks")
  /\ Send(m_state, Plain("continue"))
  /\ UNCHANGED <<sessionVars, requests, told, targetVars, cacheVars, slurmVars,
                 m_breakpoints, pool>>

(* requestScopes, requestVariables, evaluateExpression, readMemory. *)
Ask(map, t) ==
  /\ ~terminating
  /\ Spend("asks")
  /\ RecordAndSend(m_state, map, t)
  /\ UNCHANGED <<sessionVars, told, targetVars, cacheVars, slurmVars,
                 m_breakpoints, pool>>

(* requestHeatmapRender: asks only while the adapter runs, and records the *)
(* number sendRequest returned; a refusal leaves an entry under -1, which  *)
(* no answer carries.                                                      *)
RequestHeatmapRender(t) ==
  /\ ~terminating
  /\ process = "Running"
  /\ Spend("asks")
  /\ requests' = IF Accepts(m_state, "evaluate")
                 THEN Recorded("heatmap", m_sequenceNumber, t) ELSE requests
  /\ Send(m_state, [command |-> "evaluate", map |-> "heatmap", tag |-> t, lines |-> {}])
  /\ UNCHANGED <<sessionVars, told, targetVars, cacheVars, slurmVars,
                 m_breakpoints, pool>>

ToggleBreakpoint(line) ==
  LET lines == IF line \in m_breakpoints THEN m_breakpoints \ {line}
                                         ELSE m_breakpoints \cup {line}
  IN  /\ ~terminating
      /\ Spend("toggles")
      /\ m_breakpoints' = lines
      /\ Send(m_state, SetBreakpoints(lines))
      /\ UNCHANGED <<sessionVars, requests, told, targetVars, cacheVars,
                     slurmVars, pool>>

(* terminateSession, up to its first waitForFinished. *)
TerminateSession ==
  /\ ~terminating
  /\ Spend("terminates")
  /\ terminating' = TRUE
  /\ m_state' = "Terminating"
  /\ Cancel
  /\ Send("Terminating", Plain("disconnect"))
  /\ UNCHANGED <<process, session, requests, told, targetVars, cacheVars,
                 m_slurmJobId, captured, m_breakpoints, pool>>

(* The rest of terminateSession.  It waits only for a process in Running:  *)
(* one that is still starting is left alone.  A process that outlives both *)
(* waits is killed, and its end is seen later.                             *)
TerminateReturns ==
  /\ terminating
  /\ terminating' = FALSE
  /\ m_slurmJobId' = -1
  /\ m_state' = "Disconnected"
  /\ phase' = IF process = "Running" THEN "killed" ELSE phase
  /\ UNCHANGED <<process, session, requestVars, adapterBps, topFrame, cacheVars,
                 cancelled, captured, m_breakpoints, pool, spent>>

-----------------------------------------------------------------------------
(* QProcess signals.                                                       *)

(* Mutant: every adapter is talked to from number 1 again. *)
ProcessStartedAfresh ==
  /\ ~terminating
  /\ process = "Starting"
  /\ process' = "Running"
  /\ m_state' = "Running"
  /\ phase' = "new"
  /\ m_sequenceNumber' = 2
  /\ stdin' = <<Numbered(1, Plain("initialize"))>>
  /\ asked' = asked \cup {Logged("Running", stdin'[1])}
  /\ UNCHANGED <<terminating, session, requests, told, adapterBps, topFrame,
                 cacheVars, slurmVars, m_breakpoints, pool, spent>>

(* The lambda connected to QProcess::started. *)
ProcessStarted ==
  /\ ~terminating
  /\ process = "Starting"
  /\ process' = "Running"
  /\ m_state' = "Running"
  /\ phase' = "new"
  /\ Send("Running", Plain("initialize"))
  /\ UNCHANGED <<terminating, session, requests, told, adapterBps, topFrame,
                 cacheVars, slurmVars, m_breakpoints, pool, spent>>

AdapterGone ==
  /\ process' = "NotRunning"
  /\ stdin' = <<>>
  /\ phase' = "none"
  /\ adapterBps' = {}
  /\ UNCHANGED <<m_sequenceNumber, requests, asked, told, topFrame>>

(* handleProcessError(FailedToStart). *)
ProcessFailedToStart ==
  /\ ~terminating
  /\ process = "Starting"
  /\ m_state' = "Disconnected"
  /\ AdapterGone
  /\ UNCHANGED <<session, terminating, cacheVars, slurmVars, m_breakpoints,
                 pool, spent>>

(* handleProcessError(Crashed) and handleProcessFinished; inside           *)
(* waitForFinished too.                                                    *)
ProcessFinished ==
  /\ process = "Running"
  /\ m_state' = "Disconnected"
  /\ AdapterGone
  /\ UNCHANGED <<session, terminating, cacheVars, slurmVars, m_breakpoints,
                 pool, spent>>

-----------------------------------------------------------------------------
(* handleMessage, one action per branch.                                   *)

Take(m) ==
  /\ ~terminating
  /\ m \in pool
  /\ pool' = pool \ {m}

Response(m) == m.type = "response"
Event(m, name) == m.type = "event" /\ m.event = name

HandleInitializeResponse(m) ==
  /\ Take(m)
  /\ Response(m) /\ m.command = "initialize"
  /\ Send(m_state, Plain("launch"))
  /\ UNCHANGED <<sessionVars, requests, told, targetVars, cacheVars, slurmVars,
                 m_breakpoints, spent>>

(* The map an answer is looked up in; an `evaluate` answer is tried as a   *)
(* heatmap first.                                                          *)
MapFor(m) ==
  IF m.command = "evaluate" /\ \E e \in requests : e.map = "heatmap" /\ e.seq = m.seq
  THEN "heatmap" ELSE m.command

Matches(e, m) == e.map = MapFor(m) /\ e.seq = m.seq

(* The branches for stackTrace, scopes, variables, readMemory, evaluate:   *)
(* take the entry, if there is one, and tell the view that made it.        *)
HandleAnswer(m) ==
  /\ Take(m)
  /\ Response(m) /\ m.command \in RequestMaps
  /\ LET hits == {e \in requests : Matches(e, m)}
     IN  /\ requests' = requests \ hits
         /\ told' = told \cup {[seq |-> m.seq, map |-> e.map, tag |-> e.tag,
                                answersMap |-> m.map, answersTag |-> m.tag] : e \in hits}
         /\ m_activeFrameIds' = [r \in Ranks |->
               IF m.command = "stackTrace" /\ \E e \in hits : e.tag = r
               THEN m.frame ELSE m_activeFrameIds[r]]
  /\ UNCHANGED <<sessionVars, m_sequenceNumber, stdin, asked, targetVars,
                 m_rankToPid, slurmVars, m_breakpoints, spent>>

HandleInitialized(m) ==
  /\ Take(m)
  /\ Event(m, "initialized")
  /\ SendAll(m_state, Flush)
  /\ m_state' = "Running"
  /\ UNCHANGED <<process, session, terminating, requests, told, targetVars,
                 cacheVars, slurmVars, m_breakpoints, spent>>

HandleStopped(m) ==
  /\ Take(m)
  /\ Event(m, "stopped")
  /\ m_state' = "Paused"
  /\ RecordAndSend("Paused", "stackTrace", RankOf(m.thread))
  /\ UNCHANGED <<process, session, terminating, told, targetVars, cacheVars,
                 slurmVars, m_breakpoints, spent>>

(* An `output` event carrying a SLURM banner. *)
HandleBanner(m) ==
  /\ Take(m)
  /\ Event(m, "output")
  /\ m_slurmJobId' = m.job
  /\ captured' = captured \cup {m.job}
  /\ m_state' = "Queued"
  /\ UNCHANGED <<process, session, terminating, requestVars, targetVars,
                 cacheVars, cancelled, m_breakpoints, spent>>

HandleProcessEvent(m) ==
  /\ Take(m)
  /\ Event(m, "process")
  /\ m_rankToPid' = Append(m_rankToPid, m.pid)
  /\ UNCHANGED <<sessionVars, requestVars, targetVars, m_activeFrameIds,
                 slurmVars, m_breakpoints, spent>>

HandleMessage(m) ==
  \/ HandleInitializeResponse(m)
  \/ HandleAnswer(m)
  \/ HandleInitialized(m)
  \/ HandleStopped(m)
  \/ HandleBanner(m)
  \/ HandleProcessEvent(m)

-----------------------------------------------------------------------------
(* The adapter and the target under it (external).                         *)

Serving == process = "Running" /\ phase \notin {"none", "exiting", "killed"}

(* Only responses handleMessage has a branch for are kept: the successful  *)
(* ones to `initialize` and to questions.                                  *)
Reply(r) == [type |-> "response", command |-> r.command, seq |-> r.seq,
             map |-> r.map, tag |-> r.tag,
             frame |-> IF r.command = "stackTrace" THEN topFrame[r.tag] ELSE 0]

AfterControl(command) ==
  CASE command = "launch" /\ phase = "new" -> "launched"
    [] command = "configurationDone" /\ phase = "launched" -> "running"
    [] command = "continue" /\ phase = "stopped" -> "running"
    [] command = "disconnect" -> "exiting"
    [] OTHER -> phase

LaunchEvents == {[type |-> "event", event |-> "initialized", of |-> session],
                 [type |-> "event", event |-> "process", pid |-> session]}

AdapterObeys ==
  /\ Serving
  /\ stdin # <<>>
  /\ LET r == Head(stdin)
     IN  /\ r.command \in Controls
         /\ stdin' = Tail(stdin)
         /\ phase' = AfterControl(r.command)
         /\ adapterBps' = IF r.command = "setBreakpoints" THEN r.lines ELSE adapterBps
         /\ pool' = pool \cup (CASE r.command = "initialize" -> {Reply(r)}
                               [] r.command = "launch" /\ phase = "new" -> LaunchEvents
                               [] OTHER -> {})
  /\ UNCHANGED <<sessionVars, m_sequenceNumber, requests, asked, told, topFrame,
                 cacheVars, slurmVars, m_breakpoints, spent>>

(* A question can succeed only while the target is stopped. *)
AdapterAnswers ==
  /\ Serving
  /\ stdin # <<>>
  /\ Head(stdin).command \in RequestMaps
  /\ \/ phase = "stopped" /\ pool' = pool \cup {Reply(Head(stdin))}
     \/ UNCHANGED pool
  /\ stdin' = Tail(stdin)
  /\ UNCHANGED <<sessionVars, m_sequenceNumber, requests, asked, told, targetVars,
                 cacheVars, slurmVars, m_breakpoints, spent>>

TargetStops(r) ==
  /\ Serving /\ phase = "running"
  /\ Spend("stops")
  /\ phase' = "stopped"
  /\ topFrame' = [topFrame EXCEPT ![r] = spent'.stops]
  /\ pool' = pool \cup {[type |-> "event", event |-> "stopped",
                         thread |-> r + 1, no |-> spent'.stops]}
  /\ UNCHANGED <<sessionVars, requestVars, adapterBps, cacheVars, slurmVars,
                 m_breakpoints>>

TargetPrintsBanner ==
  /\ Serving /\ phase = "running"
  /\ Spend("banners")
  /\ pool' = pool \cup {[type |-> "event", event |-> "output", job |-> spent'.banners]}
  /\ UNCHANGED <<sessionVars, requestVars, targetVars, cacheVars, slurmVars,
                 m_breakpoints>>

(* The target ends; handleMessage has no branch for `exited`, `terminated`. *)
TargetExits ==
  /\ Serving /\ phase = "running"
  /\ Spend("exits")
  /\ phase' = "over"
  /\ UNCHANGED <<sessionVars, requestVars, adapterBps, topFrame, cacheVars,
                 slurmVars, m_breakpoints, pool>>

(* handleProcessError(ReadError or WriteError): the adapter closed its end *)
(* of a pipe and is about to exit, but the process has not ended yet.      *)
TransportError ==
  /\ ~terminating
  /\ Serving
  /\ Spend("errors")
  /\ m_state' = "Disconnected"
  /\ phase' = "exiting"
  /\ UNCHANGED <<process, session, terminating, requestVars, adapterBps, topFrame,
                 cacheVars, slurmVars, m_breakpoints, pool>>

-----------------------------------------------------------------------------
Views ==
  \/ LaunchParallelSession
  \/ Control
  \/ \E map \in AskMaps \ {"heatmap"}, t \in Asks : Ask(map, t)
  \/ \E t \in Asks : "heatmap" \in AskMaps /\ RequestHeatmapRender(t)
  \/ \E line \in Lines : ToggleBreakpoint(line)
  \/ TerminateSession

ProcessSignals ==
  \/ ProcessStarted
  \/ ProcessFailedToStart
  \/ ProcessFinished
  \/ TransportError

Adapter ==
  \/ AdapterObeys
  \/ AdapterAnswers
  \/ \E r \in Ranks : TargetStops(r)
  \/ TargetPrintsBanner
  \/ TargetExits

Next ==
  \/ Views
  \/ TerminateReturns
  \/ ProcessSignals
  \/ \E m \in pool : HandleMessage(m)
  \/ Adapter

Spec == Init /\ [][Next]_vars

(* The event loop and the thread pool run every posted task, the bounded   *)
(* waits of terminateSession end, and an adapter that runs answers, or     *)
(* ends once it was told to.  Nothing is assumed of the user or the target.*)
Fairness ==
  /\ WF_vars(TerminateReturns)
  /\ WF_vars(ProcessStarted)
  /\ WF_vars(\E m \in pool : HandleMessage(m))
  /\ WF_vars(AdapterObeys \/ AdapterAnswers)
  /\ WF_vars(phase \in {"exiting", "killed"} /\ ProcessFinished)

FairSpec == Spec /\ Fairness

-----------------------------------------------------------------------------
(* Properties.                                                             *)

Messages ==
  [type : {"response"}, command : Commands, seq : Nat, map : RequestMaps \cup {"none"},
   tag : Tags, frame : Nat]
  \cup [type : {"event"}, event : {"initialized"}, of : Nat]
  \cup [type : {"event"}, event : {"process"}, pid : Nat]
  \cup [type : {"event"}, event : {"stopped"},
        thread : {r + 1 : r \in Ranks}, no : Nat]
  \cup [type : {"event"}, event : {"output"}, job : Nat]

(* The values the coordinator's fields can hold. *)
TypeOK ==
  /\ m_state \in SessionStates
  /\ m_sequenceNumber \in Nat \ {0}
  /\ requests \subseteq Entry
  /\ m_activeFrameIds \in [Ranks -> Nat]
  /\ m_rankToPid \in Seq(Nat)
  /\ m_slurmJobId \in Nat \cup {-1}
  /\ m_breakpoints \subseteq Lines
  /\ process \in {"NotRunning", "Starting", "Running"}
  /\ terminating \in BOOLEAN
  /\ stdin \in Seq(Request)
  /\ phase \in {"none", "new", "launched", "running", "stopped", "over", "exiting",
                "killed"}
  /\ adapterBps \subseteq Lines
  /\ topFrame \in [Ranks -> Nat]
  /\ pool \subseteq Messages
  /\ session \in Nat
  /\ asked \subseteq [seq : Nat, map : RequestMaps \cup {"none"}, tag : Tags,
                      written : BOOLEAN]
  /\ told \subseteq [seq : Nat, map : RequestMaps, tag : Tags,
                     answersMap : RequestMaps \cup {"none"}, answersTag : Tags]
  /\ cancelled \subseteq Nat
  /\ captured \subseteq Nat
  /\ spent \in [DOMAIN Bounds -> Nat]

(* Whatever order the pool hands the answers over in, and however many     *)
(* entries refused or dropped requests left behind in the request maps,    *)
(* an answer reaches the view that asked that very question.               *)
AttributionSound ==
  \A a \in told : a.map = a.answersMap /\ a.tag = a.answersTag

(* No number is answered twice, across restarts of the adapter too: an     *)
(* answer still in the pool is for a number no view was told about yet.    *)
NoDoubleAnswer ==
  \A m \in pool : Response(m) => \A a \in told : a.seq # m.seq

(* The coordinator keeps the ledger of questions and answers. *)
Ledger == INSTANCE RequestLedger WITH
  Kinds    <- RequestMaps \cup {"none"},
  Topics   <- Tags,
  issued   <- {[seq |-> a.seq, kind |-> a.map, topic |-> a.tag] : a \in asked},
  answered <- {[seq |-> a.seq, kind |-> a.map, topic |-> a.tag] : a \in told}

KeepsLedger == Ledger!Spec

(* What is still on its way: a request not yet read by the adapter, or an  *)
(* answer not yet handled.                                                 *)
Unread   == {stdin[i] : i \in 1..Len(stdin)}
Answers  == {m \in pool : Response(m)}
InFlight == Unread \cup Answers

NumbersUnique ==
  /\ \A a \in asked : a.seq < m_sequenceNumber
  /\ \A a, b \in asked : a.seq = b.seq => a = b

(* What is on its way was asked, and its command tells its map up to the   *)
(* heatmaps, which travel as `evaluate`.                                   *)
FlightGenuine ==
  \A r \in InFlight :
    /\ \E a \in asked : a.seq = r.seq /\ a.map = r.map /\ a.tag = r.tag
    /\ IF r.map = "none" THEN r.command \in Controls
       ELSE r.command = IF r.map = "heatmap" THEN "evaluate" ELSE r.map

FlightOnce ==
  /\ \A i, j \in 1..Len(stdin) : stdin[i].seq = stdin[j].seq => i = j
  /\ \A m, n \in Answers : m.seq = n.seq => m = n
  /\ \A m \in Answers, r \in Unread : m.seq # r.seq
  /\ \A a \in told, r \in InFlight : a.seq # r.seq

(* An entry may stand for a number not taken yet, left by a refused        *)
(* request; once the number is taken, entries of the asked kind are right. *)
EntriesRight ==
  /\ \A e \in requests : e.seq <= m_sequenceNumber
  /\ \A e \in requests, a \in asked : e.seq = a.seq /\ e.map = a.map => e.tag = a.tag
  /\ \A e \in requests : e.map = "heatmap" =>
       \E a \in asked : a.seq = e.seq /\ a.map = "heatmap"
  /\ \A r \in InFlight : r.map = "heatmap" =>
       \E e \in requests : e.map = "heatmap" /\ e.seq = r.seq

TellingsGenuine ==
  \A t \in told : \E a \in asked :
    a.seq = t.seq /\ a.map = t.answersMap /\ a.tag = t.answersTag

(* Why the answers are attributed right: numbers, entries and messages in  *)
(* flight agree, although refused and dropped requests leave entries that  *)
(* nothing will ever take.                                                 *)
Correlation ==
  NumbersUnique /\ FlightGenuine /\ FlightOnce /\ EntriesRight /\ TellingsGenuine

Quiet ==
  ~terminating /\ pool = {} /\ stdin = <<>> /\ process = "Running"

(* Toggles race the handshake and are refused or dropped in some states;   *)
(* still, once everything sent has been handled, the adapter of a live     *)
(* session holds the breakpoints the views show.                           *)
BreakpointsSynced ==
  Quiet /\ m_state \in {"Running", "Paused"} /\ phase \in {"running", "stopped"}
    => adapterBps = m_breakpoints

(* An adapter that was started is configured and released, or it ends:     *)
(* the chain initialize, launch, initialized, configurationDone completes. *)
HandshakeCompletes ==
  process = "Running" ~> (phase \in {"running", "stopped", "over"}
                            \/ process = "NotRunning")

(* Every SLURM job read from the output is given to scancel by             *)
(* terminateSession or still known to be cancelled by the next one.        *)
JobNeverForgotten == captured \subseteq cancelled \cup {m_slurmJobId}

=============================================================================
