-------------------------- MODULE DapSession_proofs --------------------------
(***************************************************************************)
(* Proofs about DapSession, for every number of ranks, sessions, questions *)
(* and breakpoints.                                                        *)
(***************************************************************************)
EXTENDS DapSession, TLAPS

Body == {m \in [command : Commands, map : RequestMaps \cup {"none"}, tag : Tags,
                 lines : SUBSET Lines] : m.command = "stackTrace" => m.tag \in Ranks}

(* A plain command, and one with breakpoints, is a request body. *)
LEMMA PlainBody ==
  ASSUME NEW command \in Controls
  PROVE  Plain(command) \in Body
BY DEF Plain, Body, Tags, Commands, Controls

(* setBreakpoints with any lines is a request body. *)
LEMMA SetBreakpointsBody ==
  ASSUME NEW ls \in SUBSET Lines
  PROVE  SetBreakpoints(ls) \in Body
BY DEF SetBreakpoints, Plain, Body, Tags, Commands, Controls

(* Sending one or several requests keeps the types of what it changes.     *)
LEMMA SendAllType ==
  ASSUME TypeOK, NEW st, NEW msgs \in Seq(Body), SendAll(st, msgs)
  PROVE  /\ m_sequenceNumber' \in Nat \ {0}
         /\ stdin' \in Seq(Request)
         /\ asked' \subseteq [seq : Nat, map : RequestMaps \cup {"none"}, tag : Tags,
                              written : BOOLEAN]
<1> DEFINE rs == [i \in 1..Len(msgs) |-> Numbered(m_sequenceNumber + i - 1, msgs[i])]
<1>1. m_sequenceNumber \in Nat \ {0} /\ stdin \in Seq(Request) /\ Len(msgs) \in Nat
  BY DEF TypeOK
<1>2. \A i \in 1..Len(msgs) : rs[i] \in Request
  <2> SUFFICES ASSUME NEW i \in 1..Len(msgs) PROVE rs[i] \in Request
    OBVIOUS
  <2>1. msgs[i] \in Body
    OBVIOUS
  <2>2. m_sequenceNumber + i - 1 \in Nat
    BY <1>1
  <2> QED BY <2>1, <2>2 DEF Numbered, Body, Request
<1>3. rs \in Seq(Request)
  BY <1>1, <1>2
<1>4. \A i \in 1..Len(msgs) :
        Logged(st, rs[i]) \in [seq : Nat, map : RequestMaps \cup {"none"}, tag : Tags,
                               written : BOOLEAN]
  <2> SUFFICES ASSUME NEW i \in 1..Len(msgs)
               PROVE  Logged(st, rs[i]) \in [seq : Nat, map : RequestMaps \cup {"none"},
                                             tag : Tags, written : BOOLEAN]
    OBVIOUS
  <2>1. rs[i] \in Request
    BY <1>2
  <2>2. Writes(st) \in BOOLEAN
    BY DEF Writes
  <2> HIDE DEF rs
  <2> QED BY <2>1, <2>2 DEF Logged, Request
<1>5. CASE Accepts(st, msgs[1].command)
  <2>1. m_sequenceNumber' = m_sequenceNumber + Len(msgs)
    BY <1>5 DEF SendAll
  <2>2. stdin' = IF Writes(st) THEN stdin \o rs ELSE stdin
    BY <1>5 DEF SendAll
  <2>3. asked' = asked \cup {Logged(st, rs[i]) : i \in 1..Len(msgs)}
    BY <1>5 DEF SendAll
  <2> HIDE DEF rs
  <2>4. stdin \o rs \in Seq(Request)
    BY <1>1, <1>3
  <2> QED BY <1>1, <1>4, <2>1, <2>2, <2>3, <2>4 DEF TypeOK
<1>6. CASE ~Accepts(st, msgs[1].command)
  BY <1>6 DEF SendAll, TypeOK
<1> QED BY <1>5, <1>6

(* Sending one request keeps the types. *)
LEMMA SendType ==
  ASSUME TypeOK, NEW st, NEW msg \in Body, Send(st, msg)
  PROVE  /\ m_sequenceNumber' \in Nat \ {0}
         /\ stdin' \in Seq(Request)
         /\ asked' \subseteq [seq : Nat, map : RequestMaps \cup {"none"}, tag : Tags,
                              written : BOOLEAN]
<1>1. <<msg>> \in Seq(Body)
  OBVIOUS
<1> QED BY <1>1, SendAllType DEF Send

(* An entry recorded under the next number is a well-typed entry. *)
LEMMA RecordedType ==
  ASSUME TypeOK, NEW map \in RequestMaps, NEW t \in Tags
  PROVE  Recorded(map, m_sequenceNumber, t) \subseteq Entry
BY DEF TypeOK, Recorded, Entry

(* Recording a question and sending it keeps the types. *)
LEMMA RecordAndSendType ==
  ASSUME TypeOK, NEW st, NEW map \in RequestMaps \ {"heatmap"}, NEW t \in Tags,
         map = "stackTrace" => t \in Ranks, RecordAndSend(st, map, t)
  PROVE  /\ requests' \subseteq Entry
         /\ m_sequenceNumber' \in Nat \ {0}
         /\ stdin' \in Seq(Request)
         /\ asked' \subseteq [seq : Nat, map : RequestMaps \cup {"none"}, tag : Tags,
                              written : BOOLEAN]
<1>1. [command |-> map, map |-> map, tag |-> t, lines |-> {}] \in Body
  BY DEF Body, Commands
<1> QED BY <1>1, SendType, RecordedType DEF RecordAndSend

(* The initial state is well typed. *)
LEMMA InitType == Init => TypeOK
<1> SUFFICES ASSUME Init PROVE TypeOK
  OBVIOUS
<1>1. spent \in [DOMAIN Bounds -> Nat]
  BY DEF Init
<1>2. stdin \in Seq(Request) /\ m_rankToPid \in Seq(Nat)
  BY DEF Init
<1>3. m_activeFrameIds \in [Ranks -> Nat] /\ topFrame \in [Ranks -> Nat]
  BY DEF Init
<1>4. m_sequenceNumber \in Nat \ {0} /\ m_slurmJobId \in Nat \cup {-1} /\ session \in Nat
  BY DEF Init
<1>5. asked = {} /\ told = {} /\ pool = {} /\ requests = {} /\ cancelled = {} /\ captured = {}
  BY DEF Init
<1>6. m_breakpoints = {} /\ adapterBps = {} /\ terminating = FALSE
  BY DEF Init
<1>7. m_state \in SessionStates /\ process = "NotRunning" /\ phase = "none"
  BY DEF Init, SessionStates
<1> QED BY <1>1, <1>2, <1>3, <1>4, <1>5, <1>6, <1>7 DEF TypeOK

(* The thread of a stopped event is a rank's. *)
LEMMA StoppedRank ==
  ASSUME TypeOK, NEW m \in pool, HandleStopped(m)
  PROVE  RankOf(m.thread) \in Ranks
<1>1. m \in Messages /\ m.type = "event" /\ m.event = "stopped"
  BY DEF TypeOK, HandleStopped, Event
<1>2. m.thread \in {r + 1 : r \in Ranks}
  BY <1>1 DEF Messages
<1>3. PICK r \in Ranks : m.thread = r + 1
  BY <1>2
<1> QED BY <1>3, DapAssumption DEF RankOf

(* Every branch of handleMessage keeps the types. *)
LEMMA HandleMessageType ==
  ASSUME TypeOK, NEW m \in pool, HandleMessage(m)
  PROVE  TypeOK'
<1> USE DEF sessionVars, requestVars, targetVars, cacheVars, slurmVars
<1>0. m \in Messages /\ pool' \subseteq Messages
  <2>1. pool' = pool \ {m}
    BY DEF HandleMessage, Take, HandleInitializeResponse, HandleAnswer,
           HandleInitialized, HandleStopped, HandleBanner, HandleProcessEvent
  <2> QED BY <2>1 DEF TypeOK
<1>1. CASE HandleInitializeResponse(m)
  <2>1. Plain("launch") \in Body
    BY PlainBody DEF Commands, Controls
  <2>2. Send(m_state, Plain("launch"))
    BY <1>1 DEF HandleInitializeResponse
  <2> QED BY <1>0, <1>1, <2>1, <2>2, SendType DEF HandleInitializeResponse, TypeOK
<1>2. CASE HandleAnswer(m)
  <2> DEFINE hits == {e \in requests : Matches(e, m)}
  <2>1. m.seq \in Nat /\ m.map \in RequestMaps \cup {"none"} /\ m.tag \in Tags /\ m.frame \in Nat
    BY <1>0, <1>2 DEF HandleAnswer, Response, Messages
  <2>2. told' \subseteq [seq : Nat, map : RequestMaps, tag : Tags,
                         answersMap : RequestMaps \cup {"none"}, answersTag : Tags]
    <3>1. told' = told \cup {[seq |-> m.seq, map |-> e.map, tag |-> e.tag,
                              answersMap |-> m.map, answersTag |-> m.tag] : e \in hits}
      BY <1>2 DEF HandleAnswer
    <3>2. \A e \in hits : e.map \in RequestMaps /\ e.tag \in Tags
      BY DEF TypeOK, Entry
    <3> HIDE DEF hits
    <3> QED BY <2>1, <3>1, <3>2 DEF TypeOK
  <2>3. m_activeFrameIds' \in [Ranks -> Nat]
    <3>1. m_activeFrameIds' = [r \in Ranks |->
            IF m.command = "stackTrace" /\ \E e \in hits : e.tag = r
            THEN m.frame ELSE m_activeFrameIds[r]]
      BY <1>2 DEF HandleAnswer
    <3> HIDE DEF hits
    <3> QED BY <2>1, <3>1 DEF TypeOK
  <2>4. requests' \subseteq Entry
    BY <1>2 DEF HandleAnswer, TypeOK
  <2> QED BY <1>0, <1>2, <2>2, <2>3, <2>4 DEF HandleAnswer, TypeOK
<1>3. CASE HandleInitialized(m)
  <2>1. Flush \in Seq(Body)
    <3>1. Plain("configurationDone") \in Body /\ SetBreakpoints(m_breakpoints) \in Body
      BY PlainBody, SetBreakpointsBody DEF Commands, Controls, TypeOK
    <3> QED BY <3>1 DEF Flush
  <2>2. SendAll(m_state, Flush)
    BY <1>3 DEF HandleInitialized
  <2> QED BY <1>0, <1>3, <2>1, <2>2, SendAllType
          DEF HandleInitialized, TypeOK, SessionStates
<1>4. CASE HandleStopped(m)
  <2>1. RankOf(m.thread) \in Ranks
    BY <1>4, StoppedRank
  <2>2. RecordAndSend("Paused", "stackTrace", RankOf(m.thread))
    BY <1>4 DEF HandleStopped
  <2>3. RankOf(m.thread) \in Tags /\ "stackTrace" \in RequestMaps \ {"heatmap"}
    BY <2>1 DEF Tags, RequestMaps
  <2>4. /\ requests' \subseteq Entry
        /\ m_sequenceNumber' \in Nat \ {0}
        /\ stdin' \in Seq(Request)
        /\ asked' \subseteq [seq : Nat, map : RequestMaps \cup {"none"}, tag : Tags,
                             written : BOOLEAN]
    BY <2>1, <2>2, <2>3, RecordAndSendType
  <2> QED BY <1>0, <1>4, <2>4
          DEF HandleStopped, TypeOK, SessionStates
<1>5. CASE HandleBanner(m)
  <2>1. m.job \in Nat
    BY <1>0, <1>5 DEF HandleBanner, Event, Messages
  <2> QED BY <1>0, <1>5, <2>1 DEF HandleBanner, TypeOK, SessionStates
<1>6. CASE HandleProcessEvent(m)
  <2>1. m.pid \in Nat
    BY <1>0, <1>6 DEF HandleProcessEvent, Event, Messages
  <2> QED BY <1>0, <1>6, <2>1 DEF HandleProcessEvent, TypeOK
<1> QED BY <1>1, <1>2, <1>3, <1>4, <1>5, <1>6 DEF HandleMessage

(* Spending a bound keeps `spent` a function of naturals. *)
LEMMA SpendType ==
  ASSUME TypeOK, NEW what \in DOMAIN Bounds, Spend(what)
  PROVE  spent' \in [DOMAIN Bounds -> Nat] /\ spent'[what] \in Nat
BY DEF TypeOK, Spend

(* The methods the views call keep the types. *)
LEMMA ViewsType ==
  ASSUME TypeOK, Views
  PROVE  TypeOK'
<1> USE DEF sessionVars, requestVars, targetVars, cacheVars, slurmVars
<1>0. \A what \in {"asks", "toggles", "terminates"} : what \in DOMAIN Bounds
  BY DEF Bounds
<1>1. CASE LaunchParallelSession
  BY <1>1 DEF LaunchParallelSession, TypeOK, SessionStates
<1>2. CASE Control
  <2>1. Plain("continue") \in Body
    BY PlainBody DEF Commands, Controls
  <2>2. Send(m_state, Plain("continue")) /\ Spend("asks")
    BY <1>2 DEF Control
  <2> QED BY <1>0, <1>2, <2>1, <2>2, SendType, SpendType DEF Control, TypeOK
<1>3. ASSUME NEW map \in AskMaps \ {"heatmap"}, NEW t \in Asks, Ask(map, t)
      PROVE  TypeOK'
  <2>1. map \in RequestMaps \ {"heatmap", "stackTrace"} /\ t \in Tags
    BY DapAssumption DEF Tags
  <2>2. RecordAndSend(m_state, map, t) /\ Spend("asks")
    BY <1>3 DEF Ask
  <2> QED BY <1>0, <1>3, <2>1, <2>2, RecordAndSendType, SpendType DEF Ask, TypeOK
<1>4. ASSUME NEW t \in Asks, RequestHeatmapRender(t)
      PROVE  TypeOK'
  <2> DEFINE msg == [command |-> "evaluate", map |-> "heatmap", tag |-> t, lines |-> {}]
  <2>1. msg \in Body
    BY DEF Body, Commands, RequestMaps, Tags
  <2>2. Send(m_state, msg) /\ Spend("asks")
    BY <1>4 DEF RequestHeatmapRender
  <2>3. requests' \subseteq Entry
    <3>1. Recorded("heatmap", m_sequenceNumber, t) \subseteq Entry
      BY RecordedType DEF RequestMaps, Tags
    <3> QED BY <1>4, <3>1 DEF RequestHeatmapRender, TypeOK
  <2> HIDE DEF msg
  <2> QED BY <1>0, <1>4, <2>1, <2>2, <2>3, SendType, SpendType
          DEF RequestHeatmapRender, TypeOK
<1>5. ASSUME NEW line \in Lines, ToggleBreakpoint(line)
      PROVE  TypeOK'
  <2> DEFINE lines == IF line \in m_breakpoints THEN m_breakpoints \ {line}
                                                ELSE m_breakpoints \cup {line}
  <2>1. lines \in SUBSET Lines
    BY DEF TypeOK
  <2>2. /\ Send(m_state, SetBreakpoints(lines)) /\ Spend("toggles")
        /\ m_breakpoints' = lines
    BY <1>5 DEF ToggleBreakpoint
  <2> HIDE DEF lines
  <2>3. SetBreakpoints(lines) \in Body
    BY <2>1, SetBreakpointsBody
  <2> QED BY <1>0, <1>5, <2>1, <2>2, <2>3, SendType, SpendType
          DEF ToggleBreakpoint, TypeOK
<1>6. CASE TerminateSession
  <2>1. Plain("disconnect") \in Body
    BY PlainBody DEF Commands, Controls
  <2>2. Send("Terminating", Plain("disconnect")) /\ Spend("terminates")
    BY <1>6 DEF TerminateSession
  <2> QED BY <1>0, <1>6, <2>1, <2>2, SendType, SpendType
          DEF TerminateSession, Cancel, TypeOK, SessionStates
<1> QED BY <1>1, <1>2, <1>3, <1>4, <1>5, <1>6 DEF Views

(* The signals of QProcess keep the types. *)
LEMMA ProcessSignalsType ==
  ASSUME TypeOK, ProcessSignals
  PROVE  TypeOK'
<1> USE DEF sessionVars, requestVars, targetVars, cacheVars, slurmVars
<1>1. CASE ProcessStarted
  <2>1. Plain("initialize") \in Body
    BY PlainBody DEF Commands, Controls
  <2>2. Send("Running", Plain("initialize"))
    BY <1>1 DEF ProcessStarted
  <2> QED BY <1>1, <2>1, <2>2, SendType DEF ProcessStarted, TypeOK, SessionStates
<1>2. CASE ProcessFailedToStart
  BY <1>2 DEF ProcessFailedToStart, AdapterGone, TypeOK, SessionStates
<1>3. CASE ProcessFinished
  BY <1>3 DEF ProcessFinished, AdapterGone, TypeOK, SessionStates
<1>4. CASE TransportError
  <2>1. Spend("errors") /\ "errors" \in DOMAIN Bounds
    BY <1>4 DEF TransportError, Bounds
  <2> QED BY <1>4, <2>1, SpendType DEF TransportError, TypeOK, SessionStates
<1> QED BY <1>1, <1>2, <1>3, <1>4 DEF ProcessSignals

(* The answer to a well-typed request is a well-typed message. *)
LEMMA ReplyType ==
  ASSUME TypeOK, NEW r \in Request
  PROVE  Reply(r) \in Messages
<1>1. (IF r.command = "stackTrace" THEN topFrame[r.tag] ELSE 0) \in Nat
  BY DEF TypeOK, Request
<1>2. r.command \in Commands /\ r.seq \in Nat /\ r.map \in RequestMaps \cup {"none"}
        /\ r.tag \in Tags
  BY DEF Request
<1> QED BY <1>1, <1>2 DEF Reply, Messages

(* What the adapter and the target do keeps the types. *)
LEMMA AdapterType ==
  ASSUME TypeOK, Adapter
  PROVE  TypeOK'
<1> USE DEF sessionVars, requestVars, targetVars, cacheVars, slurmVars
<1>0. stdin # <<>> => Head(stdin) \in Request /\ Tail(stdin) \in Seq(Request)
  BY DEF TypeOK
<1>1. CASE AdapterObeys
  <2> DEFINE r == Head(stdin)
  <2>1. r \in Request /\ Tail(stdin) \in Seq(Request)
    BY <1>0, <1>1 DEF AdapterObeys
  <2>2. Reply(r) \in Messages
    BY <2>1, ReplyType
  <2>3. LaunchEvents \subseteq Messages
    BY DEF LaunchEvents, Messages, TypeOK
  <2>4. pool' = pool \cup (CASE r.command = "initialize" -> {Reply(r)}
                            [] r.command = "launch" /\ phase = "new" -> LaunchEvents
                            [] OTHER -> {})
    BY <1>1 DEF AdapterObeys
  <2>5. pool' \subseteq Messages
    BY <2>2, <2>3, <2>4 DEF TypeOK
  <2>6. adapterBps' \subseteq Lines
    BY <1>1, <2>1 DEF AdapterObeys, TypeOK, Request
  <2>7. phase' \in {"none", "new", "launched", "running", "stopped", "over", "exiting",
                    "killed"}
    BY <1>1 DEF AdapterObeys, AfterControl, TypeOK
  <2> QED BY <1>1, <2>1, <2>5, <2>6, <2>7 DEF AdapterObeys, TypeOK
<1>2. CASE AdapterAnswers
  <2>1. Head(stdin) \in Request /\ Tail(stdin) \in Seq(Request)
    BY <1>0, <1>2 DEF AdapterAnswers
  <2>2. Reply(Head(stdin)) \in Messages
    BY <2>1, ReplyType
  <2> QED BY <1>2, <2>1, <2>2 DEF AdapterAnswers, TypeOK
<1>3. ASSUME NEW r \in Ranks, TargetStops(r)
      PROVE  TypeOK'
  <2>1. Spend("stops") /\ "stops" \in DOMAIN Bounds
    BY <1>3 DEF TargetStops, Bounds
  <2>2. spent' \in [DOMAIN Bounds -> Nat] /\ spent'.stops \in Nat
    BY <2>1, SpendType
  <2>3. [type |-> "event", event |-> "stopped", thread |-> r + 1, no |-> spent'.stops]
          \in Messages
    BY <2>2 DEF Messages
  <2>4. topFrame' \in [Ranks -> Nat]
    BY <1>3, <2>2 DEF TargetStops, TypeOK
  <2> QED BY <1>3, <2>2, <2>3, <2>4 DEF TargetStops, TypeOK
<1>4. CASE TargetPrintsBanner
  <2>1. Spend("banners") /\ "banners" \in DOMAIN Bounds
    BY <1>4 DEF TargetPrintsBanner, Bounds
  <2>2. spent' \in [DOMAIN Bounds -> Nat] /\ spent'.banners \in Nat
    BY <2>1, SpendType
  <2>3. [type |-> "event", event |-> "output", job |-> spent'.banners] \in Messages
    BY <2>2 DEF Messages
  <2> QED BY <1>4, <2>2, <2>3 DEF TargetPrintsBanner, TypeOK
<1>5. CASE TargetExits
  <2>1. Spend("exits") /\ "exits" \in DOMAIN Bounds
    BY <1>5 DEF TargetExits, Bounds
  <2> QED BY <1>5, <2>1, SpendType DEF TargetExits, TypeOK
<1> QED BY <1>1, <1>2, <1>3, <1>4, <1>5 DEF Adapter

(* The types are an invariant of the session, whatever the bounds: no      *)
(* order of messages, crashes and restarts puts a foreign value in a field.*)
THEOREM TypeCorrect == Spec => []TypeOK
<1>1. TypeOK /\ [Next]_vars => TypeOK'
  <2> SUFFICES ASSUME TypeOK, [Next]_vars PROVE TypeOK'
    OBVIOUS
  <2>1. CASE Views
    BY <2>1, ViewsType
  <2>2. CASE TerminateReturns
    BY <2>2 DEF TerminateReturns, TypeOK, SessionStates, requestVars, cacheVars
  <2>3. CASE ProcessSignals
    BY <2>3, ProcessSignalsType
  <2>4. CASE \E m \in pool : HandleMessage(m)
    BY <2>4, HandleMessageType
  <2>5. CASE Adapter
    BY <2>5, AdapterType
  <2>6. CASE UNCHANGED vars
    BY <2>6 DEF vars, sessionVars, requestVars, targetVars, cacheVars, slurmVars, TypeOK
  <2> QED BY <2>1, <2>2, <2>3, <2>4, <2>5, <2>6 DEF Next
<1> QED BY <1>1, InitType, PTL DEF Spec

-----------------------------------------------------------------------------
(* Correlation: the inductive invariant behind AttributionSound and        *)
(* NoDoubleAnswer.                                                         *)

(* What an accepted send adds to the log and to the adapter's input.       *)
LEMMA SendAccepted ==
  ASSUME TypeOK, NEW st, NEW msgs \in Seq(Body), SendAll(st, msgs),
         Accepts(st, msgs[1].command)
  PROVE  /\ m_sequenceNumber' = m_sequenceNumber + Len(msgs)
         /\ asked \subseteq asked'
         /\ \A i \in 1..Len(msgs) :
              Logged(st, Numbered(m_sequenceNumber + i - 1, msgs[i])) \in asked'
         /\ \A a \in asked' : \/ a \in asked
                              \/ \E i \in 1..Len(msgs) :
                                   a = Logged(st, Numbered(m_sequenceNumber + i - 1, msgs[i]))
         /\ \A j \in 1..Len(stdin') :
              \/ j \in 1..Len(stdin) /\ stdin'[j] = stdin[j]
              \/ \E i \in 1..Len(msgs) :
                   j = Len(stdin) + i /\ stdin'[j] = Numbered(m_sequenceNumber + i - 1, msgs[i])
<1> DEFINE num(i) == Numbered(m_sequenceNumber + i - 1, msgs[i])
           rs == [i \in 1..Len(msgs) |-> num(i)]
<1>1. /\ m_sequenceNumber' = m_sequenceNumber + Len(msgs)
      /\ stdin' = IF Writes(st) THEN stdin \o rs ELSE stdin
      /\ asked' = asked \cup {Logged(st, rs[i]) : i \in 1..Len(msgs)}
  BY DEF SendAll
<1>2. \A i \in 1..Len(msgs) : rs[i] = num(i)
  OBVIOUS
<1>3. rs \in Seq({num(i) : i \in 1..Len(msgs)}) /\ Len(rs) = Len(msgs) /\ Len(msgs) \in Nat
  OBVIOUS
<1>4. stdin \in Seq(Request) /\ Len(stdin) \in Nat
  BY DEF TypeOK
<1> HIDE DEF num, rs
<1>5. \A j \in 1..Len(stdin') :
        \/ j \in 1..Len(stdin) /\ stdin'[j] = stdin[j]
        \/ \E i \in 1..Len(msgs) : j = Len(stdin) + i /\ stdin'[j] = num(i)
  <2>1. CASE Writes(st)
    <3>1. stdin' = stdin \o rs
      BY <1>1, <2>1
    <3> SUFFICES ASSUME NEW j \in 1..Len(stdin'), j \notin 1..Len(stdin)
                 PROVE  \E i \in 1..Len(msgs) : j = Len(stdin) + i /\ stdin'[j] = num(i)
      BY <3>1, <1>3, <1>4
    <3>2. j - Len(stdin) \in 1..Len(msgs) /\ stdin'[j] = rs[j - Len(stdin)]
      BY <3>1, <1>3, <1>4
    <3> QED BY <3>2, <1>2, <1>4
  <2> QED BY <2>1, <1>1
<1>6. asked' = asked \cup {Logged(st, num(i)) : i \in 1..Len(msgs)}
  BY <1>1, <1>2
<1> QED BY <1>1, <1>5, <1>6 DEF num

(* A request's command tells its map, up to the heatmaps. *)
WellPaired(r) ==
  IF r.map = "none" THEN r.command \in Controls
  ELSE r.command = IF r.map = "heatmap" THEN "evaluate" ELSE r.map

(* What a step that sends may do to the request maps: it overwrites the    *)
(* entry for the number about to be taken, in the map of what it sends.    *)
RecordsOnly(msg, accepted) ==
  /\ \A e \in requests' :
       \/ e \in requests /\ (e.map # msg.map \/ e.seq # m_sequenceNumber)
       \/ e.map = msg.map /\ e.seq = m_sequenceNumber /\ e.tag = msg.tag
  /\ \A e \in requests : e.seq # m_sequenceNumber => e \in requests'
  /\ msg.map = "heatmap" =>
       IF accepted THEN \E e \in requests' : e.map = "heatmap" /\ e.seq = m_sequenceNumber
       ELSE requests' = requests

(* Sending keeps the correlation. *)
LEMMA SendKeeps ==
  ASSUME TypeOK, Correlation, NEW st, NEW msgs \in Seq(Body), Len(msgs) >= 1,
         \A i \in 1..Len(msgs) : WellPaired(msgs[i]),
         \A i \in 2..Len(msgs) : msgs[i].map = "none",
         SendAll(st, msgs), RecordsOnly(msgs[1], Accepts(st, msgs[1].command)),
         requests' \subseteq Entry,
         Answers' \subseteq Answers, told' = told
  PROVE  Correlation'
<1> DEFINE n == m_sequenceNumber
           num(i) == Numbered(n + i - 1, msgs[i])
<1>0. n \in Nat \ {0} /\ stdin \in Seq(Request) /\ Len(stdin) \in Nat /\ Len(msgs) \in Nat
  BY DEF TypeOK
<1>1. \A a \in asked : a.seq \in Nat /\ a.seq < n
  BY DEF Correlation, NumbersUnique, TypeOK
<1>2. \A e \in requests : e.seq \in Nat /\ e.seq <= n /\ e.map # "none"
  BY DEF Correlation, EntriesRight, TypeOK, Entry, RequestMaps
<1>3. \A e \in requests : e.map = "heatmap" => e.seq < n
  BY <1>1 DEF Correlation, EntriesRight
<1>4. \A r \in InFlight : r.seq \in Nat /\ r.seq < n
  BY <1>1 DEF Correlation, FlightGenuine
<1>5. \A a \in told : a.seq \in Nat /\ a.seq < n
  BY <1>1 DEF Correlation, TellingsGenuine
<1>6. CASE ~Accepts(st, msgs[1].command)
  <2>1. UNCHANGED <<m_sequenceNumber, stdin, asked>>
    BY <1>6 DEF SendAll
  <2>2. InFlight' \subseteq InFlight /\ Unread' = Unread
    BY <2>1 DEF InFlight, Unread
  <2>3. NumbersUnique'
    BY <2>1 DEF Correlation, NumbersUnique
  <2>4. FlightGenuine'
    BY <2>1, <2>2 DEF Correlation, FlightGenuine
  <2>5. FlightOnce'
    BY <2>1, <2>2 DEF Correlation, FlightOnce
  <2>6. EntriesRight'
    <3>1. \A e \in requests' : e.seq <= m_sequenceNumber'
      BY <1>0, <1>2, <2>1 DEF RecordsOnly
    <3>2. \A e \in requests', a \in asked' : e.seq = a.seq /\ e.map = a.map => e.tag = a.tag
      BY <1>0, <1>1, <2>1 DEF RecordsOnly, Correlation, EntriesRight
    <3>3. \A e \in requests' : e.map = "heatmap" =>
            \E a \in asked' : a.seq = e.seq /\ a.map = "heatmap"
      BY <1>6, <2>1 DEF RecordsOnly, Correlation, EntriesRight
    <3>4. \A r \in InFlight' : r.map = "heatmap" =>
            \E e \in requests' : e.map = "heatmap" /\ e.seq = r.seq
      <4> SUFFICES ASSUME NEW r \in InFlight', r.map = "heatmap"
                   PROVE  \E e \in requests' : e.map = "heatmap" /\ e.seq = r.seq
        OBVIOUS
      <4>1. PICK e \in requests : e.map = "heatmap" /\ e.seq = r.seq
        BY <2>2 DEF Correlation, EntriesRight
      <4>2. e.seq # m_sequenceNumber
        BY <4>1, <1>0, <1>2, <1>3
      <4> QED BY <4>1, <4>2 DEF RecordsOnly
    <3> QED BY <3>1, <3>2, <3>3, <3>4 DEF EntriesRight
  <2>7. TellingsGenuine'
    BY <2>1 DEF Correlation, TellingsGenuine
  <2> QED BY <2>3, <2>4, <2>5, <2>6, <2>7 DEF Correlation
<1>7. CASE Accepts(st, msgs[1].command)
  <2>1. /\ m_sequenceNumber' = n + Len(msgs)
        /\ asked \subseteq asked'
        /\ \A i \in 1..Len(msgs) : Logged(st, num(i)) \in asked'
        /\ \A a \in asked' : a \in asked \/ \E i \in 1..Len(msgs) : a = Logged(st, num(i))
        /\ \A j \in 1..Len(stdin') :
             \/ j \in 1..Len(stdin) /\ stdin'[j] = stdin[j]
             \/ \E i \in 1..Len(msgs) : j = Len(stdin) + i /\ stdin'[j] = num(i)
    BY <1>7, SendAccepted
  <2>2. \A i \in 1..Len(msgs) :
          /\ num(i).seq = n + i - 1 /\ num(i).map = msgs[i].map /\ num(i).tag = msgs[i].tag
          /\ num(i).command = msgs[i].command
    BY DEF Numbered
  <2>3. \A i \in 1..Len(msgs) :
          /\ Logged(st, num(i)).seq = n + i - 1
          /\ Logged(st, num(i)).map = msgs[i].map
          /\ Logged(st, num(i)).tag = msgs[i].tag
    BY <2>2 DEF Logged
  <2> HIDE DEF num
  <2>4. \A r \in Unread' : r \in Unread \/ \E i \in 1..Len(msgs) : r = num(i)
    BY <2>1 DEF Unread
  <2>5. \A r \in InFlight' : r \in InFlight \/ \E i \in 1..Len(msgs) : r = num(i)
    BY <2>4 DEF InFlight
  <2>6. NumbersUnique'
    <3>1. \A a \in asked' : a.seq < m_sequenceNumber'
      BY <1>0, <1>1, <2>1, <2>3
    <3>2. ASSUME NEW a \in asked', NEW b \in asked', a.seq = b.seq
          PROVE  a = b
      <4>1. CASE a \in asked /\ b \in asked
        BY <3>2, <4>1 DEF Correlation, NumbersUnique
      <4>2. \A c \in asked' : c \notin asked =>
              \E i \in 1..Len(msgs) : c = Logged(st, num(i)) /\ c.seq = n + i - 1
        BY <2>1, <2>3
      <4>3. \A c \in asked' : c \notin asked => c.seq \in Nat /\ c.seq >= n
        BY <1>0, <4>2
      <4>4. CASE a \notin asked /\ b \notin asked
        <5>1. PICK i \in 1..Len(msgs) : a = Logged(st, num(i)) /\ a.seq = n + i - 1
          BY <4>2, <4>4
        <5>2. PICK j \in 1..Len(msgs) : b = Logged(st, num(j)) /\ b.seq = n + j - 1
          BY <4>2, <4>4
        <5>3. i = j
          BY <1>0, <3>2, <5>1, <5>2
        <5> QED BY <5>1, <5>2, <5>3
      <4>5. CASE a \in asked /\ b \notin asked
        <5>1. a.seq \in Nat /\ a.seq < n /\ b.seq \in Nat /\ b.seq >= n
          BY <1>1, <4>3, <4>5
        <5> QED BY <1>0, <3>2, <5>1
      <4>6. CASE a \notin asked /\ b \in asked
        <5>1. b.seq \in Nat /\ b.seq < n /\ a.seq \in Nat /\ a.seq >= n
          BY <1>1, <4>3, <4>6
        <5> QED BY <1>0, <3>2, <5>1
      <4> QED BY <4>1, <4>4, <4>5, <4>6
    <3> QED BY <3>1, <3>2 DEF NumbersUnique
  <2>7. FlightGenuine'
    <3> SUFFICES ASSUME NEW r \in InFlight'
                 PROVE  /\ \E a \in asked' : a.seq = r.seq /\ a.map = r.map /\ a.tag = r.tag
                        /\ WellPaired(r)
      BY DEF FlightGenuine, WellPaired
    <3>1. CASE r \in InFlight
      BY <3>1, <2>1 DEF Correlation, FlightGenuine, WellPaired
    <3>2. ASSUME NEW i \in 1..Len(msgs), r = num(i)
          PROVE  /\ \E a \in asked' : a.seq = r.seq /\ a.map = r.map /\ a.tag = r.tag
                 /\ WellPaired(r)
      <4>1. r.seq = Logged(st, num(i)).seq /\ r.map = Logged(st, num(i)).map
              /\ r.tag = Logged(st, num(i)).tag /\ Logged(st, num(i)) \in asked'
        BY <3>2, <2>1, <2>2, <2>3
      <4>2. WellPaired(msgs[i]) /\ r.map = msgs[i].map /\ r.command = msgs[i].command
        BY <3>2, <2>2
      <4> QED BY <4>1, <4>2 DEF WellPaired
    <3> QED BY <3>1, <3>2, <2>5
  <2>8. FlightOnce'
    <3>1. \A i, j \in 1..Len(stdin)' : stdin'[i].seq = stdin'[j].seq => i = j
      <4>1. \A j \in 1..Len(stdin) : stdin[j].seq < n
        BY <1>4 DEF InFlight, Unread
      <4>2. \A i \in 1..Len(msgs) : num(i).seq \in Nat /\ ~(num(i).seq < n)
        <5> SUFFICES ASSUME NEW i \in 1..Len(msgs)
                     PROVE  num(i).seq \in Nat /\ ~(num(i).seq < n)
          OBVIOUS
        <5>1. num(i).seq = n + i - 1
          BY <2>2
        <5> HIDE DEF n
        <5> QED BY <5>1, <1>0
      <4>3. \A i, j \in 1..Len(msgs) : num(i).seq = num(j).seq => i = j
        BY <2>2, <1>0
      <4>4. \A j \in 1..Len(stdin) : stdin[j].seq \in Nat
        BY <1>4 DEF InFlight, Unread
      <4> SUFFICES ASSUME NEW i \in 1..Len(stdin'), NEW j \in 1..Len(stdin'),
                          stdin'[i].seq = stdin'[j].seq
                   PROVE  i = j
        OBVIOUS
      <4>5. CASE i \in 1..Len(stdin) /\ stdin'[i] = stdin[i]
        <5>1. stdin'[j].seq < n
          BY <4>1, <4>5
        <5>2. \A k \in 1..Len(msgs) : stdin'[j] # num(k)
          BY <4>2, <5>1
        <5>3. stdin'[j] = stdin[j] /\ j \in 1..Len(stdin)
          BY <5>2, <2>1
        <5> QED BY <5>3, <4>5 DEF Correlation, FlightOnce
      <4>6. ASSUME NEW k \in 1..Len(msgs), i = Len(stdin) + k, stdin'[i] = num(k)
            PROVE  i = j
        <5>1. PICK l \in 1..Len(msgs) : j = Len(stdin) + l /\ stdin'[j] = num(l)
          <6>1. ~(stdin'[j].seq < n)
            BY <4>2, <4>6
          <6>2. ~(j \in 1..Len(stdin) /\ stdin'[j] = stdin[j])
            BY <6>1, <4>1
          <6> QED BY <6>2, <2>1
        <5> QED BY <5>1, <4>6, <4>3
      <4> QED BY <4>5, <4>6, <2>1
    <3>2. \A m, k \in Answers' : m.seq = k.seq => m = k
      BY DEF Correlation, FlightOnce
    <3>3. \A m \in Answers', r \in Unread' : m.seq # r.seq
      BY <1>0, <1>4, <2>2, <2>4 DEF Correlation, FlightOnce, InFlight
    <3>4. \A a \in told', r \in InFlight' : a.seq # r.seq
      BY <1>0, <1>5, <2>2, <2>5 DEF Correlation, FlightOnce
    <3> QED BY <3>1, <3>2, <3>3, <3>4 DEF FlightOnce
  <2>9. EntriesRight'
    <3>1. \A e \in requests' : e.seq <= m_sequenceNumber'
      BY <1>0, <1>2, <2>1 DEF RecordsOnly
    <3>2. \A e \in requests', a \in asked' : e.seq = a.seq /\ e.map = a.map => e.tag = a.tag
      <4> SUFFICES ASSUME NEW e \in requests', NEW a \in asked', e.seq = a.seq, e.map = a.map
                   PROVE  e.tag = a.tag
        OBVIOUS
      <4>1. CASE a \in asked
        BY <4>1, <1>0, <1>1 DEF RecordsOnly, Correlation, EntriesRight
      <4>2. ASSUME NEW i \in 1..Len(msgs), a = Logged(st, num(i))
            PROVE  e.tag = a.tag
        <5>1. a.map # "none"
          BY DEF Entry, RequestMaps
        <5>2. i = 1
          <6>1. msgs[i].map # "none"
            BY <4>2, <5>1, <2>3
          <6> QED BY <6>1, <1>0
        <5>3. a.seq = n /\ a.map = msgs[1].map /\ a.tag = msgs[1].tag
          BY <4>2, <5>2, <2>3, <1>0
        <5> QED BY <5>3 DEF RecordsOnly
      <4> QED BY <4>1, <4>2, <2>1
    <3>3. \A e \in requests' : e.map = "heatmap" =>
            \E a \in asked' : a.seq = e.seq /\ a.map = "heatmap"
      <4> SUFFICES ASSUME NEW e \in requests', e.map = "heatmap"
                   PROVE  \E a \in asked' : a.seq = e.seq /\ a.map = "heatmap"
        OBVIOUS
      <4>1. CASE e \in requests
        BY <4>1, <2>1 DEF Correlation, EntriesRight
      <4>2. CASE e.map = msgs[1].map /\ e.seq = n
        <5>1. Logged(st, num(1)).seq = n /\ Logged(st, num(1)).map = "heatmap"
          BY <4>2, <2>3, <1>0
        <5> QED BY <5>1, <4>2, <2>1, <1>0
      <4> QED BY <4>1, <4>2 DEF RecordsOnly
    <3>4. \A r \in InFlight' : r.map = "heatmap" =>
            \E e \in requests' : e.map = "heatmap" /\ e.seq = r.seq
      <4> SUFFICES ASSUME NEW r \in InFlight', r.map = "heatmap"
                   PROVE  \E e \in requests' : e.map = "heatmap" /\ e.seq = r.seq
        OBVIOUS
      <4>1. CASE r \in InFlight
        <5>1. PICK e \in requests : e.map = "heatmap" /\ e.seq = r.seq
          BY <4>1 DEF Correlation, EntriesRight
        <5>2. e.seq # m_sequenceNumber
          BY <5>1, <1>0, <1>2, <1>3
        <5> QED BY <5>1, <5>2 DEF RecordsOnly
      <4>2. ASSUME NEW i \in 1..Len(msgs), r = num(i)
            PROVE  \E e \in requests' : e.map = "heatmap" /\ e.seq = r.seq
        <5>1. i = 1
          <6>1. msgs[i].map # "none"
            BY <4>2, <2>2
          <6> QED BY <6>1, <1>0
        <5>2. r.seq = n /\ msgs[1].map = "heatmap"
          BY <4>2, <5>1, <2>2, <1>0
        <5> QED BY <5>2, <1>7 DEF RecordsOnly
      <4> QED BY <4>1, <4>2, <2>5
    <3> QED BY <3>1, <3>2, <3>3, <3>4 DEF EntriesRight
  <2>10. TellingsGenuine'
    BY <2>1 DEF Correlation, TellingsGenuine
  <2> QED BY <2>6, <2>7, <2>8, <2>9, <2>10 DEF Correlation
<1> QED BY <1>6, <1>7


(* A step that takes nothing new leaves the correlation as it is: the      *)
(* adapter may lose its input, and the pool answers.                       *)
LEMMA FlightShrinks ==
  ASSUME Correlation, UNCHANGED <<asked, m_sequenceNumber, requests, told>>,
         stdin' = stdin \/ stdin' = <<>>, Answers' \subseteq Answers
  PROVE  Correlation'
<1>1. Unread' \subseteq Unread
  BY DEF Unread
<1>2. InFlight' \subseteq InFlight
  BY <1>1 DEF InFlight
<1>3. NumbersUnique'
  BY DEF Correlation, NumbersUnique
<1>4. FlightGenuine'
  BY <1>2 DEF Correlation, FlightGenuine
<1>5. FlightOnce'
  BY <1>1, <1>2 DEF Correlation, FlightOnce
<1>6. EntriesRight'
  BY <1>2 DEF Correlation, EntriesRight
<1>7. TellingsGenuine'
  BY DEF Correlation, TellingsGenuine
<1> QED BY <1>3, <1>4, <1>5, <1>6, <1>7 DEF Correlation

(* The adapter moves a request from its input to its answers, or drops it. *)
LEMMA AdapterReads ==
  ASSUME TypeOK, Correlation, UNCHANGED <<asked, m_sequenceNumber, requests, told>>,
         stdin # <<>>, stdin' = Tail(stdin),
         Answers' \subseteq Answers \cup {Reply(Head(stdin))}
  PROVE  Correlation'
<1> DEFINE h == Head(stdin)
<1>1. /\ Len(stdin) \in Nat \ {0} /\ h = stdin[1]
      /\ Len(stdin') = Len(stdin) - 1
      /\ \A i \in 1..Len(stdin') : stdin'[i] = stdin[i + 1]
  BY DEF TypeOK
<1>2. \A i \in 1..Len(stdin') : i + 1 \in 1..Len(stdin)
  BY <1>1
<1>3. h \in Unread /\ Unread' \subseteq Unread
  BY <1>1, <1>2 DEF Unread
<1>4. /\ Reply(h).seq = h.seq /\ Reply(h).map = h.map /\ Reply(h).tag = h.tag
      /\ Reply(h).command = h.command
  BY DEF Reply
<1> HIDE DEF h
<1>5. \A r \in InFlight' : r \in InFlight \/ r = Reply(h)
  BY <1>3 DEF InFlight, h
<1>6. NumbersUnique'
  BY DEF Correlation, NumbersUnique
<1>7. FlightGenuine'
  BY <1>3, <1>4, <1>5 DEF Correlation, FlightGenuine, InFlight
<1>8. FlightOnce'
  <2>1. \A i, j \in 1..Len(stdin)' : stdin'[i].seq = stdin'[j].seq => i = j
    BY <1>1, <1>2 DEF Correlation, FlightOnce
  <2>2. \A m, n \in Answers' : m.seq = n.seq => m = n
    BY <1>3, <1>4 DEF Correlation, FlightOnce, h
  <2>3. \A m \in Answers', r \in Unread' : m.seq # r.seq
    <3>1. \A r \in Unread' : r.seq # h.seq
      <4> SUFFICES ASSUME NEW i \in 1..Len(stdin')
                   PROVE  stdin'[i].seq # h.seq
        BY DEF Unread
      <4>1. stdin'[i] = stdin[i + 1] /\ i + 1 \in 1..Len(stdin) /\ i + 1 # 1
              /\ 1 \in 1..Len(stdin)
        BY <1>1, <1>2
      <4> QED BY <4>1, <1>1 DEF Correlation, FlightOnce
    <3> QED BY <3>1, <1>3, <1>4 DEF Correlation, FlightOnce, h
  <2>4. \A a \in told', r \in InFlight' : a.seq # r.seq
    BY <1>3, <1>4, <1>5 DEF Correlation, FlightOnce, InFlight
  <2> QED BY <2>1, <2>2, <2>3, <2>4 DEF FlightOnce
<1>9. EntriesRight'
  <2>1. \A r \in InFlight' : \E q \in InFlight : q.map = r.map /\ q.seq = r.seq
    BY <1>3, <1>4, <1>5 DEF InFlight
  <2> QED BY <2>1 DEF Correlation, EntriesRight
<1>10. TellingsGenuine'
  BY DEF Correlation, TellingsGenuine
<1> QED BY <1>6, <1>7, <1>8, <1>9, <1>10 DEF Correlation

(* An answer taken from the pool finds the entry of the question it        *)
(* answers, or none.                                                       *)
LEMMA MatchIsRight ==
  ASSUME TypeOK, Correlation, NEW m \in Answers, m.command \in RequestMaps,
         NEW e \in requests, Matches(e, m)
  PROVE  e.map = m.map /\ e.tag = m.tag
<1>1. m \in InFlight
  BY DEF InFlight
<1>2. PICK a \in asked : a.seq = m.seq /\ a.map = m.map /\ a.tag = m.tag
  BY <1>1 DEF Correlation, FlightGenuine
<1>3. m.map # "none" /\ m.command = IF m.map = "heatmap" THEN "evaluate" ELSE m.map
  BY <1>1 DEF Correlation, FlightGenuine, Controls, RequestMaps
<1>4. e.map = MapFor(m) /\ e.seq = m.seq
  BY DEF Matches
<1>5. e.map = m.map
  <2>1. CASE m.map = "heatmap"
    <3>1. \E f \in requests : f.map = "heatmap" /\ f.seq = m.seq
      BY <1>1, <2>1 DEF Correlation, EntriesRight
    <3> QED BY <1>3, <1>4, <2>1, <3>1 DEF MapFor
  <2>2. CASE m.map # "heatmap"
    <3>1. ~\E f \in requests : f.map = "heatmap" /\ f.seq = m.seq
      BY <1>2, <2>2 DEF Correlation, EntriesRight, NumbersUnique
    <3> QED BY <1>3, <1>4, <2>2, <3>1 DEF MapFor
  <2> QED BY <2>1, <2>2
<1> QED BY <1>2, <1>4, <1>5 DEF Correlation, EntriesRight

(* Telling a view its answer keeps the correlation. *)
LEMMA AnswerKeeps ==
  ASSUME TypeOK, Correlation, NEW m \in pool, HandleAnswer(m)
  PROVE  Correlation'
<1> DEFINE hits == {e \in requests : Matches(e, m)}
<1>1. /\ m \in Answers /\ pool' = pool \ {m} /\ m.command \in RequestMaps
      /\ UNCHANGED <<m_sequenceNumber, stdin, asked>>
      /\ requests' = requests \ hits
      /\ told' = told \cup {[seq |-> m.seq, map |-> e.map, tag |-> e.tag,
                             answersMap |-> m.map, answersTag |-> m.tag] : e \in hits}
  BY DEF HandleAnswer, Take, Answers
<1>2. m \in InFlight /\ Answers' = Answers \ {m} /\ Unread' = Unread
  BY <1>1 DEF InFlight, Answers, Unread, Response
<1>3. \A r \in InFlight' : r \in InFlight /\ r.seq # m.seq
  BY <1>1, <1>2 DEF InFlight, Correlation, FlightOnce
<1>4. \A e \in hits : e.seq = m.seq
  BY DEF Matches
<1>5. \A t \in told' :
        \/ t \in told
        \/ t.seq = m.seq /\ t.answersMap = m.map /\ t.answersTag = m.tag
  <2> HIDE DEF hits
  <2> QED BY <1>1
<1> HIDE DEF hits
<1>6. NumbersUnique'
  BY <1>1 DEF Correlation, NumbersUnique
<1>7. FlightGenuine'
  BY <1>1, <1>3 DEF Correlation, FlightGenuine
<1>8. FlightOnce'
  BY <1>1, <1>2, <1>3, <1>5 DEF Correlation, FlightOnce
<1>9. EntriesRight'
  BY <1>1, <1>3, <1>4 DEF Correlation, EntriesRight
<1>10. TellingsGenuine'
  BY <1>1, <1>2, <1>5 DEF Correlation, TellingsGenuine, FlightGenuine
<1> QED BY <1>6, <1>7, <1>8, <1>9, <1>10 DEF Correlation


(* Sends of plain requests, alone or in a row. *)
LEMMA PlainSendKeeps ==
  ASSUME TypeOK, Correlation, NEW st, NEW msgs \in Seq(Body), Len(msgs) >= 1,
         \A i \in 1..Len(msgs) : msgs[i].map = "none" /\ msgs[i].command \in Controls,
         SendAll(st, msgs), UNCHANGED <<requests, told>>, Answers' \subseteq Answers
  PROVE  Correlation'
<1>1. \A i \in 1..Len(msgs) : WellPaired(msgs[i])
  BY DEF WellPaired
<1>2. 1 \in 1..Len(msgs) /\ \A i \in 2..Len(msgs) : msgs[i].map = "none"
  OBVIOUS
<1>3. \A e \in requests : e.map # "none"
  BY DEF TypeOK, Entry, RequestMaps
<1>4. RecordsOnly(msgs[1], Accepts(st, msgs[1].command))
  BY <1>2, <1>3 DEF RecordsOnly
<1>5. requests' \subseteq Entry
  BY DEF TypeOK
<1> QED BY <1>1, <1>2, <1>4, <1>5, SendKeeps

(* Sending one control request keeps the correlation. *)
LEMMA ControlSendKeeps ==
  ASSUME TypeOK, Correlation, NEW st, NEW msg \in Body,
         msg.map = "none", msg.command \in Controls,
         Send(st, msg), UNCHANGED <<requests, told>>, Answers' \subseteq Answers
  PROVE  Correlation'
<1> DEFINE msgs == <<msg>>
<1>1. msgs \in Seq(Body) /\ Len(msgs) = 1 /\ msgs[1] = msg
  OBVIOUS
<1>2. SendAll(st, msgs)
  BY DEF Send
<1> HIDE DEF msgs
<1>3. \A i \in 1..Len(msgs) : msgs[i].map = "none" /\ msgs[i].command \in Controls
  BY <1>1
<1>4. Len(msgs) >= 1
  BY <1>1
<1> QED BY <1>1, <1>2, <1>3, <1>4, PlainSendKeeps

(* A question: recorded under the number it is about to take, then sent.   *)
LEMMA RecordAndSendKeeps ==
  ASSUME TypeOK, Correlation, NEW st, NEW map \in RequestMaps \ {"heatmap"},
         NEW t \in Tags, map = "stackTrace" => t \in Ranks,
         RecordAndSend(st, map, t), told' = told, Answers' \subseteq Answers
  PROVE  Correlation'
<1> DEFINE msg == [command |-> map, map |-> map, tag |-> t, lines |-> {}]
           msgs == <<msg>>
<1>1. msg \in Body /\ msg.map = map /\ msg.tag = t /\ msg.command = map
  BY DEF Body, Commands
<1>2. SendAll(st, msgs) /\ requests' = Recorded(map, m_sequenceNumber, t)
  BY DEF RecordAndSend, Send
<1>3. WellPaired(msg)
  BY <1>1 DEF WellPaired, RequestMaps
<1> HIDE DEF msg
<1>4. msgs \in Seq(Body) /\ Len(msgs) = 1 /\ msgs[1] = msg
  BY <1>1
<1> HIDE DEF msgs
<1>5. RecordsOnly(msg, Accepts(st, msg.command))
  BY <1>1, <1>2 DEF RecordsOnly, Recorded
<1>6. requests' \subseteq Entry
  BY <1>2, RecordedType
<1> QED BY <1>2, <1>3, <1>4, <1>5, <1>6, SendKeeps

(* requestHeatmapRender keeps the correlation: its entry is of the number
   its `evaluate` took, or of no number at all. *)
LEMMA HeatmapKeeps ==
  ASSUME TypeOK, Correlation, NEW t \in Asks, RequestHeatmapRender(t)
  PROVE  Correlation'
<1> DEFINE msg == [command |-> "evaluate", map |-> "heatmap", tag |-> t, lines |-> {}]
           msgs == <<msg>>
<1>1. msg \in Body /\ msg.map = "heatmap" /\ msg.tag = t /\ msg.command = "evaluate"
  BY DEF Body, Commands, RequestMaps, Tags
<1>2. /\ SendAll(m_state, msgs)
      /\ requests' = IF Accepts(m_state, "evaluate")
                     THEN Recorded("heatmap", m_sequenceNumber, t) ELSE requests
      /\ told' = told /\ pool' = pool
  BY DEF RequestHeatmapRender, Send
<1>3. WellPaired(msg)
  BY <1>1 DEF WellPaired
<1> HIDE DEF msg
<1>4. msgs \in Seq(Body) /\ Len(msgs) = 1 /\ msgs[1] = msg
  BY <1>1
<1> HIDE DEF msgs
<1>5. RecordsOnly(msg, Accepts(m_state, msg.command))
  <2>1. \A e \in requests : e.map = "heatmap" => e.seq # m_sequenceNumber
    BY DEF Correlation, EntriesRight, NumbersUnique, TypeOK, Entry
  <2>2. CASE Accepts(m_state, "evaluate")
    <3>1. requests' = {e \in requests : e.map # "heatmap" \/ e.seq # m_sequenceNumber}
                        \cup {[map |-> "heatmap", seq |-> m_sequenceNumber, tag |-> t]}
      BY <1>2, <2>2 DEF Recorded
    <3>2. [map |-> "heatmap", seq |-> m_sequenceNumber, tag |-> t] \in requests'
      BY <3>1
    <3>3. \E e \in requests' : e.map = "heatmap" /\ e.seq = m_sequenceNumber
      BY <3>2
    <3>4. \A e \in requests' :
            \/ e \in requests /\ (e.map # msg.map \/ e.seq # m_sequenceNumber)
            \/ e.map = msg.map /\ e.seq = m_sequenceNumber /\ e.tag = msg.tag
      BY <1>1, <3>1
    <3>5. \A e \in requests : e.seq # m_sequenceNumber => e \in requests'
      BY <3>1
    <3> QED BY <1>1, <2>2, <3>3, <3>4, <3>5 DEF RecordsOnly
  <2>3. CASE ~Accepts(m_state, "evaluate")
    <3>1. requests' = requests
      BY <1>2, <2>3
    <3> QED BY <1>1, <2>1, <2>3, <3>1 DEF RecordsOnly
  <2> QED BY <2>2, <2>3
<1>6. requests' \subseteq Entry
  BY <1>2, RecordedType DEF TypeOK, Tags, RequestMaps
<1>7. Answers' \subseteq Answers
  BY <1>2 DEF Answers
<1> QED BY <1>2, <1>3, <1>4, <1>5, <1>6, <1>7, SendKeeps

(* The methods the views call keep the correlation. *)
LEMMA ViewsKeep ==
  ASSUME TypeOK, Correlation, Views
  PROVE  Correlation'
<1> USE DEF sessionVars, requestVars, targetVars, cacheVars, slurmVars
<1>0. pool' = pool /\ Answers' = Answers
  <2>1. pool' = pool
    BY DEF Views, LaunchParallelSession, Control, Ask, RequestHeatmapRender,
           ToggleBreakpoint, TerminateSession
  <2> QED BY <2>1 DEF Answers
<1>1. CASE LaunchParallelSession
  BY <1>0, <1>1, FlightShrinks DEF LaunchParallelSession
<1>2. CASE Control
  <2>1. Plain("continue") \in Body /\ Plain("continue").map = "none"
          /\ Plain("continue").command \in Controls
    BY PlainBody DEF Commands, Controls, Plain
  <2> QED BY <1>0, <1>2, <2>1, ControlSendKeeps DEF Control
<1>3. ASSUME NEW map \in AskMaps \ {"heatmap"}, NEW t \in Asks, Ask(map, t)
      PROVE  Correlation'
  <2>1. map \in RequestMaps \ {"heatmap", "stackTrace"} /\ t \in Tags
    BY DapAssumption DEF Tags
  <2> QED BY <1>0, <1>3, <2>1, RecordAndSendKeeps DEF Ask
<1>4. ASSUME NEW t \in Asks, RequestHeatmapRender(t)
      PROVE  Correlation'
  BY <1>4, HeatmapKeeps
<1>5. ASSUME NEW line \in Lines, ToggleBreakpoint(line)
      PROVE  Correlation'
  <2> DEFINE lines == IF line \in m_breakpoints THEN m_breakpoints \ {line}
                                                ELSE m_breakpoints \cup {line}
  <2>1. lines \in SUBSET Lines
    BY DEF TypeOK
  <2>2. Send(m_state, SetBreakpoints(lines)) /\ UNCHANGED <<requests, told>>
    BY <1>5 DEF ToggleBreakpoint
  <2> HIDE DEF lines
  <2>3. SetBreakpoints(lines) \in Body /\ SetBreakpoints(lines).map = "none"
          /\ SetBreakpoints(lines).command \in Controls
    BY <2>1, SetBreakpointsBody DEF SetBreakpoints, Controls
  <2> QED BY <1>0, <2>2, <2>3, ControlSendKeeps
<1>6. CASE TerminateSession
  <2>1. Plain("disconnect") \in Body /\ Plain("disconnect").map = "none"
          /\ Plain("disconnect").command \in Controls
    BY PlainBody DEF Commands, Controls, Plain
  <2> QED BY <1>0, <1>6, <2>1, ControlSendKeeps DEF TerminateSession
<1> QED BY <1>1, <1>2, <1>3, <1>4, <1>5, <1>6 DEF Views

(* Every branch of handleMessage keeps the correlation. *)
LEMMA HandleMessageKeeps ==
  ASSUME TypeOK, Correlation, NEW m \in pool, HandleMessage(m)
  PROVE  Correlation'
<1> USE DEF sessionVars, requestVars, targetVars, cacheVars, slurmVars
<1>0. Answers' \subseteq Answers
  BY DEF HandleMessage, Take, HandleInitializeResponse, HandleAnswer, HandleInitialized,
         HandleStopped, HandleBanner, HandleProcessEvent, Answers
<1>1. CASE HandleInitializeResponse(m)
  <2>1. Plain("launch") \in Body /\ Plain("launch").map = "none"
          /\ Plain("launch").command \in Controls
    BY PlainBody DEF Commands, Controls, Plain
  <2> QED BY <1>0, <1>1, <2>1, ControlSendKeeps DEF HandleInitializeResponse
<1>2. CASE HandleAnswer(m)
  BY <1>2, AnswerKeeps
<1>3. CASE HandleInitialized(m)
  <2> DEFINE c == Plain("configurationDone")
             b == SetBreakpoints(m_breakpoints)
  <2>1. c \in Body /\ c.map = "none" /\ c.command \in Controls
    BY PlainBody DEF Controls, Plain
  <2>2. b \in Body /\ b.map = "none" /\ b.command \in Controls
    BY SetBreakpointsBody DEF TypeOK, SetBreakpoints, Controls
  <2>3. Flush = IF m_breakpoints = {} THEN <<c>> ELSE <<b, c>>
    BY DEF Flush
  <2> HIDE DEF b, c
  <2>4. /\ Flush \in Seq(Body) /\ Len(Flush) >= 1
        /\ \A i \in 1..Len(Flush) : Flush[i].map = "none" /\ Flush[i].command \in Controls
    BY <2>1, <2>2, <2>3
  <2> QED BY <1>0, <1>3, <2>4, PlainSendKeeps DEF HandleInitialized
<1>4. CASE HandleStopped(m)
  <2>1. RankOf(m.thread) \in Ranks
    BY <1>4, StoppedRank
  <2>2. RankOf(m.thread) \in Tags /\ "stackTrace" \in RequestMaps \ {"heatmap"}
    BY <2>1 DEF Tags, RequestMaps
  <2>3. RecordAndSend("Paused", "stackTrace", RankOf(m.thread)) /\ told' = told
    BY <1>4 DEF HandleStopped
  <2> QED BY <1>0, <2>1, <2>2, <2>3, RecordAndSendKeeps
<1>5. CASE HandleBanner(m)
  BY <1>0, <1>5, FlightShrinks DEF HandleBanner
<1>6. CASE HandleProcessEvent(m)
  BY <1>0, <1>6, FlightShrinks DEF HandleProcessEvent
<1> QED BY <1>1, <1>2, <1>3, <1>4, <1>5, <1>6 DEF HandleMessage

(* A start, a failure, an end or a pipe error of the adapter keeps the
   correlation. *)
LEMMA ProcessSignalsKeep ==
  ASSUME TypeOK, Correlation, ProcessSignals
  PROVE  Correlation'
<1> USE DEF sessionVars, requestVars, targetVars, cacheVars, slurmVars
<1>0. Answers' = Answers
  BY DEF ProcessSignals, ProcessStarted, ProcessFailedToStart, ProcessFinished,
         TransportError, Answers
<1>1. CASE ProcessStarted
  <2>1. Plain("initialize") \in Body /\ Plain("initialize").map = "none"
          /\ Plain("initialize").command \in Controls
    BY PlainBody DEF Commands, Controls, Plain
  <2> QED BY <1>0, <1>1, <2>1, ControlSendKeeps DEF ProcessStarted
<1>2. CASE ProcessFailedToStart
  BY <1>0, <1>2, FlightShrinks DEF ProcessFailedToStart, AdapterGone
<1>3. CASE ProcessFinished
  BY <1>0, <1>3, FlightShrinks DEF ProcessFinished, AdapterGone
<1>4. CASE TransportError
  BY <1>0, <1>4, FlightShrinks DEF TransportError
<1> QED BY <1>1, <1>2, <1>3, <1>4 DEF ProcessSignals

(* What the adapter and the target do keeps the correlation. *)
LEMMA AdapterKeeps ==
  ASSUME TypeOK, Correlation, Adapter
  PROVE  Correlation'
<1> USE DEF sessionVars, requestVars, targetVars, cacheVars, slurmVars
<1>1. CASE AdapterObeys
  <2>1. Answers' \subseteq Answers \cup {Reply(Head(stdin))}
    BY <1>1 DEF AdapterObeys, Answers, Response, LaunchEvents
  <2> QED BY <1>1, <2>1, AdapterReads DEF AdapterObeys
<1>2. CASE AdapterAnswers
  <2>1. Answers' \subseteq Answers \cup {Reply(Head(stdin))}
    BY <1>2 DEF AdapterAnswers, Answers
  <2> QED BY <1>2, <2>1, AdapterReads DEF AdapterAnswers
<1>3. ASSUME NEW r \in Ranks, TargetStops(r)
      PROVE  Correlation'
  <2>1. Answers' \subseteq Answers
    BY <1>3 DEF TargetStops, Answers, Response
  <2> QED BY <1>3, <2>1, FlightShrinks DEF TargetStops
<1>4. CASE TargetPrintsBanner
  <2>1. Answers' \subseteq Answers
    BY <1>4 DEF TargetPrintsBanner, Answers, Response
  <2> QED BY <1>4, <2>1, FlightShrinks DEF TargetPrintsBanner
<1>5. CASE TargetExits
  <2>1. Answers' \subseteq Answers
    BY <1>5 DEF TargetExits, Answers
  <2> QED BY <1>5, <2>1, FlightShrinks DEF TargetExits
<1> QED BY <1>1, <1>2, <1>3, <1>4, <1>5 DEF Adapter

(* Numbers, request maps and messages in flight agree in every state.      *)
THEOREM CorrelationHolds == Spec => []Correlation
<1>1. Init => Correlation
  BY DEF Init, Correlation, NumbersUnique, FlightGenuine, FlightOnce, EntriesRight,
         TellingsGenuine, InFlight, Unread, Answers
<1>2. TypeOK /\ Correlation /\ [Next]_vars => Correlation'
  <2> SUFFICES ASSUME TypeOK, Correlation, [Next]_vars PROVE Correlation'
    OBVIOUS
  <2>1. CASE Views
    BY <2>1, ViewsKeep
  <2>2. CASE TerminateReturns
    BY <2>2, FlightShrinks DEF TerminateReturns, requestVars, Answers
  <2>3. CASE ProcessSignals
    BY <2>3, ProcessSignalsKeep
  <2>4. CASE \E m \in pool : HandleMessage(m)
    BY <2>4, HandleMessageKeeps
  <2>5. CASE Adapter
    BY <2>5, AdapterKeeps
  <2>6. CASE UNCHANGED vars
    BY <2>6, FlightShrinks DEF vars, requestVars, Answers
  <2> QED BY <2>1, <2>2, <2>3, <2>4, <2>5, <2>6 DEF Next
<1> QED BY <1>1, <1>2, TypeCorrect, PTL DEF Spec

(* No number is answered twice, whatever crashed and restarted between.    *)
THEOREM NoDoubleAnswerHolds == Spec => []NoDoubleAnswer
<1>1. Correlation => NoDoubleAnswer
  BY DEF Correlation, FlightOnce, NoDoubleAnswer, InFlight, Answers
<1> QED BY <1>1, CorrelationHolds, PTL

(* Only HandleAnswer tells the views anything, and no step forgets what    *)
(* was asked.                                                              *)
LEMMA StepTells ==
  ASSUME TypeOK, [Next]_vars
  PROVE  \/ asked \subseteq asked' /\ told' = told
         \/ asked' = asked /\ \E m \in pool : HandleAnswer(m)
<1> USE DEF sessionVars, requestVars, targetVars, cacheVars, slurmVars
<1>0. \A st : \A msgs : SendAll(st, msgs) => asked \subseteq asked'
  BY DEF SendAll
<1>1. \A st : \A msg : Send(st, msg) => asked \subseteq asked'
  BY <1>0 DEF Send
<1>2. CASE Views
  BY <1>1, <1>2 DEF Views, LaunchParallelSession, Control, Ask, RequestHeatmapRender,
                    ToggleBreakpoint, TerminateSession, RecordAndSend
<1>3. CASE TerminateReturns
  BY <1>3 DEF TerminateReturns
<1>4. CASE ProcessSignals
  BY <1>1, <1>4 DEF ProcessSignals, ProcessStarted, ProcessFailedToStart,
                    ProcessFinished, TransportError, AdapterGone
<1>5. ASSUME NEW m \in pool, HandleMessage(m)
      PROVE  \/ asked \subseteq asked' /\ told' = told
             \/ asked' = asked /\ \E n \in pool : HandleAnswer(n)
  BY <1>0, <1>1, <1>5 DEF HandleMessage, HandleInitializeResponse, HandleInitialized,
       HandleStopped, HandleBanner, HandleProcessEvent, HandleAnswer, RecordAndSend
<1>6. CASE Adapter
  BY <1>6 DEF Adapter, AdapterObeys, AdapterAnswers, TargetStops,
              TargetPrintsBanner, TargetExits
<1>7. CASE UNCHANGED vars
  BY <1>7 DEF vars
<1> QED BY <1>2, <1>3, <1>4, <1>5, <1>6, <1>7 DEF Next

(* Answers reach the views that asked, whatever order they arrive in.      *)
THEOREM AttributionHolds == Spec => []AttributionSound
<1>1. Init => AttributionSound
  BY DEF Init, AttributionSound
<1>2. TypeOK /\ Correlation /\ AttributionSound /\ [Next]_vars => AttributionSound'
  <2> SUFFICES ASSUME TypeOK, Correlation, AttributionSound, [Next]_vars
               PROVE  AttributionSound'
    OBVIOUS
  <2>1. ASSUME NEW m \in pool, HandleAnswer(m)
        PROVE  AttributionSound'
    <3> DEFINE hits == {e \in requests : Matches(e, m)}
    <3>1. m \in Answers /\ m.command \in RequestMaps
      BY <2>1 DEF HandleAnswer, Answers
    <3>2. told' = told \cup {[seq |-> m.seq, map |-> e.map, tag |-> e.tag,
                             answersMap |-> m.map, answersTag |-> m.tag] : e \in hits}
      BY <2>1 DEF HandleAnswer
    <3>3. \A e \in hits : e.map = m.map /\ e.tag = m.tag
      BY <3>1, MatchIsRight
    <3> HIDE DEF hits
    <3> QED BY <3>2, <3>3 DEF AttributionSound
  <2>2. CASE told' = told
    BY <2>2 DEF AttributionSound
  <2> QED BY <2>1, <2>2, StepTells
<1> QED BY <1>1, <1>2, TypeCorrect, CorrelationHolds, PTL DEF Spec

(* The coordinator implements the ledger: each of its steps issues fresh   *)
(* numbers, answers one open question, or changes neither.                 *)
THEOREM LedgerKept == Spec => KeepsLedger
<1> DEFINE issued == {[seq |-> a.seq, kind |-> a.map, topic |-> a.tag] : a \in asked}
           answered == {[seq |-> a.seq, kind |-> a.map, topic |-> a.tag] : a \in told}
<1>1. Init => Ledger!Init
  BY DEF Init, Ledger!Init
<1>2. TypeOK /\ TypeOK' /\ Correlation /\ Correlation' /\ [Next]_vars
        => [Ledger!Next]_(Ledger!ledgerVars)
  <2> SUFFICES ASSUME TypeOK, TypeOK', Correlation, Correlation', [Next]_vars
               PROVE  Ledger!Next
    BY DEF Ledger!ledgerVars
  <2>1. CASE asked \subseteq asked' /\ told' = told
    <3>1. issued \subseteq issued' /\ answered' = answered
      BY <2>1
    <3>2. issued' \subseteq Ledger!Question
      BY DEF TypeOK, Ledger!Question
    <3>3. \A q \in issued' \ issued : \A r \in issued' : q.seq = r.seq => q = r
      <4> SUFFICES ASSUME NEW q \in issued', NEW r \in issued', q.seq = r.seq
                   PROVE  q = r
        OBVIOUS
      <4>1. PICK a \in asked' : q = [seq |-> a.seq, kind |-> a.map, topic |-> a.tag]
        OBVIOUS
      <4>2. PICK b \in asked' : r = [seq |-> b.seq, kind |-> b.map, topic |-> b.tag]
        OBVIOUS
      <4> QED BY <4>1, <4>2 DEF Correlation, NumbersUnique
    <3> QED BY <3>1, <3>2, <3>3 DEF Ledger!Next, Ledger!Issue
  <2>2. ASSUME asked' = asked, NEW m \in pool, HandleAnswer(m)
        PROVE  Ledger!Next
    <3> DEFINE hits == {e \in requests : Matches(e, m)}
               q == [seq |-> m.seq, kind |-> m.map, topic |-> m.tag]
               said(e) == [seq |-> m.seq, map |-> e.map, tag |-> e.tag,
                           answersMap |-> m.map, answersTag |-> m.tag]
    <3>1. m \in Answers /\ m.command \in RequestMaps
      BY <2>2 DEF HandleAnswer, Answers
    <3>2. told' = told \cup {said(e) : e \in hits}
      BY <2>2 DEF HandleAnswer
    <3>3. \A e \in hits : e.map = m.map /\ e.tag = m.tag
      BY <3>1, MatchIsRight
    <3>4. q \in issued
      <4>1. PICK a \in asked : a.seq = m.seq /\ a.map = m.map /\ a.tag = m.tag
        BY <3>1 DEF Correlation, FlightGenuine, InFlight
      <4> QED BY <4>1
    <3>5. \A r \in answered : r.seq # q.seq
      BY <3>1 DEF Correlation, FlightOnce, InFlight
    <3>6. issued' = issued
      BY <2>2
    <3> HIDE DEF hits
    <3>7. CASE hits = {}
      <4>1. issued \subseteq issued' /\ answered' = answered
        BY <3>2, <3>6, <3>7
      <4>2. issued' \subseteq Ledger!Question
        BY DEF TypeOK, Ledger!Question
      <4> QED BY <3>6, <4>1, <4>2 DEF Ledger!Next, Ledger!Issue
    <3>8. CASE hits # {}
      <4>1. answered' = answered \cup {q}
        <5>1. \A e \in hits :
                [seq |-> said(e).seq, kind |-> said(e).map, topic |-> said(e).tag] = q
          BY <3>3
        <5>2. answered' = answered \cup
                {[seq |-> said(e).seq, kind |-> said(e).map, topic |-> said(e).tag] :
                   e \in hits}
          BY <3>2
        <5> QED BY <5>1, <5>2, <3>8
      <4> QED BY <3>4, <3>5, <3>6, <4>1 DEF Ledger!Next, Ledger!Answer
    <3> QED BY <3>7, <3>8
  <2> QED BY <2>1, <2>2, StepTells
<1> QED BY <1>1, <1>2, TypeCorrect, CorrelationHolds, PTL DEF Spec, KeepsLedger, Ledger!Spec


-----------------------------------------------------------------------------
(* The breakpoints.  What the adapter will hold once it has read all that  *)
(* is written is what the views show, or it has yet to be flushed.         *)
Sets(r) == r.command = "setBreakpoints"
Written == {stdin[i] : i \in 1..Len(stdin)}

Doomed ==
  phase \in {"exiting", "killed"} \/ \E r \in Written : r.command = "disconnect"

Alive == process # "NotRunning" /\ ~ Doomed

WillHold(lines) ==
  \/ adapterBps = lines /\ \A r \in Written : ~ Sets(r)
  \/ \E i \in 1..Len(stdin) :
       /\ Sets(stdin[i]) /\ stdin[i].lines = lines
       /\ \A j \in i + 1..Len(stdin) : ~ Sets(stdin[j])

Unflushed ==
  /\ adapterBps = {} /\ phase \in {"none", "new", "launched"}
  /\ \A r \in Written : r.command \notin {"setBreakpoints", "configurationDone"}

(* No job was queued: the target printed no banner. *)
Unqueued ==
  /\ m_state # "Queued" /\ spent.banners = 0
  /\ \A m \in pool : m.type = "event" => m.event # "output"

(* An adapter that does not run holds nothing; a session that is ended has *)
(* told its adapter so.                                                    *)
Fresh ==
  /\ process # "Running" => adapterBps = {} /\ phase = "none"
  /\ process = "NotRunning" => stdin = <<>>
  /\ terminating => ~ Alive

Talking  == m_state \in {"Running", "Paused"}
Awaiting == m_state = "Launching" /\ process = "Starting"

Synced ==
  Alive =>
    /\ Talking \/ Awaiting
    /\ Unflushed \/ (Talking /\ WillHold(m_breakpoints))

Flushing == Unqueued /\ Fresh /\ Synced

(* What is added to the adapter's input when messages are sent. *)
Added(msgs) ==
  \E rs \in Seq(Request) :
    /\ Len(rs) = Len(msgs) /\ stdin' = stdin \o rs
    /\ \A i \in 1..Len(msgs) : rs[i].command = msgs[i].command /\ rs[i].lines = msgs[i].lines

(* Messages are added to the input of an adapter that was started, and     *)
(* always if the session runs.                                             *)
LEMMA SendShape ==
  ASSUME TypeOK, NEW st, NEW msgs \in Seq(Body), SendAll(st, msgs)
  PROVE  /\ \/ /\ process # "NotRunning" /\ st \in {"Running", "Paused", "Terminating"}
               /\ Added(msgs)
            \/ stdin' = stdin
         /\ st \in {"Running", "Paused"} /\ process # "NotRunning" => Added(msgs)
         /\ st = "Terminating" /\ process # "NotRunning" /\ msgs[1].command = "disconnect"
              => Added(msgs)
<1> DEFINE rs == [i \in 1..Len(msgs) |-> Numbered(m_sequenceNumber + i - 1, msgs[i])]
<1>1. m_sequenceNumber \in Nat \ {0} /\ stdin \in Seq(Request) /\ Len(msgs) \in Nat
  BY DEF TypeOK
<1>2. \A i \in 1..Len(msgs) : rs[i] \in Request
  <2> SUFFICES ASSUME NEW i \in 1..Len(msgs) PROVE rs[i] \in Request
    OBVIOUS
  <2>1. msgs[i] \in Body
    OBVIOUS
  <2>2. m_sequenceNumber + i - 1 \in Nat
    BY <1>1
  <2> QED BY <2>1, <2>2 DEF Numbered, Body, Request
<1>3. rs \in Seq(Request) /\ Len(rs) = Len(msgs)
  BY <1>1, <1>2
<1>4. \A i \in 1..Len(msgs) : rs[i].command = msgs[i].command /\ rs[i].lines = msgs[i].lines
  BY DEF Numbered
<1>5. \/ Accepts(st, msgs[1].command) /\ Writes(st) /\ stdin' = stdin \o rs
      \/ stdin' = stdin /\ ~ (Accepts(st, msgs[1].command) /\ Writes(st))
  BY DEF SendAll
<1> HIDE DEF rs
<1>6. stdin' = stdin \o rs => Added(msgs)
  BY <1>3, <1>4 DEF Added
<1> QED BY <1>5, <1>6 DEF Accepts, Writes

(* What adding messages does to what is written. *)
LEMMA AddedKeeps ==
  ASSUME TypeOK, NEW msgs \in Seq(Body), Added(msgs), UNCHANGED adapterBps,
         phase' = phase \/ (phase = "none" /\ phase' = "new")
  PROVE  /\ Doomed => Doomed'
         /\ (\E k \in 1..Len(msgs) : msgs[k].command = "disconnect") => Doomed'
         /\ Unflushed
              /\ (\A k \in 1..Len(msgs) :
                    msgs[k].command \notin {"setBreakpoints", "configurationDone"})
              => Unflushed'
         /\ \A lines : WillHold(lines) /\ (\A k \in 1..Len(msgs) : ~ Sets(msgs[k]))
              => WillHold(lines)'
         /\ \A k \in 1..Len(msgs) :
              Sets(msgs[k]) /\ (\A j \in k + 1..Len(msgs) : ~ Sets(msgs[j]))
                => WillHold(msgs[k].lines)'
<1>1. PICK rs \in Seq(Request) :
        /\ Len(rs) = Len(msgs) /\ stdin' = stdin \o rs
        /\ \A i \in 1..Len(msgs) : rs[i].command = msgs[i].command /\ rs[i].lines = msgs[i].lines
  BY DEF Added
<1>2. stdin \in Seq(Request) /\ Len(stdin) \in Nat /\ Len(rs) \in Nat
  BY DEF TypeOK
<1>3. /\ Len(stdin') = Len(stdin) + Len(rs)
      /\ \A i \in 1..Len(stdin) : stdin'[i] = stdin[i]
      /\ \A k \in 1..Len(rs) : stdin'[Len(stdin) + k] = rs[k]
      /\ \A i \in 1..Len(stdin') : i \in 1..Len(stdin) \/ i - Len(stdin) \in 1..Len(rs)
  <2>1. Len(stdin') = Len(stdin) + Len(rs)
    <3>1. stdin' = stdin \o rs /\ stdin \in Seq(Request) /\ rs \in Seq(Request)
      BY <1>1, <1>2
    <3> QED BY <3>1
  <2>2. \A i \in 1..Len(stdin) : stdin'[i] = stdin[i]
    BY <1>1, <1>2
  <2>3. \A k \in 1..Len(rs) : stdin'[Len(stdin) + k] = rs[k]
    BY <1>1, <1>2
  <2>4. \A i \in 1..Len(stdin') : i \in 1..Len(stdin) \/ i - Len(stdin) \in 1..Len(rs)
    BY <1>2, <2>1
  <2> QED BY <2>1, <2>2, <2>3, <2>4
<1>4. \A i \in 1..Len(stdin') :
        \/ i \in 1..Len(stdin) /\ stdin'[i] = stdin[i]
        \/ \E k \in 1..Len(rs) : i = Len(stdin) + k /\ stdin'[i] = rs[k]
  <2> TAKE i \in 1..Len(stdin')
  <2>1. i - Len(stdin) \in 1..Len(rs) => i = Len(stdin) + (i - Len(stdin))
    BY <1>2
  <2> QED BY <1>3, <2>1
<1>5. 1..Len(stdin) \subseteq 1..Len(stdin')
  BY <1>2, <1>3
<1>6. \A k \in 1..Len(rs) : Len(stdin) + k \in 1..Len(stdin')
  BY <1>2, <1>3
<1>7. Doomed => Doomed'
  BY <1>3, <1>5 DEF Doomed, Written
<1>8. ASSUME NEW k \in 1..Len(msgs), msgs[k].command = "disconnect"
      PROVE  Doomed'
  BY <1>1, <1>3, <1>6, <1>8 DEF Doomed, Written
<1>9. ASSUME Unflushed, \A k \in 1..Len(msgs) :
               msgs[k].command \notin {"setBreakpoints", "configurationDone"}
      PROVE  Unflushed'
  <2>1. \A i \in 1..Len(stdin') :
          stdin'[i].command \notin {"setBreakpoints", "configurationDone"}
    <3> TAKE i \in 1..Len(stdin')
    <3>1. CASE i \in 1..Len(stdin) /\ stdin'[i] = stdin[i]
      BY <1>9, <3>1 DEF Unflushed, Written
    <3>2. ASSUME NEW k \in 1..Len(rs), stdin'[i] = rs[k]
          PROVE  stdin'[i].command \notin {"setBreakpoints", "configurationDone"}
      <4>1. rs[k].command = msgs[k].command /\ k \in 1..Len(msgs)
        BY <1>1
      <4> QED BY <1>9, <3>2, <4>1
    <3> QED BY <1>4, <3>1, <3>2
  <2> QED BY <1>9, <2>1 DEF Unflushed, Written
<1>10. ASSUME NEW lines, WillHold(lines), \A k \in 1..Len(msgs) : ~ Sets(msgs[k])
       PROVE  WillHold(lines)'
  <2>1. \A k \in 1..Len(rs) : ~ Sets(rs[k])
    BY <1>1, <1>10 DEF Sets
  <2>2. CASE adapterBps = lines /\ \A r \in Written : ~ Sets(r)
    BY <1>4, <2>1, <2>2 DEF WillHold, Written
  <2>3. ASSUME NEW i \in 1..Len(stdin), Sets(stdin[i]), stdin[i].lines = lines,
               \A j \in i + 1..Len(stdin) : ~ Sets(stdin[j])
        PROVE  WillHold(lines)'
    <3>1. i \in 1..Len(stdin') /\ Sets(stdin'[i]) /\ stdin'[i].lines = lines
      BY <1>3, <1>5, <2>3
    <3>2. \A j \in i + 1..Len(stdin') : ~ Sets(stdin'[j])
      <4> TAKE j \in i + 1..Len(stdin')
      <4>1. j \in 1..Len(stdin')
        BY <1>2, <1>3
      <4>2. CASE j \in 1..Len(stdin) /\ stdin'[j] = stdin[j]
        <5>1. j \in i + 1..Len(stdin)
          BY <4>2
        <5> QED BY <2>3, <4>2, <5>1
      <4> QED BY <1>4, <2>1, <4>1, <4>2
    <3> QED BY <3>1, <3>2 DEF WillHold
  <2> QED BY <1>10, <2>2, <2>3 DEF WillHold
<1>11. ASSUME NEW k \in 1..Len(msgs), Sets(msgs[k]),
              \A j \in k + 1..Len(msgs) : ~ Sets(msgs[j])
       PROVE  WillHold(msgs[k].lines)'
  <2> DEFINE i == Len(stdin) + k
  <2>1. i \in 1..Len(stdin') /\ stdin'[i] = rs[k]
    BY <1>1, <1>3, <1>6
  <2>2. Sets(stdin'[i]) /\ stdin'[i].lines = msgs[k].lines
    BY <1>1, <1>11, <2>1 DEF Sets
  <2>3. \A j \in i + 1..Len(stdin') : ~ Sets(stdin'[j])
    <3> TAKE j \in i + 1..Len(stdin')
    <3>1. j - Len(stdin) \in k + 1..Len(msgs) /\ j - Len(stdin) \in 1..Len(msgs)
      BY <1>1, <1>2, <1>3
    <3>2. stdin'[Len(stdin) + (j - Len(stdin))] = rs[j - Len(stdin)]
      BY <1>1, <1>3, <3>1
    <3>3. Len(stdin) + (j - Len(stdin)) = j
      BY <1>2
    <3> QED BY <1>1, <1>11, <3>1, <3>2, <3>3 DEF Sets
  <2> HIDE DEF i
  <2> QED BY <2>1, <2>2, <2>3 DEF WillHold
<1> QED BY <1>7, <1>8, <1>9, <1>10, <1>11

(* A step that leaves the adapter alone and the input no shorter. *)
LEMMA StillSynced ==
  ASSUME Fresh, Synced, UNCHANGED <<process, phase, adapterBps, terminating>>,
         Doomed => Doomed', process = "NotRunning" => stdin' = stdin,
         Alive => (Talking' \/ Awaiting') /\ (Unflushed' \/ (Talking' /\ WillHold(m_breakpoints)'))
  PROVE  Fresh' /\ Synced'
BY DEF Fresh, Synced, Alive

(* What is read of the input only when the input is the same. *)
LEMMA SameInput ==
  ASSUME UNCHANGED <<stdin, phase, adapterBps>>
  PROVE  /\ Doomed <=> Doomed'
         /\ Unflushed <=> Unflushed'
         /\ \A lines : WillHold(lines) <=> WillHold(lines)'
BY DEF Doomed, Unflushed, WillHold, Written

(* A message that is about no breakpoint and ends nothing changes nothing. *)
LEMMA NeutralSend ==
  ASSUME TypeOK, Fresh, Synced, NEW st, NEW msg \in Body, Send(st, msg),
         msg.command \notin {"setBreakpoints", "configurationDone", "disconnect"},
         UNCHANGED <<process, phase, adapterBps, terminating, m_breakpoints>>,
         m_state' = m_state \/ m_state' \in {"Running", "Paused"}
  PROVE  Fresh' /\ Synced'
<1> DEFINE msgs == <<msg>>
<1>1. msgs \in Seq(Body) /\ Len(msgs) = 1 /\ msgs[1] = msg
  OBVIOUS
<1>2. SendAll(st, msgs)
  BY DEF Send
<1> HIDE DEF msgs
<1>3. \A k \in 1..Len(msgs) : msgs[k] = msg
  BY <1>1
<1>4. \/ process # "NotRunning" /\ Added(msgs)
      \/ stdin' = stdin
  BY <1>1, <1>2, SendShape
<1>5. /\ Doomed => Doomed'
      /\ Unflushed => Unflushed'
      /\ \A lines : WillHold(lines) => WillHold(lines)'
  <2>1. CASE stdin' = stdin
    BY <2>1, SameInput
  <2>2. CASE Added(msgs)
    BY <1>1, <1>3, <2>2, AddedKeeps DEF Sets
  <2> QED BY <1>4, <2>1, <2>2
<1>6. process = "NotRunning" => stdin' = stdin
  BY <1>4
<1>7. WillHold(m_breakpoints) => WillHold(m_breakpoints)'
  BY <1>5
<1>8. ASSUME Alive
      PROVE  (Talking' \/ Awaiting') /\ (Unflushed' \/ (Talking' /\ WillHold(m_breakpoints)'))
  <2>1. (Talking => Talking') /\ (Talking \/ Awaiting => Talking' \/ Awaiting')
    BY DEF Talking, Awaiting
  <2> QED BY <1>5, <1>7, <1>8, <2>1 DEF Synced
<1> QED BY <1>5, <1>6, <1>8, StillSynced

(* A toggle is written while the session runs, and is in the flush else. *)
LEMMA ToggleKeeps ==
  ASSUME TypeOK, Fresh, Synced, NEW line \in Lines, ToggleBreakpoint(line)
  PROVE  Fresh' /\ Synced'
<1>0. PICK lines \in SUBSET Lines : m_breakpoints' = lines /\ Send(m_state, SetBreakpoints(lines))
  BY DEF ToggleBreakpoint, TypeOK
<1> DEFINE msgs == <<SetBreakpoints(lines)>>
<1>1. UNCHANGED <<process, phase, adapterBps, terminating, m_state>>
  BY DEF ToggleBreakpoint, sessionVars, targetVars
<1>2. SendAll(m_state, msgs)
  BY <1>0 DEF Send
<1>3. msgs \in Seq(Body) /\ Len(msgs) = 1 /\ msgs[1] = SetBreakpoints(lines)
  BY <1>0, SetBreakpointsBody
<1> HIDE DEF msgs
<1>4. \/ process # "NotRunning" /\ m_state # "Launching" /\ Added(msgs)
      \/ stdin' = stdin
  BY <1>2, <1>3, SendShape
<1>5. Talking /\ process # "NotRunning" => Added(msgs)
  BY <1>2, <1>3, SendShape DEF Talking
<1>6. Added(msgs) /\ Doomed => Doomed'
  BY <1>1, <1>3, AddedKeeps
<1>7. ASSUME Added(msgs) PROVE WillHold(m_breakpoints)'
  <2>1. Sets(msgs[1]) /\ msgs[1].lines = lines /\ 1 \in 1..Len(msgs)
    BY <1>3 DEF SetBreakpoints, Sets
  <2>2. \A j \in 1 + 1..Len(msgs) : ~ Sets(msgs[j])
    BY <1>3
  <2>3. WillHold(msgs[1].lines)'
    BY <1>1, <1>3, <1>7, <2>1, <2>2, AddedKeeps
  <2> QED BY <1>0, <2>1, <2>3 DEF WillHold
<1>8. ASSUME Alive
      PROVE  (Talking' \/ Awaiting') /\ (Unflushed' \/ (Talking' /\ WillHold(m_breakpoints)'))
  <2>1. (Talking <=> Talking') /\ (Awaiting <=> Awaiting')
    BY <1>1 DEF Talking, Awaiting
  <2>2. CASE Talking
    BY <1>5, <1>7, <1>8, <2>1, <2>2 DEF Alive
  <2>3. CASE ~ Talking
    <3>1. Awaiting /\ Unflushed
      BY <1>8, <2>3 DEF Synced
    <3>2. stdin' = stdin
      BY <1>4, <3>1 DEF Awaiting
    <3> QED BY <1>1, <2>1, <3>1, <3>2, SameInput
  <2> QED BY <2>2, <2>3
<1>9. Doomed => Doomed'
  BY <1>1, <1>4, <1>6, SameInput
<1> QED BY <1>1, <1>4, <1>8, <1>9, StillSynced

(* Launching starts an adapter that holds nothing, or leaves one that is   *)
(* ending; terminating tells the adapter to end.                           *)
LEMMA LaunchKeeps ==
  ASSUME Fresh, Synced, LaunchParallelSession
  PROVE  Fresh' /\ Synced'
<1> USE DEF requestVars, targetVars
<1>1. /\ m_state = "Disconnected" /\ m_state' = "Launching" /\ ~ terminating
      /\ UNCHANGED <<terminating, stdin, phase, adapterBps, m_breakpoints>>
  BY DEF LaunchParallelSession
<1>2. (Doomed <=> Doomed') /\ (Unflushed <=> Unflushed')
  BY <1>1, SameInput
<1>3. CASE process = "NotRunning"
  <2>1. process' = "Starting" /\ Awaiting'
    BY <1>1, <1>3 DEF LaunchParallelSession, Awaiting
  <2>2. Unflushed
    BY <1>3 DEF Fresh, Unflushed, Written
  <2> QED BY <1>1, <1>2, <1>3, <2>1, <2>2 DEF Fresh, Synced
<1>4. CASE process # "NotRunning"
  <2>1. process' = process
    BY <1>4 DEF LaunchParallelSession
  <2>2. ~ Alive
    BY <1>1 DEF Synced, Talking, Awaiting
  <2> QED BY <1>1, <1>2, <1>4, <2>1, <2>2, StillSynced DEF Alive
<1> QED BY <1>3, <1>4

LEMMA TerminateKeeps ==
  ASSUME TypeOK, Fresh, Synced, TerminateSession
  PROVE  Fresh' /\ Synced'
<1> DEFINE msgs == <<Plain("disconnect")>>
<1>1. UNCHANGED <<process, phase, adapterBps>>
  BY DEF TerminateSession, targetVars
<1>2. SendAll("Terminating", msgs)
  BY DEF TerminateSession, Send
<1>3. msgs \in Seq(Body) /\ Len(msgs) = 1 /\ msgs[1].command = "disconnect"
  BY PlainBody DEF Plain, Controls
<1> HIDE DEF msgs
<1>4. process = "NotRunning" => stdin' = stdin
  BY <1>2, <1>3, SendShape
<1>5. process # "NotRunning" => Doomed'
  <2> SUFFICES ASSUME process # "NotRunning" PROVE Doomed'
    OBVIOUS
  <2>1. Added(msgs)
    BY <1>2, <1>3, SendShape
  <2>2. 1 \in 1..Len(msgs) /\ msgs[1].command = "disconnect"
    BY <1>3
  <2> QED BY <1>1, <1>3, <2>1, <2>2, AddedKeeps
<1>6. ~ Alive'
  BY <1>1, <1>5 DEF Alive
<1> QED BY <1>1, <1>4, <1>6 DEF Fresh, Synced

LEMMA ReturnKeeps ==
  ASSUME Fresh, Synced, TerminateReturns
  PROVE  Fresh' /\ Synced'
<1>1. UNCHANGED <<process, stdin, adapterBps>> /\ ~ terminating'
  BY DEF TerminateReturns, requestVars
<1>2. ~ Alive
  BY DEF TerminateReturns, Fresh
<1>3. CASE process = "Running"
  <2>1. Doomed'
    BY <1>3 DEF TerminateReturns, Doomed
  <2> QED BY <1>1, <1>3, <2>1 DEF Fresh, Synced, Alive
<1>4. CASE process # "Running"
  <2>1. phase' = phase
    BY <1>4 DEF TerminateReturns
  <2>2. ~ Alive'
    BY <1>1, <1>2, <2>1, SameInput DEF Alive
  <2> QED BY <1>1, <1>4, <2>1, <2>2 DEF Fresh, Synced
<1> QED BY <1>3, <1>4

(* Spending of another bound is spending of no banner. *)
LEMMA SpendOther ==
  ASSUME TypeOK, NEW what \in DOMAIN Bounds \ {"banners"}, Spend(what)
  PROVE  spent'.banners = spent.banners
BY DEF TypeOK, Spend, Bounds

(* What the user does keeps the breakpoints on their way. *)
LEMMA ViewsFlush ==
  ASSUME TypeOK, Flushing, Views
  PROVE  Flushing'
<1> USE DEF sessionVars, targetVars
<1>0. /\ TypeOK /\ Fresh /\ Synced
      /\ \A what \in {"asks", "toggles", "terminates"} :
           Spend(what) => spent'.banners = spent.banners
  BY SpendOther DEF Flushing, Bounds
<1>1. Unqueued'
  <2>1. pool' = pool
    BY DEF Views, LaunchParallelSession, Control, Ask, RequestHeatmapRender,
           ToggleBreakpoint, TerminateSession
  <2>2. m_state' = m_state \/ m_state' \in {"Launching", "Terminating"}
    BY DEF Views, LaunchParallelSession, Control, Ask, RequestHeatmapRender,
           ToggleBreakpoint, TerminateSession
  <2>3. spent'.banners = spent.banners
    BY <1>0 DEF Views, LaunchParallelSession, Control, Ask, RequestHeatmapRender,
           ToggleBreakpoint, TerminateSession
  <2> QED BY <2>1, <2>2, <2>3 DEF Flushing, Unqueued
<1>2. CASE LaunchParallelSession
  BY <1>0, <1>1, <1>2, LaunchKeeps DEF Flushing
<1>3. CASE Control
  <2>1. Plain("continue") \in Body /\ Plain("continue").command = "continue"
    BY PlainBody DEF Controls, Plain
  <2> QED BY <1>0, <1>1, <1>3, <2>1, NeutralSend DEF Control, Flushing
<1>4. ASSUME NEW map \in AskMaps \ {"heatmap"}, NEW t \in Asks, Ask(map, t)
      PROVE  Fresh' /\ Synced'
  <2> DEFINE msg == [command |-> map, map |-> map, tag |-> t, lines |-> {}]
  <2>1. msg \in Body /\ msg.command \in RequestMaps
    BY DapAssumption DEF DapAssumption, Body, Commands, Tags, RequestMaps
  <2>2. Send(m_state, msg)
    BY <1>4 DEF Ask, RecordAndSend
  <2> HIDE DEF msg
  <2> QED BY <1>0, <1>4, <2>1, <2>2, NeutralSend DEF Ask, RequestMaps
<1>5. ASSUME NEW t \in Asks, RequestHeatmapRender(t)
      PROVE  Fresh' /\ Synced'
  <2> DEFINE msg == [command |-> "evaluate", map |-> "heatmap", tag |-> t, lines |-> {}]
  <2>1. msg \in Body /\ msg.command = "evaluate"
    BY DEF Body, Commands, Tags, RequestMaps
  <2>2. Send(m_state, msg)
    BY <1>5 DEF RequestHeatmapRender
  <2> HIDE DEF msg
  <2> QED BY <1>0, <1>5, <2>1, <2>2, NeutralSend DEF RequestHeatmapRender
<1>6. ASSUME NEW line \in Lines, ToggleBreakpoint(line)
      PROVE  Fresh' /\ Synced'
  BY <1>0, <1>6, ToggleKeeps
<1>7. CASE TerminateSession
  BY <1>0, <1>1, <1>7, TerminateKeeps DEF Flushing
<1> QED BY <1>1, <1>2, <1>3, <1>4, <1>5, <1>6, <1>7 DEF Views, Flushing

(* A started adapter is initialized; one that is gone holds nothing. *)
LEMMA StartedKeeps ==
  ASSUME TypeOK, Fresh, Synced, ProcessStarted
  PROVE  Fresh' /\ Synced'
<1> DEFINE msgs == <<Plain("initialize")>>
<1>1. /\ process = "Starting" /\ process' = "Running" /\ m_state' = "Running"
      /\ ~ terminating /\ ~ terminating' /\ phase' = "new"
      /\ UNCHANGED <<adapterBps, m_breakpoints>>
  BY DEF ProcessStarted
<1>2. phase = "none"
  BY <1>1 DEF Fresh
<1>3. msgs \in Seq(Body) /\ Len(msgs) = 1 /\ msgs[1].command = "initialize"
  BY PlainBody DEF Plain, Controls
<1>4. SendAll("Running", msgs)
  BY DEF ProcessStarted, Send
<1> HIDE DEF msgs
<1>5. Added(msgs) /\ \A k \in 1..Len(msgs) : msgs[k].command = "initialize"
  BY <1>1, <1>3, <1>4, SendShape
<1>6. /\ Doomed => Doomed'
      /\ Unflushed => Unflushed'
      /\ \A lines : WillHold(lines) => WillHold(lines)'
  BY <1>1, <1>2, <1>3, <1>5, AddedKeeps DEF Sets
<1>7. WillHold(m_breakpoints) => WillHold(m_breakpoints)'
  <2>1. PICK lines : lines = m_breakpoints
    OBVIOUS
  <2>2. WillHold(lines) => WillHold(lines)'
    BY <1>6
  <2> QED BY <1>1, <2>1, <2>2 DEF WillHold
<1>8. Talking'
  BY <1>1 DEF Talking
<1> QED BY <1>1, <1>6, <1>7, <1>8 DEF Fresh, Synced, Alive

LEMMA GoneKeeps ==
  ASSUME AdapterGone
  PROVE  Fresh' /\ Synced'
BY DEF AdapterGone, Fresh, Synced, Alive

LEMMA SignalsFlush ==
  ASSUME TypeOK, Flushing, ProcessSignals
  PROVE  Flushing'
<1> USE DEF sessionVars, requestVars, targetVars
<1>1. Unqueued'
  <2>1. pool' = pool /\ m_state' \in {"Running", "Disconnected"}
    BY DEF ProcessSignals, ProcessStarted, ProcessFailedToStart, ProcessFinished, TransportError
  <2>2. spent'.banners = spent.banners
    BY SpendOther DEF ProcessSignals, ProcessStarted, ProcessFailedToStart, ProcessFinished,
                      TransportError, Bounds
  <2> QED BY <2>1, <2>2 DEF Flushing, Unqueued
<1>2. CASE ProcessStarted
  BY <1>1, <1>2, StartedKeeps DEF Flushing
<1>3. CASE ProcessFailedToStart
  BY <1>1, <1>3, GoneKeeps DEF Flushing, ProcessFailedToStart
<1>4. CASE ProcessFinished
  BY <1>1, <1>4, GoneKeeps DEF Flushing, ProcessFinished
<1>5. CASE TransportError
  <2>1. /\ process' = "Running" /\ process = "Running" /\ Doomed' /\ UNCHANGED <<stdin, adapterBps>>
    BY <1>5 DEF TransportError, Serving, Doomed
  <2> QED BY <1>1, <2>1 DEF Flushing, Fresh, Synced, Alive
<1> QED BY <1>2, <1>3, <1>4, <1>5 DEF ProcessSignals

(* The flush is what the views show, even if that is nothing. *)
LEMMA FlushKeeps ==
  ASSUME TypeOK, Fresh, Synced, SendAll(m_state, Flush), m_state' = "Running",
         UNCHANGED <<process, terminating, phase, adapterBps, m_breakpoints>>
  PROVE  Fresh' /\ Synced'
<1>1. PICK lines \in SUBSET Lines : lines = m_breakpoints
  BY DEF TypeOK
<1>2. PICK msgs \in Seq(Body) :
        /\ SendAll(m_state, msgs)
        /\ \/ lines = {} /\ Len(msgs) = 1 /\ msgs[1].command = "configurationDone"
           \/ /\ Len(msgs) = 2 /\ msgs[1] = SetBreakpoints(lines)
              /\ msgs[2].command = "configurationDone"
  <2>1. Plain("configurationDone") \in Body /\ Plain("configurationDone").command = "configurationDone"
    BY PlainBody DEF Plain, Controls
  <2>2. SetBreakpoints(lines) \in Body
    BY SetBreakpointsBody
  <2>3. CASE lines = {}
    <3>1. Flush = <<Plain("configurationDone")>>
      BY <1>1, <2>3 DEF Flush
    <3> DEFINE f == <<Plain("configurationDone")>>
    <3>2. f \in Seq(Body) /\ Len(f) = 1 /\ f[1].command = "configurationDone"
      BY <2>1
    <3> HIDE DEF f
    <3> QED BY <2>3, <3>1, <3>2 DEF f
  <2>4. CASE lines # {}
    <3>1. Flush = <<SetBreakpoints(lines), Plain("configurationDone")>>
      BY <1>1, <2>4 DEF Flush
    <3> DEFINE f == <<SetBreakpoints(lines), Plain("configurationDone")>>
    <3>2. /\ f \in Seq(Body) /\ Len(f) = 2 /\ f[1] = SetBreakpoints(lines)
          /\ f[2].command = "configurationDone"
      BY <2>1, <2>2
    <3> HIDE DEF f
    <3> QED BY <2>4, <3>1, <3>2 DEF f
  <2> QED BY <2>3, <2>4
<1>3. \/ process # "NotRunning" /\ Added(msgs)
      \/ stdin' = stdin
  BY <1>2, SendShape
<1>4. Added(msgs) /\ Doomed => Doomed'
  BY <1>2, AddedKeeps
<1>5. ASSUME Added(msgs), Unflushed \/ WillHold(lines)
      PROVE  WillHold(lines)'
  <2>1. CASE lines = {} /\ Len(msgs) = 1 /\ msgs[1].command = "configurationDone"
    <3>1. \A k \in 1..Len(msgs) : ~ Sets(msgs[k])
      BY <2>1 DEF Sets
    <3>2. WillHold(lines)
      BY <1>5, <2>1 DEF Unflushed, WillHold, Sets
    <3> QED BY <1>5, <3>1, <3>2, AddedKeeps
  <2>2. CASE /\ Len(msgs) = 2 /\ msgs[1] = SetBreakpoints(lines)
             /\ msgs[2].command = "configurationDone"
    <3>1. 1 \in 1..Len(msgs) /\ Sets(msgs[1]) /\ msgs[1].lines = lines
      BY <2>2 DEF SetBreakpoints, Sets
    <3>2. \A j \in 1 + 1..Len(msgs) : ~ Sets(msgs[j])
      BY <2>2 DEF Sets
    <3>3. WillHold(msgs[1].lines)'
      BY <1>5, <3>1, <3>2, AddedKeeps
    <3> QED BY <3>1, <3>3
  <2> QED BY <1>2, <2>1, <2>2
<1>6. ASSUME Alive
      PROVE  (Talking' \/ Awaiting') /\ (Unflushed' \/ (Talking' /\ WillHold(m_breakpoints)'))
  <2>1. Talking'
    BY DEF Talking
  <2>2. CASE ~ Added(msgs)
    <3>1. stdin' = stdin
      BY <1>3, <2>2
    <3>2. ~ Talking
      BY <1>2, <1>6, <2>2, SendShape DEF Talking, Alive
    <3> QED BY <1>6, <2>1, <3>1, <3>2, SameInput DEF Synced
  <2>3. CASE Added(msgs)
    <3>1. WillHold(lines)'
      BY <1>1, <1>5, <1>6, <2>3 DEF Synced
    <3> QED BY <1>1, <2>1, <3>1 DEF WillHold
  <2> QED BY <2>2, <2>3
<1>7. Doomed => Doomed'
  BY <1>3, <1>4, SameInput
<1> QED BY <1>3, <1>6, <1>7, StillSynced

(* What the coordinator handles keeps the breakpoints on their way. *)
LEMMA MessagesFlush ==
  ASSUME TypeOK, Flushing, NEW m \in pool, HandleMessage(m)
  PROVE  Flushing'
<1> USE DEF sessionVars, requestVars, targetVars
<1>0. TypeOK /\ Fresh /\ Synced
  BY DEF Flushing
<1>1. ~ Event(m, "output")
  BY DEF Flushing, Unqueued, Event
<1>2. Unqueued'
  <2>1. pool' \subseteq pool /\ spent' = spent
    BY DEF HandleMessage, HandleInitializeResponse, HandleAnswer, HandleInitialized,
           HandleStopped, HandleBanner, HandleProcessEvent, Take
  <2>2. m_state' = m_state \/ m_state' \in {"Running", "Paused"}
    BY <1>1 DEF HandleMessage, HandleInitializeResponse, HandleAnswer, HandleInitialized,
           HandleStopped, HandleBanner, HandleProcessEvent
  <2> QED BY <2>1, <2>2 DEF Flushing, Unqueued
<1>3. UNCHANGED <<process, terminating, phase, adapterBps, m_breakpoints>>
  BY DEF HandleMessage, HandleInitializeResponse, HandleAnswer, HandleInitialized,
         HandleStopped, HandleBanner, HandleProcessEvent
<1>4. ASSUME UNCHANGED <<stdin, m_state>>
      PROVE  Fresh' /\ Synced'
  <2>1. (Talking <=> Talking') /\ (Awaiting <=> Awaiting')
    BY <1>3, <1>4 DEF Talking, Awaiting
  <2>2. WillHold(m_breakpoints) <=> WillHold(m_breakpoints)'
    BY <1>3, <1>4 DEF WillHold, Written
  <2> QED BY <1>0, <1>3, <1>4, <2>1, <2>2, SameInput, StillSynced DEF Synced
<1>5. CASE HandleInitializeResponse(m)
  <2>1. Plain("launch") \in Body /\ Plain("launch").command = "launch"
    BY PlainBody DEF Controls, Plain
  <2>2. Fresh' /\ Synced'
    BY <1>0, <1>3, <1>5, <2>1, NeutralSend DEF HandleInitializeResponse
  <2> QED BY <1>2, <2>2 DEF Flushing
<1>6. CASE HandleAnswer(m)
  BY <1>2, <1>4, <1>6 DEF HandleAnswer, Flushing
<1>7. CASE HandleInitialized(m)
  BY <1>0, <1>2, <1>3, <1>7, FlushKeeps DEF HandleInitialized, Flushing
<1>8. CASE HandleStopped(m)
  <2> DEFINE msg == [command |-> "stackTrace", map |-> "stackTrace",
                     tag |-> RankOf(m.thread), lines |-> {}]
  <2>1. RankOf(m.thread) \in Ranks
    BY <1>8, StoppedRank
  <2>2. msg \in Body /\ msg.command = "stackTrace"
    BY <2>1 DEF Body, Commands, Tags, RequestMaps
  <2>3. Send("Paused", msg) /\ m_state' = "Paused"
    BY <1>8 DEF HandleStopped, RecordAndSend
  <2> HIDE DEF msg
  <2>4. Fresh' /\ Synced'
    BY <1>0, <1>3, <2>2, <2>3, NeutralSend
  <2> QED BY <1>2, <2>4 DEF Flushing
<1>9. CASE HandleBanner(m)
  BY <1>1, <1>9 DEF HandleBanner
<1>10. CASE HandleProcessEvent(m)
  BY <1>2, <1>4, <1>10 DEF HandleProcessEvent, Flushing
<1> QED BY <1>5, <1>6, <1>7, <1>8, <1>9, <1>10 DEF HandleMessage

(* The adapter reads its input: what it will hold stays the same. *)
LEMMA ReadFlush ==
  ASSUME TypeOK, Fresh, Synced, Serving, stdin # <<>>, stdin' = Tail(stdin),
         NEW r, r = Head(stdin),
         phase' = IF r.command \in Controls THEN AfterControl(r.command) ELSE phase,
         adapterBps' = IF Sets(r) THEN r.lines ELSE adapterBps,
         UNCHANGED <<process, terminating, m_state, m_breakpoints>>
  PROVE  Fresh' /\ Synced'
<1>1. process = "Running" /\ phase \notin {"exiting", "killed"}
  BY DEF Serving
<1>2. stdin \in Seq(Request) /\ Len(stdin) \in Nat \ {0} /\ r = stdin[1]
  BY DEF TypeOK
<1>3. /\ Len(stdin') = Len(stdin) - 1
      /\ \A i \in 1..Len(stdin') : stdin'[i] = stdin[i + 1] /\ i + 1 \in 1..Len(stdin)
  BY <1>2
<1>4. \A i \in 1..Len(stdin) : i = 1 \/ (i - 1 \in 1..Len(stdin') /\ stdin'[i - 1] = stdin[i])
  <2> TAKE i \in 1..Len(stdin)
  <2>1. CASE i # 1
    <3>1. i - 1 \in 1..Len(stdin') /\ (i - 1) + 1 = i
      BY <1>2, <1>3, <2>1
    <3> QED BY <1>3, <3>1
  <2> QED BY <2>1
<1>5. Doomed => Doomed'
  <2>1. r.command = "disconnect" => Doomed'
    BY DEF Controls, AfterControl, Doomed
  <2>2. \A i \in 1..Len(stdin') : stdin'[i].command = "disconnect" => Doomed'
    BY DEF Doomed, Written
  <2>3. SUFFICES ASSUME NEW i \in 1..Len(stdin), stdin[i].command = "disconnect"
                 PROVE  Doomed'
    BY <1>1 DEF Doomed, Written
  <2> QED BY <1>2, <1>4, <2>1, <2>2, <2>3
<1>6. ASSUME Unflushed, ~ Doomed'
      PROVE  Unflushed'
  <2>1. r.command \notin {"setBreakpoints", "configurationDone"}
    BY <1>2, <1>6 DEF Unflushed, Written
  <2>2. \A i \in 1..Len(stdin') :
          stdin'[i].command \notin {"setBreakpoints", "configurationDone"}
    BY <1>3, <1>6 DEF Unflushed, Written
  <2>3. adapterBps' = {}
    BY <1>6, <2>1 DEF Unflushed, Sets
  <2>4. phase' \in {"none", "new", "launched"}
    BY <1>6, <2>1 DEF Unflushed, AfterControl, Doomed
  <2> QED BY <2>2, <2>3, <2>4 DEF Unflushed, Written
<1>7. ASSUME NEW lines, WillHold(lines)
      PROVE  WillHold(lines)'
  <2>1. CASE adapterBps = lines /\ \A x \in Written : ~ Sets(x)
    <3>1. ~ Sets(r) /\ \A i \in 1..Len(stdin') : ~ Sets(stdin'[i])
      BY <1>2, <1>3, <2>1 DEF Written
    <3> QED BY <2>1, <3>1 DEF WillHold, Written
  <2>2. ASSUME NEW i \in 1..Len(stdin), Sets(stdin[i]), stdin[i].lines = lines,
               \A j \in i + 1..Len(stdin) : ~ Sets(stdin[j])
        PROVE  WillHold(lines)'
    <3>1. \A j \in 1..Len(stdin') : j + 1 > i => ~ Sets(stdin'[j])
      <4> SUFFICES ASSUME NEW j \in 1..Len(stdin'), j + 1 > i PROVE ~ Sets(stdin'[j])
        OBVIOUS
      <4>1. j + 1 \in i + 1..Len(stdin)
        BY <1>2, <1>3
      <4> QED BY <1>3, <2>2, <4>1
    <3>2. CASE i = 1
      <4>1. adapterBps' = lines
        BY <1>2, <2>2, <3>2
      <4>2. \A j \in 1..Len(stdin') : ~ Sets(stdin'[j])
        BY <1>2, <1>3, <3>1, <3>2
      <4> QED BY <4>1, <4>2 DEF WillHold, Written
    <3>3. CASE i # 1
      <4>1. i - 1 \in 1..Len(stdin') /\ stdin'[i - 1] = stdin[i]
        BY <1>4, <3>3
      <4>2. \A j \in (i - 1) + 1..Len(stdin') : ~ Sets(stdin'[j])
        BY <1>2, <1>3, <3>1
      <4> QED BY <2>2, <4>1, <4>2 DEF WillHold
    <3> QED BY <3>2, <3>3
  <2> QED BY <1>7, <2>1, <2>2 DEF WillHold
<1>8. WillHold(m_breakpoints) => WillHold(m_breakpoints)'
  <2>1. PICK lines : lines = m_breakpoints
    OBVIOUS
  <2>2. WillHold(lines) => WillHold(lines)'
    BY <1>7
  <2> QED BY <2>1, <2>2 DEF WillHold
<1>9. (Talking <=> Talking') /\ (Awaiting <=> Awaiting')
  BY DEF Talking, Awaiting
<1> QED BY <1>1, <1>5, <1>6, <1>8, <1>9 DEF Fresh, Synced, Alive

(* What the target does changes nothing on its way to the adapter. *)
LEMMA TargetFlush ==
  ASSUME Fresh, Synced, phase = "running", phase' \in {"running", "stopped", "over"},
         UNCHANGED <<process, terminating, stdin, adapterBps, m_state, m_breakpoints>>
  PROVE  Fresh' /\ Synced'
<1>1. Doomed => Doomed'
  BY DEF Doomed, Written
<1>2. ~ Unflushed
  BY DEF Unflushed
<1>3. (Talking <=> Talking') /\ (Awaiting <=> Awaiting')
  BY DEF Talking, Awaiting
<1>4. WillHold(m_breakpoints) => WillHold(m_breakpoints)'
  BY DEF WillHold, Written
<1>5. Doomed' => Doomed
  BY DEF Doomed, Written
<1>6. process # "Running" => ~ (phase = "running")
  BY DEF Fresh
<1> QED BY <1>1, <1>2, <1>3, <1>4, <1>5, <1>6 DEF Fresh, Synced, Alive

LEMMA AdapterFlush ==
  ASSUME MaxBanners = 0, TypeOK, Flushing, Adapter
  PROVE  Flushing'
<1> USE DEF sessionVars, cacheVars, slurmVars
<1>0. TypeOK /\ Fresh /\ Synced /\ ~ Spend("banners")
  BY DEF Flushing, Unqueued, Spend, Bounds
<1>1. Unqueued'
  <2>1. spent'.banners = spent.banners /\ m_state' = m_state
    BY <1>0, SpendOther DEF Adapter, AdapterObeys, AdapterAnswers, TargetStops,
                            TargetPrintsBanner, TargetExits, Bounds
  <2>2. \A m \in pool' : m \in pool \/ (m.type = "event" => m.event # "output")
    BY <1>0 DEF Adapter, AdapterObeys, AdapterAnswers, TargetStops, TargetPrintsBanner,
                TargetExits, Reply, LaunchEvents
  <2> QED BY <2>1, <2>2 DEF Flushing, Unqueued
<1>2. CASE AdapterObeys
  <2>1. Fresh' /\ Synced'
    BY <1>0, <1>2, ReadFlush DEF AdapterObeys, Sets
  <2> QED BY <1>1, <2>1 DEF Flushing
<1>3. CASE AdapterAnswers
  <2>1. Head(stdin).command \in RequestMaps
    BY <1>3 DEF AdapterAnswers
  <2>2. Head(stdin).command \notin Controls /\ ~ Sets(Head(stdin))
    BY <2>1 DEF RequestMaps, Controls, Sets
  <2>3. Fresh' /\ Synced'
    BY <1>0, <1>3, <2>2, ReadFlush DEF AdapterAnswers, targetVars
  <2> QED BY <1>1, <2>3 DEF Flushing
<1>4. ASSUME NEW r \in Ranks, TargetStops(r)
      PROVE  Flushing'
  BY <1>0, <1>1, <1>4, TargetFlush DEF TargetStops, requestVars, Flushing
<1>5. CASE TargetPrintsBanner
  BY <1>0, <1>5 DEF TargetPrintsBanner
<1>6. CASE TargetExits
  BY <1>0, <1>1, <1>6, TargetFlush DEF TargetExits, requestVars, Flushing
<1> QED BY <1>2, <1>3, <1>4, <1>5, <1>6 DEF Adapter

(* A session that was not queued has the breakpoints of the views once all *)
(* that was sent is handled, whatever was toggled, launched, terminated,   *)
(* handled late or left over from a session before.                        *)
THEOREM BreakpointsSyncedHolds == ASSUME MaxBanners = 0 PROVE Spec => []BreakpointsSynced
<1>1. Init => Flushing
  <2> SUFFICES ASSUME Init PROVE Flushing
    OBVIOUS
  <2>1. spent.banners = 0
    BY DEF Init, Bounds
  <2>2. process = "NotRunning" /\ adapterBps = {} /\ phase = "none" /\ stdin = <<>>
        /\ m_state # "Queued" /\ pool = {}
    BY DEF Init
  <2> QED BY <2>1, <2>2 DEF Flushing, Unqueued, Fresh, Synced, Alive
<1>2. TypeOK /\ Flushing /\ [Next]_vars => Flushing'
  <2> SUFFICES ASSUME TypeOK, Flushing, [Next]_vars PROVE Flushing'
    OBVIOUS
  <2>1. CASE Views
    BY <2>1, ViewsFlush
  <2>2. CASE TerminateReturns
    <3>1. Unqueued'
      BY <2>2 DEF TerminateReturns, Flushing, Unqueued
    <3> QED BY <2>2, <3>1, ReturnKeeps DEF Flushing
  <2>3. CASE ProcessSignals
    BY <2>3, SignalsFlush
  <2>4. CASE \E m \in pool : HandleMessage(m)
    BY <2>4, MessagesFlush
  <2>5. CASE Adapter
    BY <2>5, AdapterFlush
  <2>6. CASE UNCHANGED vars
    <3>1. UNCHANGED <<m_state, process, terminating, stdin, phase, adapterBps, pool, spent,
                      m_breakpoints>>
      BY <2>6 DEF vars, sessionVars, requestVars, targetVars
    <3> QED BY <3>1 DEF Flushing, Unqueued, Fresh, Synced, Alive, Talking, Awaiting, Doomed,
                        Unflushed, WillHold, Written
  <2> QED BY <2>1, <2>2, <2>3, <2>4, <2>5, <2>6 DEF Next
<1>3. Flushing => BreakpointsSynced
  <2> SUFFICES ASSUME Flushing, Quiet, m_state \in {"Running", "Paused"},
                      phase \in {"running", "stopped"}
               PROVE  adapterBps = m_breakpoints
    BY DEF BreakpointsSynced
  <2>1. Written = {} /\ Len(stdin) = 0 /\ process = "Running"
    BY DEF Quiet, Written
  <2>2. Alive /\ ~ Unflushed
    BY <2>1 DEF Alive, Doomed, Unflushed
  <2>3. WillHold(m_breakpoints)
    BY <2>2 DEF Flushing, Synced
  <2> QED BY <2>1, <2>3 DEF WillHold
<1> QED BY <1>1, <1>2, <1>3, TypeCorrect, PTL DEF Spec

-----------------------------------------------------------------------------
(* The job.  The target prints one banner at most, so there is one job; it *)
(* is given to scancel before it is forgotten.                             *)
OneJob ==
  /\ spent.banners \in {0, 1}
  /\ \A m \in pool : Event(m, "output") => m.job = 1
  /\ captured \subseteq {1} /\ m_slurmJobId \in {-1, 1}
  /\ terminating => m_slurmJobId \in cancelled \cup {-1}

(* No job is left running on the cluster by a session that ends, however   *)
(* often it is terminated, and in whatever state the banner is read.       *)
THEOREM JobNeverForgottenHolds ==
  ASSUME MaxBanners \in {0, 1} PROVE Spec => []JobNeverForgotten
<1> DEFINE Inv == OneJob /\ JobNeverForgotten
<1>1. Init => Inv
  <2> SUFFICES ASSUME Init PROVE Inv
    OBVIOUS
  <2>1. spent.banners = 0
    BY DEF Init, Bounds
  <2>2. pool = {} /\ captured = {} /\ m_slurmJobId = -1
    BY DEF Init
  <2> QED BY <2>1, <2>2 DEF OneJob, JobNeverForgotten
<1>2. TypeOK /\ Inv /\ [Next]_vars => Inv'
  <2> SUFFICES ASSUME TypeOK, Inv, [Next]_vars PROVE Inv'
    OBVIOUS
  <2> USE DEF sessionVars, requestVars, targetVars, cacheVars, slurmVars
  <2>0. \A what \in {"asks", "toggles", "terminates", "stops", "exits", "errors"} :
          Spend(what) => spent'.banners = spent.banners
    BY SpendOther DEF Bounds
  <2>1. ASSUME UNCHANGED <<captured, cancelled, m_slurmJobId, terminating>>,
               spent'.banners = spent.banners,
               \A m \in pool' : m \in pool \/ ~ Event(m, "output")
        PROVE  Inv'
    BY <2>1 DEF OneJob, JobNeverForgotten
  <2>2. CASE Views
    <3>1. CASE TerminateSession
      <4>1. m_slurmJobId \in cancelled' \cup {-1} /\ cancelled \subseteq cancelled'
        BY <3>1 DEF TerminateSession, Cancel
      <4>2. spent'.banners = spent.banners /\ UNCHANGED <<pool, captured, m_slurmJobId>>
        BY <2>0, <3>1 DEF TerminateSession
      <4> QED BY <4>1, <4>2 DEF OneJob, JobNeverForgotten
    <3>2. CASE ~ TerminateSession
      BY <2>0, <2>1, <2>2, <3>2 DEF Views, LaunchParallelSession, Control, Ask,
                                    RequestHeatmapRender, ToggleBreakpoint
    <3> QED BY <3>1, <3>2
  <2>3. CASE TerminateReturns
    <3>1. m_slurmJobId \in cancelled \cup {-1}
      BY <2>3 DEF TerminateReturns, OneJob
    <3>2. captured \subseteq cancelled
      BY <3>1 DEF OneJob, JobNeverForgotten
    <3> QED BY <2>3, <3>2 DEF TerminateReturns, OneJob, JobNeverForgotten
  <2>4. CASE ProcessSignals
    BY <2>0, <2>1, <2>4 DEF ProcessSignals, ProcessStarted, ProcessFailedToStart,
                            ProcessFinished, TransportError, AdapterGone
  <2>5. ASSUME NEW m \in pool, HandleMessage(m)
        PROVE  Inv'
    <3>1. CASE HandleBanner(m)
      <4>1. m.job = 1 /\ ~ terminating
        BY <3>1 DEF HandleBanner, Take, OneJob
      <4>2. captured' = {1} /\ m_slurmJobId' = 1
        BY <3>1, <4>1 DEF HandleBanner, OneJob
      <4> QED BY <3>1, <4>1, <4>2 DEF HandleBanner, Take, OneJob, JobNeverForgotten
    <3>2. CASE ~ HandleBanner(m)
      BY <2>1, <2>5, <3>2 DEF HandleMessage, HandleInitializeResponse, HandleAnswer,
           HandleInitialized, HandleStopped, HandleProcessEvent, Take
    <3> QED BY <3>1, <3>2
  <2>6. CASE Adapter
    <3>1. CASE TargetPrintsBanner
      <4>1. spent.banners = 0 /\ spent'.banners = 1
        BY <3>1 DEF TargetPrintsBanner, Spend, Bounds, OneJob, TypeOK
      <4> QED BY <3>1, <4>1 DEF TargetPrintsBanner, Event, OneJob, JobNeverForgotten
    <3>2. CASE ~ TargetPrintsBanner
      BY <2>0, <2>1, <2>6, <3>2 DEF Adapter, AdapterObeys, AdapterAnswers, TargetStops,
                                    TargetExits, Reply, LaunchEvents, Event
    <3> QED BY <3>1, <3>2
  <2>7. CASE UNCHANGED vars
    BY <2>1, <2>7 DEF vars
  <2> QED BY <2>2, <2>3, <2>4, <2>5, <2>6, <2>7 DEF Next
<1> QED BY <1>1, <1>2, TypeCorrect, PTL DEF Spec
=============================================================================
