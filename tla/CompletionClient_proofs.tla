----------------------- MODULE CompletionClient_proofs -----------------------
(***************************************************************************)
(* Proofs about CompletionClient, for any documents and any number of      *)
(* calls, answers out of time, and ends and restarts of clangd.            *)
(***************************************************************************)
EXTENDS CompletionClient, TLAPS

(* The documents clangd has open, and the answers on their way.            *)
Opened == {d \in Documents : server.open[d] # 0}
OnTheirWay == server.computes \cup {fromServer[i] : i \in DOMAIN fromServer}

(* A message that clangd has to answer. *)
IsRequest(m) == m.kind \in {"initialize", "completion"}

(* Messages whose parts are what their kind needs. *)
WellFormed(m, next) ==
  /\ m.kind \in {"didClose", "didOpen", "completion"} => m.doc \in Documents
  /\ m.kind \in {"didOpen", "completion"} => m.version # 0
  /\ IsRequest(m) => m.id < next

(* What may be written after what. *)
Follows(a, b) ==
  CASE b.kind = "initialize" -> a.kind = "initialize"
    [] b.kind = "initialized" -> FALSE
    [] b.kind = "didOpen"    -> a.kind \in {"initialized", "didClose"}
    [] b.kind = "completion" -> a.kind = "didOpen" /\ a.doc = b.doc /\ a.version = b.version
    [] b.kind = "didClose"   -> a.kind = "completion" /\ a.doc = b.doc

(* What clangd may read now. *)
Ready(m) ==
  CASE m.kind = "initialize" -> Opened = {}
    [] m.kind = "initialized" -> Opened = {} /\ server.initialized
    [] m.kind = "didOpen"    -> Opened = {} /\ server.initialized
    [] m.kind = "completion" -> Opened = {m.doc} /\ server.open[m.doc] = m.version
                                /\ server.initialized
    [] m.kind = "didClose"   -> Opened = {m.doc} /\ server.initialized

Chained(q) == \A i \in 1..Len(q) - 1 : Follows(q[i], q[i + 1])

Increasing(q) ==
  \A i, j \in 1..Len(q) : i < j /\ IsRequest(q[i]) /\ IsRequest(q[j]) => q[i].id < q[j].id

(* The process, clangd and what the client believes of it. *)
Process ==
  /\ server.alive => process = "running"
  /\ ~server.alive => server = Dead /\ toServer = <<>>
  /\ process = "starting" => ~initialized /\ call = NoCall /\ fromServer = <<>>
  /\ initialized <=> activeDocument \in Documents
  /\ server.alive /\ ~server.initialized =>
       ~initialized /\ fromServer = <<>> /\ server.computes = {}

(* What is written leads clangd, read in order, to the document the client *)
(* believes open.                                                          *)
Formed == \A i \in 1..Len(toServer) : WellFormed(toServer[i], nextRequestId)

Phase ==
  \A i \in 1..Len(toServer) :
    IF initialized THEN toServer[i].kind # "initialize" ELSE toServer[i].kind = "initialize"

Leads ==
  /\ toServer # <<>> => Ready(toServer[1])
  /\ toServer # <<>> /\ initialized =>
       /\ toServer[Len(toServer)].kind = "completion"
       /\ toServer[Len(toServer)].doc = activeDocument
  /\ server.alive /\ (toServer = <<>> \/ ~initialized) =>
       Opened = {activeDocument} \ {NoDocument}

Queue == Formed /\ Phase /\ Chained(toServer) /\ Leads

(* Numbers grow along the queue, past those of every answer. *)
Numbers ==
  /\ Increasing(toServer)
  /\ \A a \in OnTheirWay : a.id < nextRequestId
  /\ \A a \in OnTheirWay, i \in 1..Len(toServer) :
       IsRequest(toServer[i]) => a.id < toServer[i].id

(* The call under way: `initialize` is the last message written, and what  *)
(* has the number of a completion is about its text.                       *)
Waiting ==
  /\ call.waits = "initialize" =>
       /\ ~initialized /\ call.doc \in Documents
       /\ toServer # <<>> => toServer[Len(toServer)].id = call.id
  /\ call.waits = "completion" =>
       /\ initialized
       /\ \A a \in OnTheirWay : a.id = call.id => a.text = call.text
       /\ \A i \in 1..Len(toServer) :
            toServer[i].kind = "completion" /\ toServer[i].id = call.id =>
              toServer[i].version = call.text

Exchange == Process /\ Queue /\ Numbers /\ Waiting

-----------------------------------------------------------------------------
(* Sequences and messages.                                                 *)

(* What is left when the first element is taken. *)
LEMMA TailFacts ==
  ASSUME NEW S, NEW q \in Seq(S), q # <<>>
  PROVE  /\ Tail(q) \in Seq(S) /\ Len(Tail(q)) = Len(q) - 1
         /\ Len(q) \in Nat \ {0} /\ Head(q) = q[1] /\ q[1] \in S
         /\ \A i \in 1..Len(q) - 1 : Tail(q)[i] = q[i + 1]
<1>1. Len(q) \in Nat \ {0} /\ Head(q) = q[1] /\ q[1] \in S
  OBVIOUS
<1>2. Tail(q) \in Seq(S) /\ Len(Tail(q)) = Len(q) - 1
  OBVIOUS
<1>3. \A i \in 1..Len(q) - 1 : Tail(q)[i] = q[i + 1]
  OBVIOUS
<1> QED BY <1>1, <1>2, <1>3

(* A queue and what is written after it. *)
LEMMA ConcatFacts ==
  ASSUME NEW S, NEW q \in Seq(S), NEW t \in Seq(S)
  PROVE  /\ q \o t \in Seq(S)
         /\ Len(q) \in Nat /\ Len(t) \in Nat /\ Len(q \o t) = Len(q) + Len(t)
         /\ \A i \in 1..Len(q) : (q \o t)[i] = q[i]
         /\ \A i \in 1..Len(t) : (q \o t)[Len(q) + i] = t[i]
OBVIOUS

(* Sequences are equal if their elements are. *)
LEMMA SameElements ==
  ASSUME NEW S, NEW q \in Seq(S), NEW t \in Seq(S), Len(q) = Len(t),
         \A i \in 1..Len(q) : q[i] = t[i]
  PROVE  q = t
OBVIOUS

(* One element before two. *)
LEMMA Three == \A x, y, z : <<x>> \o <<y, z>> = <<x, y, z>>
<1> SUFFICES ASSUME NEW x, NEW y, NEW z PROVE <<x>> \o <<y, z>> = <<x, y, z>>
  OBVIOUS
<1> DEFINE S == {x, y, z}
<1>1. <<x>> \in Seq(S) /\ <<y, z>> \in Seq(S) /\ <<x, y, z>> \in Seq(S)
  OBVIOUS
<1>2. /\ Len(<<x>> \o <<y, z>>) = 3 /\ Len(<<x, y, z>>) = 3
      /\ <<x>> \o <<y, z>> \in Seq(S)
  BY <1>1
<1>3. \A i \in 1..3 : (<<x>> \o <<y, z>>)[i] = <<x, y, z>>[i]
  BY <1>1
<1> QED BY <1>1, <1>2, <1>3, SameElements

(* The same, written one after the other, and before the first nothing. *)
LEMMA ThreeSteps ==
  ASSUME NEW x, NEW y, NEW z
  PROVE  /\ (<<x>> \o (<<>> \o <<y>>)) \o <<z>> = <<x>> \o <<y, z>>
         /\ (<<>> \o (<<x>> \o <<y>>)) \o <<z>> = <<x>> \o <<y, z>>
<1> DEFINE S == {x, y, z}
<1>1. <<x>> \in Seq(S) /\ <<y>> \in Seq(S) /\ <<z>> \in Seq(S)
  OBVIOUS
<1>2. \A q \in Seq(S) : <<>> \o q = q
  OBVIOUS
<1>3. \A q, t, u \in Seq(S) : (q \o t) \o u = q \o (t \o u)
  OBVIOUS
<1>4. <<y>> \o <<z>> = <<y, z>>
  <2>1. /\ <<y>> \o <<z>> \in Seq(S) /\ <<y, z>> \in Seq(S)
        /\ Len(<<y>> \o <<z>>) = 2 /\ Len(<<y, z>>) = 2
        /\ \A i \in 1..2 : (<<y>> \o <<z>>)[i] = <<y, z>>[i]
    BY <1>1
  <2> QED BY <2>1, SameElements
<1>5. <<x>> \o <<y>> \in Seq(S)
  BY <1>1
<1>6. <<>> \o <<y>> = <<y>> /\ <<>> \o (<<x>> \o <<y>>) = <<x>> \o <<y>>
  BY <1>1, <1>2, <1>5
<1>7. (<<x>> \o <<y>>) \o <<z>> = <<x>> \o (<<y>> \o <<z>>)
  BY <1>1, <1>3
<1> QED BY <1>4, <1>6, <1>7

(* The messages of the client are requests. *)
LEMMA MessageTypes ==
  /\ \A id \in Nat : Initialize(id) \in Requests
  /\ Initialized \in Requests
  /\ \A doc \in Documents, n, id \in Nat :
       /\ DidClose(doc) \in Requests
       /\ DidOpen(doc, n) \in Requests
       /\ Completion(doc, id, n) \in Requests
BY DEF Initialize, Initialized, DidClose, DidOpen, Completion, Message, Requests

-----------------------------------------------------------------------------
(* Types.  The sets have names so that a step need not look into what it   *)
(* leaves alone.                                                           *)
Servers == [alive : BOOLEAN, initialized : BOOLEAN, open : [Documents -> Nat],
            computes : SUBSET Answers]
Calls(id, version) ==
  [waits : {"nothing", "initialize", "completion"}, doc : Documents \cup {NoDocument},
   id : 0..id - 1, text : 0..version - 1]
Shown == [asked : Nat, made : Nat]
RequestQueues == Seq(Requests)
AnswerQueues  == Seq(Answers)

Shape ==
  /\ process \in {"notRunning", "starting", "running"}
  /\ initialized \in BOOLEAN
  /\ activeDocument \in Documents \cup {NoDocument}
  /\ nextRequestId \in Nat \ {0}
  /\ documentVersion \in Nat \ {0}
  /\ call \in Calls(nextRequestId, documentVersion)
  /\ shown \in Shown
  /\ toServer \in RequestQueues
  /\ fromServer \in AnswerQueues
  /\ server \in Servers
  /\ calls \in Nat /\ ends \in Nat

(* Shape is TypeOK. *)
LEMMA ShapeMeaning == Shape <=> TypeOK
BY DEF Shape, TypeOK, Servers, Calls, Shown, RequestQueues, AnswerQueues

(* What is written, read or said of nothing in particular. *)
LEMMA Elements ==
  /\ NoShown \in Shown
  /\ \A id \in Nat \ {0}, n \in Nat \ {0} : NoCall \in Calls(id, n)
  /\ <<>> \in RequestQueues /\ <<>> \in AnswerQueues
  /\ \A q \in RequestQueues : q # <<>> => Tail(q) \in RequestQueues /\ Head(q) \in Requests
  /\ \A q \in AnswerQueues : q # <<>> => Tail(q) \in AnswerQueues /\ Head(q) \in Answers
  /\ \A q, t \in RequestQueues : q \o t \in RequestQueues
  /\ \A q \in AnswerQueues, a \in Answers : Append(q, a) \in AnswerQueues
  /\ \A q \in AnswerQueues : \A n \in 0..Len(q) : SubSeq(q, 1, n) \in AnswerQueues
  /\ \A m \in Requests : <<m>> \in RequestQueues
<1>1. NoShown \in Shown
  BY DEF NoShown, Shown
<1>2. \A id \in Nat \ {0}, n \in Nat \ {0} : NoCall \in Calls(id, n)
  BY DEF NoCall, Calls
<1>3. \A q \in RequestQueues : q # <<>> => Tail(q) \in RequestQueues /\ Head(q) \in Requests
  BY TailFacts DEF RequestQueues
<1>4. \A q \in AnswerQueues : q # <<>> => Tail(q) \in AnswerQueues /\ Head(q) \in Answers
  BY TailFacts DEF AnswerQueues
<1>5. \A q, t \in RequestQueues : q \o t \in RequestQueues
  BY DEF RequestQueues
<1>6. \A q \in AnswerQueues, a \in Answers : Append(q, a) \in AnswerQueues
  BY DEF AnswerQueues
<1>7. \A q \in AnswerQueues : \A n \in 0..Len(q) : SubSeq(q, 1, n) \in AnswerQueues
  BY DEF AnswerQueues
<1>8. \A m \in Requests : <<m>> \in RequestQueues
  BY DEF RequestQueues
<1>9. <<>> \in RequestQueues /\ <<>> \in AnswerQueues
  BY DEF RequestQueues, AnswerQueues
<1> QED BY <1>1, <1>2, <1>3, <1>4, <1>5, <1>6, <1>7, <1>8, <1>9

(* A clangd that is gone, or has just started, has nothing open. *)
LEMMA DeadFacts ==
  /\ Dead \in Servers /\ ~Dead.alive /\ ~Dead.initialized /\ Dead.computes = {}
  /\ \A d \in Documents : Dead.open[d] = 0
<1>1. [d \in Documents |-> 0] \in [Documents -> Nat]
  OBVIOUS
<1> QED BY <1>1 DEF Dead, Servers

(* The same of one that has just started. *)
LEMMA FreshFacts ==
  LET fresh == [Dead EXCEPT !.alive = TRUE]
  IN /\ fresh \in Servers /\ fresh.alive /\ ~fresh.initialized /\ fresh.computes = {}
     /\ \A d \in Documents : fresh.open[d] = 0
BY DeadFacts DEF Servers

(* One field of clangd is changed. *)
LEMMA ServerFields ==
  ASSUME NEW s \in Servers
  PROVE  /\ s.open \in [Documents -> Nat] /\ s.computes \subseteq Answers
         /\ \A c \in SUBSET Answers : [s EXCEPT !.computes = c] \in Servers
         /\ \A c \in SUBSET Answers :
              [s EXCEPT !.initialized = TRUE, !.computes = c] \in Servers
         /\ \A o \in [Documents -> Nat] : [s EXCEPT !.open = o] \in Servers
BY DEF Servers

(* What one completion writes. *)
LEMMA AskWrites ==
  ASSUME Shape, NEW doc \in Documents
  PROVE  /\ Opens(doc) \in RequestQueues
         /\ <<Completion(doc, nextRequestId, documentVersion)>> \in RequestQueues
         /\ <<Initialized>> \in RequestQueues
         /\ \A first \in {<<>>, <<Initialized>>} :
              LET sent == first \o Opens(doc)
                            \o <<Completion(doc, nextRequestId, documentVersion)>>
              IN sent \in RequestQueues /\ Sent(process, server.alive, sent) \in RequestQueues
<1>1. /\ nextRequestId \in Nat /\ documentVersion \in Nat
      /\ activeDocument \in Documents \cup {NoDocument}
  BY DEF Shape
<1>2. /\ <<Completion(doc, nextRequestId, documentVersion)>> \in RequestQueues
      /\ <<DidOpen(doc, documentVersion)>> \in RequestQueues
      /\ <<Initialized>> \in RequestQueues
      /\ activeDocument # NoDocument => <<DidClose(activeDocument)>> \in RequestQueues
  BY <1>1, MessageTypes, Elements
<1>3. Opens(doc) \in RequestQueues
  BY <1>2, Elements DEF Opens
<1>4. ASSUME NEW first \in {<<>>, <<Initialized>>}
      PROVE  first \o Opens(doc) \o <<Completion(doc, nextRequestId, documentVersion)>>
               \in RequestQueues
  <2>1. first \in RequestQueues
    BY <1>2, Elements
  <2>2. first \o Opens(doc) \in RequestQueues
    BY <1>3, <2>1, Elements
  <2> QED BY <1>2, <2>2, Elements
<1> QED BY <1>2, <1>3, <1>4, Elements DEF Sent

(* A completion that is asked for. *)
LEMMA AskType ==
  ASSUME Shape, NEW doc \in Documents, NEW first \in {<<>>, <<Initialized>>},
         AskCompletion(doc, first)
  PROVE  /\ toServer' \in RequestQueues /\ activeDocument' = doc
         /\ documentVersion' \in Nat \ {0} /\ nextRequestId' \in Nat \ {0}
         /\ call' \in Calls(nextRequestId', documentVersion')
         /\ shown' \in Shown
<1>1. toServer' \in RequestQueues
  BY AskWrites, Elements DEF Shape, AskCompletion
<1>2. /\ nextRequestId \in Nat \ {0} /\ nextRequestId' = nextRequestId + 1
      /\ documentVersion \in Nat \ {0} /\ documentVersion' = documentVersion + 1
  BY DEF Shape, AskCompletion
<1>3. [waits |-> "completion", doc |-> doc, id |-> nextRequestId, text |-> documentVersion]
        \in Calls(nextRequestId', documentVersion')
  BY <1>2 DEF Calls
<1>4. call' \in Calls(nextRequestId', documentVersion') /\ shown' \in Shown
  BY <1>2, <1>3, Elements DEF Shape, AskCompletion
<1> QED BY <1>1, <1>2, <1>4 DEF AskCompletion

(* A call that waits for `initialize`. *)
LEMMA WaitType ==
  ASSUME Shape, NEW doc \in Documents, WaitForInitialize(doc)
  PROVE  /\ nextRequestId' \in Nat \ {0}
         /\ call' \in Calls(nextRequestId', documentVersion')
         /\ documentVersion' = documentVersion /\ shown' = shown
         /\ <<Initialize(nextRequestId)>> \in RequestQueues
<1>1. nextRequestId \in Nat \ {0} /\ documentVersion \in Nat \ {0}
  BY DEF Shape
<1>2. nextRequestId' \in Nat \ {0} /\ call' \in Calls(nextRequestId', documentVersion')
  BY <1>1 DEF WaitForInitialize, Calls
<1>3. <<Initialize(nextRequestId)>> \in RequestQueues
  BY <1>1, MessageTypes, Elements
<1> QED BY <1>2, <1>3 DEF WaitForInitialize

(* The steps of the client keep the types. *)
LEMMA ClientType == Shape /\ Waiting /\ Client => Shape'
<1> USE Elements
<1>1. ASSUME Shape, NEW doc \in Documents, CompleteWithServer(doc)
      PROVE  Shape'
  BY <1>1, AskType DEF Shape, CompleteWithServer, Called
<1>2. ASSUME Shape, NEW doc \in Documents, CompleteUninitialized(doc)
      PROVE  Shape'
  <2>1. toServer' \in RequestQueues
    BY <1>2, WaitType DEF Shape, CompleteUninitialized, Sent
  <2> QED BY <1>2, <2>1, WaitType DEF Shape, CompleteUninitialized, Called
<1>3. ASSUME Shape, NEW doc \in Documents, CompleteStarted(doc)
      PROVE  Shape'
  <2>1. /\ process' = "running" /\ initialized' = FALSE /\ activeDocument' = NoDocument
        /\ fromServer' = <<>> /\ calls' \in Nat /\ UNCHANGED ends
        /\ toServer' = <<Initialize(nextRequestId)>>
        /\ server' = [Dead EXCEPT !.alive = TRUE] /\ WaitForInitialize(doc)
    BY <1>3 DEF Shape, CompleteStarted, Started, Reset, Called
  <2>2. server' \in Servers
    BY <2>1, FreshFacts
  <2> QED BY <1>3, <2>1, <2>2, WaitType DEF Shape
<1>4. ASSUME Shape, CompleteStarting
      PROVE  Shape'
  <2>1. /\ nextRequestId' \in Nat \ {0} /\ documentVersion' \in Nat \ {0}
        /\ call' = NoCall /\ shown' = NoShown /\ calls' \in Nat
        /\ UNCHANGED <<process, initialized, activeDocument, toServer, fromServer,
                       server, ends>>
    BY <1>4 DEF Shape, CompleteStarting, Called
  <2>2. call' \in Calls(nextRequestId', documentVersion') /\ shown' \in Shown
    BY <2>1
  <2> QED BY <1>4, <2>1, <2>2 DEF Shape
<1>5. ASSUME Shape, CompleteNotStarted
      PROVE  Shape'
  <2>1. /\ process' \in {"starting", "notRunning"} /\ initialized' = FALSE
        /\ activeDocument' = NoDocument /\ fromServer' = <<>> /\ toServer' = <<>>
        /\ shown' = NoShown /\ calls' \in Nat
        /\ UNCHANGED <<nextRequestId, documentVersion, call, server, ends>>
    BY <1>5 DEF Shape, CompleteNotStarted, Started, Reset, Called
  <2> QED BY <1>5, <2>1 DEF Shape
<1>6. ASSUME Shape, SkipAnswer
      PROVE  Shape'
  BY <1>6 DEF Shape, SkipAnswer, client
<1>7. ASSUME Shape, Waiting, InitializeAnswered
      PROVE  Shape'
  <2>1. call.doc \in Documents /\ AskCompletion(call.doc, <<Initialized>>)
    BY <1>7 DEF Waiting, InitializeAnswered
  <2>2. fromServer' \in AnswerQueues
    BY <1>7 DEF Shape, InitializeAnswered, Take
  <2> QED BY <1>7, <2>1, <2>2, AskType DEF Shape, InitializeAnswered
<1>8. ASSUME Shape, CompletionAnswered
      PROVE  Shape'
  <2>1. fromServer' \in AnswerQueues /\ Head(fromServer) \in Answers
    BY <1>8 DEF Shape, CompletionAnswered, Take
  <2>2. call \in Calls(nextRequestId, documentVersion) /\ documentVersion \in Nat
    BY <1>8 DEF Shape
  <2>3. shown' \in Shown
    BY <1>8, <2>1, <2>2 DEF CompletionAnswered, Calls, Shown, Answers
  <2> QED BY <1>8, <2>1, <2>3 DEF Shape, CompletionAnswered, client
<1>9. ASSUME Shape, TimeOut
      PROVE  Shape'
  BY <1>9 DEF Shape, TimeOut, client
<1>10. ASSUME Shape, Quit
       PROVE  Shape'
  BY <1>10, DeadFacts, CompletionAssumption DEF Shape, Quit, client
<1> QED BY <1>1, <1>2, <1>3, <1>4, <1>5, <1>6, <1>7, <1>8, <1>9, <1>10 DEF Client

(* What clangd reads is a request, and it goes on with the rest. *)
LEMMA ReadsType ==
  ASSUME Shape, Queue, NEW kind, ServerReads(kind)
  PROVE  /\ Head(toServer) = toServer[1] /\ Head(toServer) \in Requests
         /\ toServer # <<>> /\ Head(toServer).kind = kind
         /\ toServer' \in RequestQueues /\ WellFormed(Head(toServer), nextRequestId)
<1>1. toServer # <<>> /\ toServer \in Seq(Requests) /\ toServer' = Tail(toServer)
  BY DEF Shape, ServerReads, RequestQueues
<1>2. /\ Head(toServer) = toServer[1] /\ Head(toServer) \in Requests
      /\ 1 \in 1..Len(toServer) /\ toServer' \in Seq(Requests)
  BY <1>1, TailFacts
<1>3. \A i \in 1..Len(toServer) : WellFormed(toServer[i], nextRequestId)
  BY DEF Queue, Formed
<1>4. WellFormed(toServer[1], nextRequestId)
  BY <1>2, <1>3
<1> QED BY <1>1, <1>2, <1>4 DEF ServerReads, RequestQueues

(* The steps of QProcess and clangd keep the types. *)
LEMMA ServerType == Shape /\ Queue /\ Server => Shape'
<1> USE Elements
<1>1. ASSUME Shape, Starts \/ StartFails \/ ServerEnds
      PROVE  Shape'
  <2>1. server' \in Servers
    BY <1>1, FreshFacts, DeadFacts DEF Shape, Starts, StartFails, ServerEnds
  <2> QED BY <1>1, <2>1 DEF Shape, Starts, StartFails, ServerEnds, client
<1>2. ASSUME Shape, EndNoticed
      PROVE  Shape'
  BY <1>2 DEF Shape, EndNoticed, client
<1>3. ASSUME Shape, Queue, NEW kind, ServerReads(kind), server' \in Servers
      PROVE  Shape'
  BY <1>3, ReadsType DEF Shape, ServerReads, client
<1>4. ASSUME Shape, NEW m \in Requests, NEW text \in Nat
      PROVE  Compute(m.id, text) \in SUBSET Answers
  <2>1. server.computes \subseteq Answers /\ m.id \in Nat
    BY <1>4, ServerFields DEF Shape, Requests
  <2> QED BY <2>1 DEF Compute, Answers
<1>5. ASSUME Shape, Queue, ServerInitializes
      PROVE  Shape'
  <2>1. server' \in Servers
    BY <1>4, <1>5, ReadsType, ServerFields DEF Shape, ServerInitializes
  <2> QED BY <1>3, <1>5, <2>1 DEF ServerInitializes
<1>6. ASSUME Shape, Queue, ServerNotes
      PROVE  Shape'
  BY <1>3, <1>6 DEF Shape, ServerNotes
<1>7. ASSUME Shape, Queue, ServerOpens \/ ServerCloses
      PROVE  Shape'
  <2>a. /\ ServerOpens => ServerReads("didOpen")
        /\ ServerCloses => ServerReads("didClose")
    BY DEF ServerOpens, ServerCloses
  <2>b. Head(toServer) \in Requests
    BY <1>7, <2>a, ReadsType
  <2>1. PICK n \in Nat :
          server' = [server EXCEPT !.open = [@ EXCEPT ![Head(toServer).doc] = n]]
    BY <1>7, <2>b DEF ServerOpens, ServerCloses, Requests
  <2>2. server \in Servers
    BY <1>7 DEF Shape
  <2>3. [server.open EXCEPT ![Head(toServer).doc] = n] \in [Documents -> Nat]
    BY <2>2, ServerFields
  <2>4. server' \in Servers
    BY <2>1, <2>2, <2>3, ServerFields
  <2> QED BY <1>3, <1>7, <2>a, <2>4
<1>8. ASSUME Shape, Queue, ServerCompletes
      PROVE  Shape'
  <2>1. Head(toServer).doc \in Documents /\ Head(toServer) \in Requests
    BY <1>8, ReadsType DEF ServerCompletes, WellFormed
  <2>2. server \in Servers
    BY <1>8 DEF Shape
  <2>3. (IF server.initialized THEN server.open[Head(toServer).doc] ELSE 0) \in Nat
    BY <2>1, <2>2, ServerFields
  <2>4. server' \in Servers
    BY <1>4, <1>8, <2>1, <2>2, <2>3, ServerFields DEF ServerCompletes
  <2> QED BY <1>3, <1>8, <2>4 DEF ServerCompletes
<1>9. ASSUME Shape, ServerAnswers
      PROVE  Shape'
  <2>1. PICK a \in server.computes :
          /\ server' = [server EXCEPT !.computes = @ \ {a}]
          /\ fromServer' = Append(fromServer, a)
          /\ UNCHANGED <<process, client, call, shown, toServer, calls, ends>>
    BY <1>9 DEF ServerAnswers
  <2>2. server \in Servers
    BY <1>9 DEF Shape
  <2>3. a \in Answers /\ server' \in Servers
    BY <2>1, <2>2, ServerFields
  <2> QED BY <1>9, <2>1, <2>3 DEF Shape, client
<1> QED BY <1>1, <1>2, <1>5, <1>6, <1>7, <1>8, <1>9 DEF Server

-----------------------------------------------------------------------------
(* The exchange.                                                           *)

(* Nothing is written or read, at most an answer is sent, taken or lost, or *)
(* the call given up.                                                      *)
LEMMA LessOnTheWay ==
  ASSUME Shape, Exchange, Process',
         UNCHANGED <<initialized, activeDocument, nextRequestId, toServer>>,
         server'.alive = server.alive, server'.initialized = server.initialized,
         server'.open = server.open,
         OnTheirWay' \subseteq OnTheirWay,
         call' \in {call, NoCall}
  PROVE  Exchange'
<1>1. Queue
  BY DEF Exchange
<1>2. Formed'
  BY <1>1 DEF Queue, Formed, WellFormed
<1>3. Phase' /\ Chained(toServer)'
  BY <1>1 DEF Queue, Phase, Chained
<1>4. Opened' = Opened
  BY DEF Opened
<1>5. \A m : Ready(m) => Ready(m)'
  BY <1>4 DEF Ready
<1>6. Leads'
  BY <1>1, <1>4, <1>5 DEF Queue, Leads
<1>7. Queue'
  BY <1>2, <1>3, <1>6 DEF Queue
<1>8. Numbers'
  BY DEF Exchange, Numbers, Increasing
<1>9. Waiting'
  BY DEF Exchange, Waiting, NoCall
<1> QED BY <1>7, <1>8, <1>9 DEF Exchange

(* Nothing is to be read, and nobody is there to read it. *)
LEMMA Emptied ==
  ASSUME Shape, Exchange, Process', server' = Dead, toServer' = <<>>,
         nextRequestId' \in {nextRequestId, nextRequestId + 1},
         OnTheirWay' \subseteq OnTheirWay,
         \/ call' = NoCall
         \/ call' = call /\ initialized' = initialized
  PROVE  Exchange'
<1>1. Len(toServer') = 0 /\ 1..Len(toServer') = {} /\ ~server'.alive
  BY DeadFacts
<1>2. Queue'
  BY <1>1 DEF Queue, Formed, Phase, Chained, Leads
<1>3. /\ nextRequestId \in Nat /\ nextRequestId' \in Nat /\ nextRequestId <= nextRequestId'
      /\ \A a \in OnTheirWay : a.id \in Nat
  <2>1. nextRequestId \in Nat
    BY DEF Shape
  <2>2. \A i \in DOMAIN fromServer : fromServer[i] \in Answers
    BY DEF Shape, AnswerQueues
  <2>3. OnTheirWay \subseteq Answers
    BY <2>2, ServerFields DEF Shape, OnTheirWay
  <2> QED BY <2>1, <2>3 DEF Answers
<1>4. \A a \in OnTheirWay : a.id < nextRequestId
  BY DEF Exchange, Numbers
<1>5. Numbers'
  BY <1>1, <1>3, <1>4 DEF Numbers, Increasing
<1>6. Waiting'
  BY <1>1 DEF Exchange, Waiting, NoCall
<1> QED BY <1>2, <1>5, <1>6 DEF Exchange

(* What is on its way are answers, and taking one leaves the others. *)
LEMMA OnTheirWayType ==
  ASSUME Shape
  PROVE  /\ OnTheirWay \subseteq Answers /\ \A a \in OnTheirWay : a.id \in Nat
         /\ fromServer # <<>> => Head(fromServer) \in OnTheirWay
         /\ fromServer # <<>> /\ fromServer' = Tail(fromServer) /\ server' = server =>
              OnTheirWay' \subseteq OnTheirWay
<1>1. \A i \in DOMAIN fromServer : fromServer[i] \in Answers
  BY DEF Shape, AnswerQueues
<1>2. OnTheirWay \subseteq Answers
  BY <1>1, ServerFields DEF Shape, OnTheirWay
<1>3. ASSUME fromServer # <<>>, fromServer' = Tail(fromServer), server' = server
      PROVE  OnTheirWay' \subseteq OnTheirWay
  <2>1. /\ fromServer \in Seq(Answers) /\ Len(fromServer) \in Nat
        /\ DOMAIN fromServer = 1..Len(fromServer)
    BY DEF Shape, AnswerQueues
  <2>2. /\ Tail(fromServer) \in Seq(Answers) /\ Len(Tail(fromServer)) = Len(fromServer) - 1
        /\ \A i \in 1..Len(fromServer) - 1 : Tail(fromServer)[i] = fromServer[i + 1]
    BY <1>3, <2>1, TailFacts
  <2>3. DOMAIN fromServer' = 1..Len(fromServer) - 1
    BY <1>3, <2>2
  <2>4. ASSUME NEW i \in DOMAIN fromServer'
        PROVE  \E j \in DOMAIN fromServer : fromServer'[i] = fromServer[j]
    <3>1. i + 1 \in DOMAIN fromServer /\ fromServer'[i] = fromServer[i + 1]
      BY <1>3, <2>1, <2>2, <2>3
    <3> QED BY <3>1
  <2> QED BY <1>3, <2>4 DEF OnTheirWay
<1>4. fromServer # <<>> => Head(fromServer) \in OnTheirWay
  BY DEF Shape, AnswerQueues, OnTheirWay
<1> QED BY <1>2, <1>3, <1>4 DEF Answers

(* A call that begins without a running clangd, and ends at once. *)
LEMMA BeginWithout ==
  ASSUME Shape, Exchange, CompleteStarting \/ CompleteNotStarted
  PROVE  Exchange'
<1>1. ~server.alive /\ server = Dead /\ toServer = <<>>
  BY DEF Exchange, Process, CompleteStarting, CompleteNotStarted, Started
<1>2. CASE CompleteStarting
  <2>1. Process'
    BY <1>1, <1>2, DeadFacts DEF Exchange, Process, CompleteStarting, Called
  <2>2. OnTheirWay' \subseteq OnTheirWay
    BY <1>2 DEF CompleteStarting, OnTheirWay
  <2> QED BY <1>1, <1>2, <2>1, <2>2, Emptied DEF CompleteStarting, Called
<1>3. CASE CompleteNotStarted
  <2>1. /\ initialized' = FALSE /\ activeDocument' = NoDocument /\ fromServer' = <<>>
        /\ process' \in {"starting", "notRunning"} /\ call' = NoCall /\ server' = Dead
        /\ toServer' = <<>> /\ nextRequestId' = nextRequestId
    BY <1>1, <1>3 DEF CompleteNotStarted, Started, Reset, Called
  <2>2. Process'
    BY <2>1, DeadFacts, CompletionAssumption DEF Process
  <2>3. OnTheirWay' \subseteq OnTheirWay
    BY <2>1, DeadFacts DEF OnTheirWay
  <2> QED BY <2>1, <2>2, <2>3, Emptied
<1> QED BY <1>2, <1>3

(* A clangd that has just started and was written nothing, or `initialize`. *)
LEMMA JustStarted ==
  ASSUME Shape, Exchange, process' = "running", server' = [Dead EXCEPT !.alive = TRUE],
         initialized' = FALSE, activeDocument' = NoDocument, fromServer' = <<>>,
         \/ /\ toServer' = <<>> /\ call' = NoCall
            /\ nextRequestId' = nextRequestId
         \/ /\ toServer' = <<Initialize(nextRequestId)>>
            /\ \E doc \in Documents : WaitForInitialize(doc)
  PROVE  Exchange'
<1>1. /\ server'.alive /\ ~server'.initialized /\ server'.computes = {}
      /\ \A d \in Documents : server'.open[d] = 0
  BY FreshFacts
<1>2. Process'
  BY <1>1, CompletionAssumption DEF Process
<1>3. OnTheirWay' = {} /\ Opened' = {} /\ {activeDocument'} \ {NoDocument} = {}
  BY <1>1 DEF OnTheirWay, Opened
<1>4. CASE toServer' = <<>> /\ call' = NoCall
  <2>1. 1..Len(toServer') = {}
    BY <1>4
  <2>2. Queue'
    BY <1>3, <1>4, <2>1 DEF Queue, Formed, Phase, Chained, Leads
  <2>3. Numbers' /\ Waiting'
    BY <1>3, <1>4, <2>1 DEF Numbers, Increasing, Waiting, NoCall
  <2> QED BY <1>2, <2>2, <2>3 DEF Exchange
<1>5. ASSUME NEW doc \in Documents, toServer' = <<Initialize(nextRequestId)>>,
             WaitForInitialize(doc)
      PROVE  Exchange'
  <2>1. /\ nextRequestId \in Nat /\ nextRequestId' = nextRequestId + 1
        /\ call' = [waits |-> "initialize", doc |-> doc, id |-> nextRequestId, text |-> 0]
    BY <1>5 DEF Shape, WaitForInitialize
  <2>2. /\ Len(toServer') = 1 /\ toServer'[1] = Initialize(nextRequestId)
        /\ toServer'[1].kind = "initialize" /\ toServer'[1].id = nextRequestId
    BY <1>5 DEF Initialize, Message
  <2>3. Formed' /\ Phase' /\ Chained(toServer')
    BY <2>1, <2>2 DEF Formed, Phase, Chained, WellFormed, IsRequest
  <2>4. Leads'
    BY <1>3, <2>2 DEF Leads, Ready
  <2>5. Numbers' /\ Waiting'
    BY <1>3, <2>1, <2>2 DEF Numbers, Increasing, Waiting
  <2> QED BY <1>2, <2>3, <2>4, <2>5 DEF Exchange, Queue
<1> QED BY <1>4, <1>5

(* A queue with something written after it.  What was formed and numbered  *)
(* stays so, since numbers only grow.                                      *)
LEMMA Written ==
  ASSUME Shape, Formed, Chained(toServer), Numbers,
         nextRequestId' = nextRequestId + 1,
         NEW t \in RequestQueues, t # <<>>, toServer' = toServer \o t,
         OnTheirWay' \subseteq OnTheirWay,
         \A i \in 1..Len(t) : WellFormed(t[i], nextRequestId'),
         \A i \in 1..Len(t) : IsRequest(t[i]) => i = Len(t) /\ t[i].id = nextRequestId,
         Chained(t), toServer # <<>> => Follows(toServer[Len(toServer)], t[1])
  PROVE  /\ Formed' /\ Chained(toServer)' /\ Numbers'
         /\ Len(toServer') \in Nat \ {0} /\ toServer'[Len(toServer')] = t[Len(t)]
         /\ toServer'[1] = IF toServer = <<>> THEN t[1] ELSE toServer[1]
<1> DEFINE q == toServer
           n == Len(q)
           k == Len(t)
<1>1. /\ n \in Nat /\ k \in Nat \ {0} /\ Len(q') = n + k
      /\ \A i \in 1..n : q'[i] = q[i]
      /\ \A i \in 1..k : q'[n + i] = t[i]
      /\ q = <<>> <=> n = 0
  BY ConcatFacts DEF Shape, RequestQueues
<1>2. \A i \in 1..n + k : (i \in 1..n /\ q'[i] = q[i]) \/ (i - n \in 1..k /\ q'[i] = t[i - n])
  <2> SUFFICES ASSUME NEW i \in 1..n + k, i \notin 1..n
               PROVE  i - n \in 1..k /\ q'[i] = t[i - n]
    BY <1>1
  <2>1. i - n \in 1..k /\ i = n + (i - n)
    BY <1>1
  <2> QED BY <1>1, <2>1
<1>a. nextRequestId \in Nat
  BY DEF Shape
<1>b. \A i \in 1..n : q[i] \in Requests
  BY DEF Shape, RequestQueues
<1>3. nextRequestId \in Nat /\ \A i \in 1..n : q[i].id \in Nat
  BY <1>a, <1>b DEF Requests
<1>4. \A i \in 1..n : WellFormed(q[i], nextRequestId')
  BY <1>3 DEF Formed, WellFormed
<1>5. Formed'
  <2> SUFFICES ASSUME NEW i \in 1..n + k PROVE WellFormed(q'[i], nextRequestId')
    BY <1>1 DEF Formed
  <2> QED BY <1>2, <1>4
<1>6. Chained(q)'
  <2> SUFFICES ASSUME NEW i \in 1..n + k - 1 PROVE Follows(q'[i], q'[i + 1])
    BY <1>1 DEF Chained
  <2>1. CASE i < n
    <3>1. i \in 1..n - 1 /\ q'[i] = q[i] /\ q'[i + 1] = q[i + 1]
      BY <1>1, <2>1
    <3> QED BY <3>1 DEF Chained
  <2>2. CASE i = n
    <3>1. q'[i] = q[n] /\ q'[i + 1] = t[1] /\ q # <<>>
      BY <1>1, <2>2
    <3> QED BY <3>1
  <2>3. CASE i > n
    <3>1. i - n \in 1..k - 1 /\ i = n + (i - n) /\ i + 1 = n + (i - n + 1)
      BY <1>1, <2>3
    <3>2. q'[i] = t[i - n] /\ q'[i + 1] = t[i - n + 1]
      BY <1>1, <3>1
    <3>3. Follows(t[i - n], t[i - n + 1])
      BY <3>1 DEF Chained
    <3> QED BY <3>2, <3>3
  <2> QED BY <1>1, <2>1, <2>2, <2>3
<1>7. Numbers'
  <2>1. \A i \in 1..n : IsRequest(q[i]) => q[i].id < nextRequestId
    BY DEF Formed, WellFormed
  <2>2. \A a \in OnTheirWay : a.id \in Nat /\ a.id < nextRequestId
    BY OnTheirWayType DEF Numbers
  <2>3. \A i, j \in 1..n + k :
          i < j /\ IsRequest(q'[i]) /\ IsRequest(q'[j]) => q'[i].id < q'[j].id
    <3> SUFFICES ASSUME NEW i \in 1..n + k, NEW j \in 1..n + k, i < j,
                        IsRequest(q'[i]), IsRequest(q'[j])
                 PROVE  q'[i].id < q'[j].id
      OBVIOUS
    <3>1. CASE j \in 1..n
      <4>1. i \in 1..n /\ q'[i] = q[i] /\ q'[j] = q[j]
        BY <1>1, <3>1
      <4> QED BY <3>1, <4>1 DEF Numbers, Increasing
    <3>2. CASE j \notin 1..n
      <4>1. j - n \in 1..k /\ q'[j] = t[j - n]
        BY <1>2, <3>2
      <4>2. j - n = k /\ q'[j].id = nextRequestId
        BY <4>1
      <4>3. i \in 1..n /\ q'[i] = q[i]
        <5>1. ASSUME i \notin 1..n PROVE FALSE
          <6>1. i - n \in 1..k /\ q'[i] = t[i - n]
            BY <1>2, <5>1
          <6>2. i - n = k
            BY <6>1
          <6> QED BY <1>1, <4>2, <6>2
        <5> QED BY <1>1, <5>1
      <4> QED BY <2>1, <4>2, <4>3
    <3> QED BY <3>1, <3>2
  <2>4. \A a \in OnTheirWay', i \in 1..n + k : IsRequest(q'[i]) => a.id < q'[i].id
    <3> SUFFICES ASSUME NEW a \in OnTheirWay', NEW i \in 1..n + k, IsRequest(q'[i])
                 PROVE  a.id < q'[i].id
      OBVIOUS
    <3>1. a \in OnTheirWay
      OBVIOUS
    <3>2. CASE i \in 1..n /\ q'[i] = q[i]
      BY <3>1, <3>2 DEF Numbers
    <3>3. CASE i - n \in 1..k /\ q'[i] = t[i - n]
      BY <2>2, <3>1, <3>3
    <3> QED BY <1>2, <3>2, <3>3
  <2>5. \A a \in OnTheirWay' : a.id < nextRequestId'
    BY <1>3, <2>2
  <2> QED BY <1>1, <2>3, <2>4, <2>5 DEF Numbers, Increasing
<1>8. q'[Len(q')] = t[Len(t)]
  BY <1>1
<1>9. q'[1] = IF q = <<>> THEN t[1] ELSE q[1]
  BY <1>1
<1> QED BY <1>1, <1>5, <1>6, <1>7, <1>8, <1>9

(* A completion written to a clangd that runs: m closes the document of    *)
(* the last call, or ends the handshake.                                   *)
LEMMA AskRunning ==
  ASSUME Shape, Exchange, server.alive, server.initialized,
         NEW doc \in Documents, NEW m \in {Initialized, DidClose(activeDocument)},
         m = Initialized => toServer = <<>> /\ activeDocument = NoDocument,
         m # Initialized => initialized,
         toServer' = toServer \o <<m, DidOpen(doc, documentVersion),
                                   Completion(doc, nextRequestId, documentVersion)>>,
         activeDocument' = doc, initialized' = TRUE, server' = server, process' = process,
         nextRequestId' = nextRequestId + 1, OnTheirWay' \subseteq OnTheirWay,
         call' = [waits |-> "completion", doc |-> doc, id |-> nextRequestId,
                  text |-> documentVersion]
  PROVE  Exchange'
<1> DEFINE o == DidOpen(doc, documentVersion)
           c == Completion(doc, nextRequestId, documentVersion)
           t == <<m, o, c>>
<1>1. /\ nextRequestId \in Nat \ {0} /\ documentVersion \in Nat \ {0}
      /\ activeDocument \in Documents \cup {NoDocument} /\ process = "running"
      /\ activeDocument \in Documents <=> initialized
  BY DEF Shape, Exchange, Process
<1>2. /\ o.kind = "didOpen" /\ o.doc = doc /\ o.version = documentVersion
      /\ c.kind = "completion" /\ c.doc = doc /\ c.version = documentVersion
      /\ c.id = nextRequestId
      /\ o \in Requests /\ c \in Requests
  BY <1>1, MessageTypes DEF DidOpen, Completion, Message
<1>3. /\ m.kind \in {"initialized", "didClose"}
      /\ m = Initialized => m.kind = "initialized"
      /\ m # Initialized => m.kind = "didClose" /\ m.doc = activeDocument
      /\ m # Initialized => activeDocument \in Documents
      /\ m \in Requests
  BY <1>1, MessageTypes DEF Initialized, DidClose, Message
<1>4. /\ t \in RequestQueues /\ t # <<>> /\ Len(t) = 3
      /\ t[1] = m /\ t[2] = o /\ t[3] = c
  BY <1>2, <1>3 DEF RequestQueues
<1> HIDE DEF t, o, c
<1>5. \A i \in 1..Len(t) : WellFormed(t[i], nextRequestId')
  <2>1. WellFormed(m, nextRequestId') /\ WellFormed(o, nextRequestId')
        /\ WellFormed(c, nextRequestId')
    BY <1>1, <1>2, <1>3 DEF WellFormed, IsRequest
  <2> QED BY <1>4, <2>1
<1>6. \A i \in 1..Len(t) : IsRequest(t[i]) => i = Len(t) /\ t[i].id = nextRequestId
  <2>1. ~IsRequest(m) /\ ~IsRequest(o) /\ c.id = nextRequestId
    BY <1>2, <1>3 DEF IsRequest
  <2> QED BY <1>4, <2>1
<1>7. Chained(t)
  <2>1. Follows(m, o) /\ Follows(o, c)
    BY <1>2, <1>3 DEF Follows
  <2>2. \A i \in 1..Len(t) - 1 : i = 1 \/ i = 2
    BY <1>4
  <2>3. Follows(t[1], t[2]) /\ Follows(t[2], t[3])
    BY <1>4, <2>1
  <2>4. \A i \in 1..Len(t) - 1 : Follows(t[i], t[i + 1])
    BY <2>2, <2>3
  <2> QED BY <2>4 DEF Chained
<1>8. toServer # <<>> => Follows(toServer[Len(toServer)], t[1])
  BY <1>3, <1>4 DEF Exchange, Queue, Leads, Follows
<1>9. Formed /\ Chained(toServer) /\ Numbers /\ toServer' = toServer \o t
  BY DEF Exchange, Queue, t, o, c
<1>10. /\ Formed' /\ Chained(toServer)' /\ Numbers'
       /\ Len(toServer') \in Nat \ {0} /\ toServer'[Len(toServer')] = c
       /\ toServer'[1] = IF toServer = <<>> THEN m ELSE toServer[1]
  BY <1>4, <1>5, <1>6, <1>7, <1>8, <1>9, Written
<1>11. \A i \in 1..Len(toServer') : (i \in 1..Len(toServer) /\ toServer'[i] = toServer[i])
                                    \/ toServer'[i] \in {m, o, c}
  <2>1. /\ Len(toServer) \in Nat /\ Len(toServer') = Len(toServer) + 3
        /\ \A i \in 1..Len(toServer) : toServer'[i] = toServer[i]
        /\ \A i \in 1..3 : toServer'[Len(toServer) + i] = t[i]
    BY <1>4, <1>9, ConcatFacts DEF Shape, RequestQueues
  <2> SUFFICES ASSUME NEW i \in 1..Len(toServer'), i \notin 1..Len(toServer)
               PROVE  toServer'[i] \in {m, o, c}
    BY <2>1
  <2>2. i - Len(toServer) \in 1..3 /\ i = Len(toServer) + (i - Len(toServer))
    BY <2>1
  <2> QED BY <1>4, <2>1, <2>2
<1>12. Phase'
  <2>1. \A i \in 1..Len(toServer) : toServer[i].kind # "initialize"
    <3>1. CASE initialized
      BY <3>1 DEF Exchange, Queue, Phase
    <3>2. CASE ~initialized
      BY <3>2
    <3> QED BY <3>1, <3>2
  <2>2. m.kind # "initialize" /\ o.kind # "initialize" /\ c.kind # "initialize"
    BY <1>2, <1>3
  <2>3. \A i \in 1..Len(toServer') : toServer'[i].kind # "initialize"
    BY <1>11, <2>1, <2>2
  <2> QED BY <2>3 DEF Phase
<1>13. Leads'
  <2>1. Opened' = Opened
    BY DEF Opened
  <2>2. toServer = <<>> => Opened = {activeDocument} \ {NoDocument}
    BY DEF Exchange, Queue, Leads
  <2>3. toServer = <<>> => Ready(m)
    BY <1>3, <2>2, CompletionAssumption DEF Ready
  <2>4. toServer # <<>> => Ready(toServer[1])
    BY DEF Exchange, Queue, Leads
  <2>5. Ready(toServer'[1])
    BY <1>10, <2>3, <2>4
  <2>6. Ready(toServer[1])'
    BY <2>1, <2>5 DEF Ready
  <2>7. toServer' # <<>>
    BY <1>10
  <2> QED BY <1>2, <1>10, <2>6, <2>7 DEF Leads
<1>14. Waiting'
  <2>1. \A a \in OnTheirWay' : a.id # nextRequestId
    BY <1>1, OnTheirWayType DEF Exchange, Numbers
  <2>2. ASSUME NEW i \in 1..Len(toServer'), toServer'[i].kind = "completion",
               toServer'[i].id = nextRequestId
        PROVE  toServer'[i].version = documentVersion
    <3>1. CASE i \in 1..Len(toServer) /\ toServer'[i] = toServer[i]
      <4>1. WellFormed(toServer[i], nextRequestId)
        BY <3>1, <1>9 DEF Formed
      <4> QED BY <1>1, <2>2, <3>1, <4>1 DEF WellFormed, IsRequest
    <3>2. CASE toServer'[i] \in {m, o, c}
      BY <1>2, <1>3, <2>2, <3>2
    <3> QED BY <1>11, <3>1, <3>2
  <2> QED BY <2>1, <2>2 DEF Waiting
<1>15. Process'
  BY <1>1 DEF Exchange, Process
<1> QED BY <1>10, <1>12, <1>13, <1>14, <1>15 DEF Exchange, Queue

(* What one completion writes, spelt out: three messages, of which the     *)
(* first ends the handshake or closes the document open.                   *)
LEMMA AskSends ==
  ASSUME Shape, NEW doc \in Documents
  PROVE  LET rest == <<DidOpen(doc, documentVersion),
                       Completion(doc, nextRequestId, documentVersion)>>
         IN /\ activeDocument # NoDocument =>
                 <<>> \o Opens(doc) \o <<Completion(doc, nextRequestId, documentVersion)>>
                   = <<DidClose(activeDocument)>> \o rest
            /\ activeDocument = NoDocument =>
                 <<Initialized>> \o Opens(doc)
                     \o <<Completion(doc, nextRequestId, documentVersion)>>
                   = <<Initialized>> \o rest
<1> DEFINE o == DidOpen(doc, documentVersion)
           c == Completion(doc, nextRequestId, documentVersion)
           x == DidClose(activeDocument)
           y == Initialized
<1> HIDE DEF o, c, x, y
<1>1. (<<>> \o (<<x>> \o <<o>>)) \o <<c>> = <<x>> \o <<o, c>>
  BY ThreeSteps
<1>2. (<<y>> \o (<<>> \o <<o>>)) \o <<c>> = <<y>> \o <<o, c>>
  BY ThreeSteps
<1>3. activeDocument # NoDocument => Opens(doc) = <<x>> \o <<o>>
  BY DEF Opens, o, x
<1>4. activeDocument = NoDocument => Opens(doc) = <<>> \o <<o>>
  BY DEF Opens, o
<1>5. activeDocument # NoDocument =>
        (<<>> \o Opens(doc)) \o <<c>> = <<x>> \o <<o, c>>
  BY <1>1, <1>3
<1>6. activeDocument = NoDocument =>
        (<<y>> \o Opens(doc)) \o <<c>> = <<y>> \o <<o, c>>
  BY <1>2, <1>4
<1> QED BY <1>5, <1>6 DEF o, c, x, y

(* A completion that is asked for, of a clangd that runs or not. *)
LEMMA AskKeeps ==
  ASSUME Shape, Exchange, NEW doc \in Documents,
         \/ CompleteWithServer(doc)
         \/ InitializeAnswered /\ call.doc = doc
  PROVE  Exchange'
<1> DEFINE rest == <<DidOpen(doc, documentVersion),
                     Completion(doc, nextRequestId, documentVersion)>>
           o == DidOpen(doc, documentVersion)
           c == Completion(doc, nextRequestId, documentVersion)
<1>1. OnTheirWay' \subseteq OnTheirWay
  BY OnTheirWayType DEF CompleteWithServer, InitializeAnswered, Take, OnTheirWay
<1>2. /\ activeDocument' = doc /\ initialized' = TRUE /\ UNCHANGED <<process, server>>
      /\ nextRequestId' = nextRequestId + 1
      /\ \E first \in {<<>>, <<Initialized>>} : AskCompletion(doc, first)
  BY DEF CompleteWithServer, InitializeAnswered, AskCompletion, Called, Shape
<1>3. CASE ~server.alive
  <2>1. server' = Dead /\ toServer = <<>>
    BY <1>2, <1>3 DEF Exchange, Process
  <2>2. toServer' = <<>>
    BY <1>2, <1>3, <2>1 DEF AskCompletion, Sent
  <2>a. process # "starting"
    BY DEF Exchange, Process, CompleteWithServer, InitializeAnswered, NoCall
  <2>3. Process'
    BY <1>2, <2>1, <2>2, <2>a, DeadFacts DEF Process
  <2>4. Numbers'
    <3>1. 1..Len(toServer') = {}
      BY <2>2
    <3>2. \A a \in OnTheirWay' : a.id < nextRequestId'
      BY <1>1, <1>2, OnTheirWayType DEF Exchange, Numbers, Shape
    <3> QED BY <3>1, <3>2 DEF Numbers, Increasing
  <2>5. Queue'
    <3>1. 1..Len(toServer') = {} /\ ~server'.alive
      BY <2>1, <2>2, DeadFacts
    <3> QED BY <2>2, <3>1 DEF Queue, Formed, Phase, Chained, Leads
  <2>6. Waiting'
    <3>1. \A a \in OnTheirWay' : a.id # nextRequestId
      BY <1>1, OnTheirWayType DEF Exchange, Numbers, Shape
    <3>2. 1..Len(toServer') = {}
      BY <2>2
    <3>3. \/ call' = NoCall
          \/ call'.waits = "completion" /\ call'.id = nextRequestId
      BY <1>2 DEF AskCompletion
    <3> QED BY <1>2, <3>1, <3>2, <3>3 DEF Waiting, NoCall
  <2> QED BY <2>3, <2>4, <2>5, <2>6 DEF Exchange
<1>4. CASE server.alive
  <2>1. /\ process = "running"
        /\ call' = [waits |-> "completion", doc |-> doc, id |-> nextRequestId,
                    text |-> documentVersion]
    BY <1>2, <1>4 DEF Exchange, Process, AskCompletion
  <2>2. CASE CompleteWithServer(doc)
    <3>1. initialized /\ activeDocument # NoDocument /\ server.initialized
      BY <1>4, <2>2, CompletionAssumption DEF Exchange, Process, CompleteWithServer
    <3>2. toServer' = toServer \o (<<DidClose(activeDocument)>> \o rest)
      BY <1>4, <2>1, <2>2, <3>1, AskSends DEF CompleteWithServer, AskCompletion, Sent
    <3>3. <<DidClose(activeDocument)>> \o rest = <<DidClose(activeDocument), o, c>>
      BY Three
    <3>4. DidClose(activeDocument) # Initialized
      BY DEF DidClose, Initialized, Message
    <3> QED BY <1>1, <1>2, <1>4, <2>1, <3>1, <3>2, <3>3, <3>4, AskRunning
  <2>3. CASE InitializeAnswered /\ call.doc = doc
    <3>1. /\ fromServer # <<>> /\ Head(fromServer).id = call.id
          /\ call.waits = "initialize" /\ ~initialized /\ server.initialized
      BY <1>4, <2>3 DEF Exchange, Process, Waiting, InitializeAnswered, Take
    <3>2. activeDocument = NoDocument
      BY <3>1 DEF Shape, Exchange, Process
    <3>3. toServer = <<>>
      <4>1. SUFFICES ASSUME toServer # <<>> PROVE FALSE
        OBVIOUS
      <4>2. toServer[Len(toServer)].id = call.id
        BY <3>1, <4>1 DEF Exchange, Waiting
      <4>3. Len(toServer) \in 1..Len(toServer)
        BY <4>1 DEF Shape, RequestQueues
      <4>4. IsRequest(toServer[Len(toServer)])
        BY <3>1, <4>3 DEF Exchange, Queue, Phase, IsRequest
      <4>5. Head(fromServer) \in OnTheirWay /\ Head(fromServer).id \in Nat
        BY <3>1, OnTheirWayType
      <4>6. Head(fromServer).id < toServer[Len(toServer)].id
        BY <4>3, <4>4, <4>5 DEF Exchange, Numbers
      <4> QED BY <3>1, <4>2, <4>5, <4>6
    <3>4. toServer' = toServer \o (<<Initialized>> \o rest)
      BY <1>4, <2>1, <2>3, <3>2, AskSends DEF InitializeAnswered, AskCompletion, Sent
    <3>5. <<Initialized>> \o rest = <<Initialized, o, c>>
      BY Three
    <3> QED BY <1>1, <1>2, <1>4, <2>1, <3>1, <3>2, <3>3, <3>4, <3>5, AskRunning
  <2> QED BY <2>2, <2>3
<1> QED BY <1>3, <1>4

(* A second `initialize`, after one that was not answered in time. *)
LEMMA UninitializedKeeps ==
  ASSUME Shape, Exchange, NEW doc \in Documents, CompleteUninitialized(doc)
  PROVE  Exchange'
<1> DEFINE m == Initialize(nextRequestId)
           t == <<m>>
<1>1. /\ ~initialized /\ process = "running" /\ call = NoCall
      /\ UNCHANGED <<process, initialized, activeDocument, fromServer, server>>
      /\ nextRequestId' = nextRequestId + 1 /\ nextRequestId \in Nat \ {0}
      /\ call' = [waits |-> "initialize", doc |-> doc, id |-> nextRequestId, text |-> 0]
      /\ toServer' = toServer \o (IF server.alive THEN t ELSE <<>>)
      /\ OnTheirWay' = OnTheirWay
  BY DEF CompleteUninitialized, Called, WaitForInitialize, Sent, OnTheirWay, Shape
<1>2. CASE ~server.alive
  <2>1. server = Dead /\ toServer = <<>> /\ toServer' = <<>>
    BY <1>1, <1>2 DEF Exchange, Process
  <2>2. 1..Len(toServer') = {} /\ ~server'.alive
    BY <1>1, <2>1, DeadFacts
  <2>3. Process'
    BY <1>1, <2>1, DeadFacts DEF Exchange, Process
  <2>4. Queue'
    BY <2>1, <2>2 DEF Queue, Formed, Phase, Chained, Leads
  <2>5. Numbers'
    BY <1>1, <2>2, OnTheirWayType DEF Exchange, Numbers, Increasing
  <2>6. Waiting'
    BY <1>1, <2>1 DEF Waiting
  <2> QED BY <2>3, <2>4, <2>5, <2>6 DEF Exchange
<1>3. CASE server.alive
  <2>1. m \in Requests /\ m.kind = "initialize" /\ m.id = nextRequestId
    BY <1>1, MessageTypes DEF Initialize, Message
  <2>2. t \in RequestQueues /\ t # <<>> /\ Len(t) = 1 /\ t[1] = m
    BY <2>1 DEF RequestQueues
  <2> HIDE DEF m, t
  <2>3. /\ \A i \in 1..Len(t) : WellFormed(t[i], nextRequestId')
        /\ \A i \in 1..Len(t) : IsRequest(t[i]) => i = Len(t) /\ t[i].id = nextRequestId
    BY <1>1, <2>1, <2>2 DEF WellFormed, IsRequest
  <2>4. Chained(t)
    BY <2>2 DEF Chained
  <2>5. toServer # <<>> => Follows(toServer[Len(toServer)], t[1])
    <3>1. toServer # <<>> => Len(toServer) \in 1..Len(toServer)
      BY DEF Shape, RequestQueues
    <3>2. toServer # <<>> => toServer[Len(toServer)].kind = "initialize"
      BY <1>1, <3>1 DEF Exchange, Queue, Phase
    <3> QED BY <2>1, <2>2, <3>2 DEF Follows
  <2>6. Formed /\ Chained(toServer) /\ Numbers /\ toServer' = toServer \o t
    BY <1>1, <1>3 DEF Exchange, Queue
  <2>7. /\ Formed' /\ Chained(toServer)' /\ Numbers'
        /\ Len(toServer') \in Nat \ {0} /\ toServer'[Len(toServer')] = m
        /\ toServer'[1] = IF toServer = <<>> THEN m ELSE toServer[1]
    BY <1>1, <2>2, <2>3, <2>4, <2>5, <2>6, Written
  <2>8. Phase'
    <3>1. /\ Len(toServer) \in Nat /\ Len(toServer') = Len(toServer) + 1
          /\ \A i \in 1..Len(toServer) : toServer'[i] = toServer[i]
          /\ toServer'[Len(toServer) + 1] = m
      <4>1. toServer \in Seq(Requests) /\ t \in Seq(Requests)
        BY <2>2 DEF Shape, RequestQueues
      <4>2. /\ Len(toServer) \in Nat /\ Len(toServer') = Len(toServer) + 1
            /\ \A i \in 1..Len(toServer) : toServer'[i] = toServer[i]
            /\ \A i \in 1..1 : toServer'[Len(toServer) + i] = t[i]
        BY <2>2, <2>6, <4>1, ConcatFacts
      <4> QED BY <2>2, <4>2
    <3>2. \A i \in 1..Len(toServer) : toServer[i].kind = "initialize"
      BY <1>1 DEF Exchange, Queue, Phase
    <3>3. \A i \in 1..Len(toServer') : toServer'[i].kind = "initialize"
      <4> SUFFICES ASSUME NEW i \in 1..Len(toServer')
                   PROVE  toServer'[i].kind = "initialize"
        OBVIOUS
      <4>1. CASE i \in 1..Len(toServer)
        BY <3>1, <3>2, <4>1
      <4>2. CASE i = Len(toServer) + 1
        BY <2>1, <3>1, <4>2
      <4> QED BY <3>1, <4>1, <4>2
    <3> QED BY <1>1, <3>3 DEF Phase
  <2>9. Leads'
    <3>1. Opened' = Opened /\ Opened = {activeDocument} \ {NoDocument}
          /\ activeDocument = NoDocument
      BY <1>1, <1>3 DEF Opened, Exchange, Queue, Leads, Process, Shape
    <3>2. toServer'[1].kind = "initialize"
      <4>1. 1 \in 1..Len(toServer')
        BY <2>7
      <4> QED BY <1>1, <2>8, <4>1 DEF Phase
    <3> QED BY <1>1, <3>1, <3>2 DEF Leads, Ready
  <2>10. Waiting'
    BY <1>1, <2>1, <2>7 DEF Waiting
  <2>11. Process'
    BY <1>1, <1>3 DEF Exchange, Process, NoCall
  <2> QED BY <2>7, <2>8, <2>9, <2>10, <2>11 DEF Exchange, Queue
<1> QED BY <1>2, <1>3

(* What clangd reads, and what that leaves in the queue. *)
LEMMA ReadQueue ==
  ASSUME Shape, Exchange, NEW kind, ServerReads(kind)
  PROVE  /\ toServer # <<>> /\ server.alive /\ Head(toServer) = toServer[1]
         /\ toServer[1] \in Requests /\ toServer[1].kind = kind
         /\ WellFormed(toServer[1], nextRequestId) /\ Ready(toServer[1])
         /\ initialized <=> kind # "initialize"
         /\ Formed' /\ Phase' /\ Chained(toServer)'
         /\ toServer' = <<>> => toServer[Len(toServer)] = toServer[1]
         /\ toServer' # <<>> => /\ Follows(toServer[1], toServer'[1])
                               /\ toServer'[1] \in Requests
                               /\ 1 \in 1..Len(toServer')
                               /\ toServer'[Len(toServer')] = toServer[Len(toServer)]
         /\ \A i \in 1..Len(toServer') :
              /\ i + 1 \in 1..Len(toServer) /\ toServer'[i] = toServer[i + 1]
              /\ IsRequest(toServer[1]) /\ IsRequest(toServer'[i]) =>
                   toServer[1].id < toServer'[i].id
         /\ Increasing(toServer)'
<1> DEFINE q == toServer
           n == Len(q)
<1>1. /\ q # <<>> /\ q \in Seq(Requests) /\ q' = Tail(q)
      /\ UNCHANGED <<process, client, call, shown, fromServer, calls, ends>>
  BY DEF Shape, RequestQueues, ServerReads
<1>2. /\ n \in Nat \ {0} /\ Len(q') = n - 1 /\ Head(q) = q[1] /\ q[1] \in Requests
      /\ q' \in Seq(Requests)
      /\ \A i \in 1..n - 1 : q'[i] = q[i + 1]
  BY <1>1, TailFacts
<1>3. \A i \in 1..n - 1 : i \in 1..n /\ i + 1 \in 1..n
  BY <1>2
<1>4. q[1].kind = kind
  BY <1>2 DEF ServerReads
<1>5. server.alive
  BY <1>1 DEF Exchange, Process
<1>6. Ready(q[1])
  BY <1>1 DEF Exchange, Queue, Leads
<1>7. WellFormed(q[1], nextRequestId)
  BY <1>2 DEF Exchange, Queue, Formed
<1>8. initialized <=> kind # "initialize"
  <2>1. 1 \in 1..n
    BY <1>2
  <2> QED BY <1>4, <2>1 DEF Exchange, Queue, Phase, Shape
<1>9. Formed'
  BY <1>1, <1>2, <1>3 DEF Exchange, Queue, Formed, client
<1>10. Phase'
  BY <1>1, <1>2, <1>3 DEF Exchange, Queue, Phase, client
<1>11. Chained(q)'
  <2> SUFFICES ASSUME NEW i \in 1..Len(q') - 1 PROVE Follows(q'[i], q'[i + 1])
    BY DEF Chained
  <2>1. i + 1 \in 1..n - 1 /\ q'[i] = q[i + 1] /\ q'[i + 1] = q[i + 2]
    BY <1>2
  <2>2. Follows(q[i + 1], q[i + 1 + 1])
    BY <2>1 DEF Exchange, Queue, Chained
  <2>3. i + 1 + 1 = i + 2
    BY <1>2
  <2> QED BY <2>1, <2>2, <2>3
<1>12. q' = <<>> => q[n] = q[1]
  <2>1. q' = <<>> => Len(q') = 0
    OBVIOUS
  <2>2. Len(q') = 0 => n = 1
    BY <1>2
  <2> QED BY <2>1, <2>2
<1>13. q' # <<>> => /\ Follows(q[1], q'[1]) /\ q'[1] \in Requests
                   /\ 1 \in 1..Len(q') /\ q'[Len(q')] = q[n]
  <2> SUFFICES ASSUME q' # <<>>
               PROVE  /\ Follows(q[1], q'[1]) /\ q'[1] \in Requests
                      /\ 1 \in 1..Len(q') /\ q'[Len(q')] = q[n]
    OBVIOUS
  <2>1. 1 \in 1..n - 1 /\ q'[1] = q[2] /\ 1 \in 1..Len(q')
    BY <1>2
  <2>2. Follows(q[1], q[1 + 1])
    BY <2>1 DEF Exchange, Queue, Chained
  <2>3. q'[n - 1] = q[n]
    BY <1>2, <2>1
  <2> QED BY <1>2, <2>1, <2>2, <2>3
<1>14. ASSUME NEW i \in 1..Len(q')
       PROVE  /\ i + 1 \in 1..n /\ q'[i] = q[i + 1]
              /\ IsRequest(q[1]) /\ IsRequest(q'[i]) => q[1].id < q'[i].id
  <2>1. i + 1 \in 1..n /\ q'[i] = q[i + 1] /\ 1 < i + 1 /\ 1 \in 1..n
    BY <1>2
  <2> QED BY <2>1 DEF Exchange, Numbers, Increasing
<1>15. Increasing(q)'
  <2> SUFFICES ASSUME NEW i \in 1..Len(q'), NEW j \in 1..Len(q'), i < j,
                      IsRequest(q'[i]), IsRequest(q'[j])
               PROVE  q'[i].id < q'[j].id
    BY DEF Increasing
  <2>1. /\ i + 1 \in 1..n /\ j + 1 \in 1..n /\ i + 1 < j + 1
        /\ q'[i] = q[i + 1] /\ q'[j] = q[j + 1]
    BY <1>2
  <2> QED BY <2>1 DEF Exchange, Numbers, Increasing
<1> HIDE DEF q, n
<1> QED BY <1>1, <1>2, <1>4, <1>5, <1>6, <1>7, <1>8, <1>9, <1>10, <1>11, <1>12, <1>13,
           <1>14, <1>15 DEF q, n

(* Reading keeps the exchange if it leads on, and if what is computed is   *)
(* the answer to what was read.                                            *)
LEMMA ReadKeeps ==
  ASSUME Shape, Exchange, NEW kind, ServerReads(kind), Leads', Process',
         NEW text \in Nat,
         OnTheirWay' \subseteq OnTheirWay \cup
           {a \in {[id |-> toServer[1].id, text |-> text]} : IsRequest(toServer[1])},
         kind = "completion" => text = toServer[1].version
  PROVE  Exchange'
<1> DEFINE m == toServer[1]
<1>1. UNCHANGED <<initialized, nextRequestId, call>>
  BY DEF ServerReads, client
<1>2. Queue'
  BY ReadQueue DEF Queue
<1>3. m \in Requests /\ WellFormed(m, nextRequestId) /\ nextRequestId \in Nat
  BY ReadQueue DEF Shape
<1>4. \A a \in OnTheirWay' : a \in OnTheirWay \/ (IsRequest(m) /\ a.id = m.id /\ a.text = text)
  OBVIOUS
<1>5. Numbers'
  <2>1. \A a \in OnTheirWay' : a.id < nextRequestId'
    BY <1>1, <1>3, <1>4 DEF Exchange, Numbers, WellFormed
  <2>2. \A a \in OnTheirWay', i \in 1..Len(toServer') :
          IsRequest(toServer'[i]) => a.id < toServer'[i].id
    <3> SUFFICES ASSUME NEW a \in OnTheirWay', NEW i \in 1..Len(toServer'),
                        IsRequest(toServer'[i])
                 PROVE  a.id < toServer'[i].id
      OBVIOUS
    <3>1. /\ i + 1 \in 1..Len(toServer) /\ toServer'[i] = toServer[i + 1]
          /\ IsRequest(m) => m.id < toServer'[i].id
      BY ReadQueue
    <3> QED BY <1>4, <3>1 DEF Exchange, Numbers
  <2> QED BY <2>1, <2>2, ReadQueue DEF Numbers
<1>6. Waiting'
  <2>1. CASE call.waits = "initialize"
    <3>1. ~initialized /\ call.doc \in Documents
      BY <2>1 DEF Exchange, Waiting
    <3>2. toServer' # <<>> => toServer'[Len(toServer')].id = call.id
      BY <2>1, ReadQueue DEF Exchange, Waiting
    <3> QED BY <1>1, <2>1, <3>1, <3>2 DEF Waiting
  <2>2. CASE call.waits = "completion"
    <3>1. initialized /\ kind # "initialize"
      BY <2>2, ReadQueue DEF Exchange, Waiting
    <3>2. \A a \in OnTheirWay' : a.id = call.id => a.text = call.text
      <4> SUFFICES ASSUME NEW a \in OnTheirWay', a.id = call.id
                   PROVE  a.text = call.text
        OBVIOUS
      <4>1. CASE a \in OnTheirWay
        BY <2>2, <4>1 DEF Exchange, Waiting
      <4>2. CASE IsRequest(m) /\ a.id = m.id /\ a.text = text
        <5>1. m.kind = "completion" /\ kind = "completion" /\ 1 \in 1..Len(toServer)
          BY <3>1, <4>2, ReadQueue DEF IsRequest, Shape, RequestQueues
        <5> QED BY <2>2, <4>2, <5>1 DEF Exchange, Waiting
      <4> QED BY <1>4, <4>1, <4>2
    <3>3. \A i \in 1..Len(toServer') :
            toServer'[i].kind = "completion" /\ toServer'[i].id = call.id =>
              toServer'[i].version = call.text
      BY <2>2, ReadQueue DEF Exchange, Waiting
    <3> QED BY <1>1, <2>2, <3>1, <3>2, <3>3 DEF Waiting
  <2>3. CASE call.waits \notin {"initialize", "completion"}
    BY <1>1, <2>3 DEF Waiting
  <2> QED BY <2>1, <2>2, <2>3
<1> QED BY <1>2, <1>5, <1>6 DEF Exchange

(* A clangd that reads stays alive, and has been initialized after that.   *)
LEMMA ReadProcess ==
  ASSUME Shape, Exchange, NEW kind, ServerReads(kind),
         server'.alive = server.alive, server'.initialized
  PROVE  Process'
<1>1. server.alive /\ process = "running"
  BY ReadQueue DEF Exchange, Process
<1>2. UNCHANGED <<process, initialized, activeDocument, fromServer, call>>
  BY DEF ServerReads, client
<1> QED BY <1>1, <1>2 DEF Exchange, Process

(* The first message of a clangd that was initialized; what it opened and  *)
(* closed before is what the message needs.                                *)
LEMMA ReadInitialized ==
  ASSUME Shape, Exchange, NEW kind, kind # "initialize", ServerReads(kind)
  PROVE  /\ initialized /\ server.initialized /\ activeDocument \in Documents
         /\ server \in Servers /\ Head(toServer) = toServer[1]
         /\ UNCHANGED <<initialized, activeDocument, fromServer>>
         /\ toServer' # <<>> =>
              /\ toServer'[Len(toServer')].kind = "completion"
              /\ toServer'[Len(toServer')].doc = activeDocument
         /\ toServer' = <<>> =>
              toServer[1].kind = "completion" /\ toServer[1].doc = activeDocument
<1>1. initialized /\ server.alive /\ toServer # <<>> /\ Head(toServer) = toServer[1]
  BY ReadQueue
<1>2. server.initialized /\ activeDocument \in Documents
  BY <1>1 DEF Exchange, Process
<1>3. /\ toServer[Len(toServer)].kind = "completion"
      /\ toServer[Len(toServer)].doc = activeDocument
  BY <1>1 DEF Exchange, Queue, Leads
<1>4. UNCHANGED <<initialized, activeDocument, fromServer>>
  BY DEF ServerReads, client
<1> QED BY <1>1, <1>2, <1>3, <1>4, ReadQueue DEF Shape

(* clangd is initialized, again or for the first time. *)
LEMMA InitializesKeeps ==
  ASSUME Shape, Exchange, ServerInitializes
  PROVE  Exchange'
<1>1. ServerReads("initialize") /\ ~initialized /\ Head(toServer) = toServer[1]
      /\ toServer[1].kind = "initialize"
  BY ReadQueue DEF ServerInitializes, Shape
<1>2. /\ server'.alive = server.alive /\ server'.initialized /\ server'.open = server.open
      /\ server'.computes = server.computes \cup {[id |-> toServer[1].id, text |-> 0]}
  BY <1>1 DEF ServerInitializes, Compute, Shape, Servers
<1>3. UNCHANGED <<initialized, activeDocument, fromServer>>
  BY <1>1 DEF ServerReads, client
<1>4. Leads'
  <2>1. Opened' = Opened /\ Opened = {activeDocument} \ {NoDocument}
    BY <1>1, <1>2, ReadQueue DEF Opened, Exchange, Queue, Leads
  <2>2. activeDocument = NoDocument
    BY <1>1 DEF Shape, Exchange, Process
  <2>3. toServer' # <<>> => toServer'[1].kind = "initialize"
    BY <1>1, <1>3, ReadQueue DEF Phase
  <2> QED BY <1>1, <1>3, <2>1, <2>2, <2>3 DEF Leads, Ready
<1>5. Process'
  BY <1>1, <1>2, ReadProcess
<1>6. OnTheirWay' \subseteq OnTheirWay \cup
        {a \in {[id |-> toServer[1].id, text |-> 0]} : IsRequest(toServer[1])}
  BY <1>1, <1>2, <1>3 DEF OnTheirWay, IsRequest
<1> QED BY <1>1, <1>4, <1>5, <1>6, ReadKeeps

(* The document of the next call is announced. *)
LEMMA NotesKeeps ==
  ASSUME Shape, Exchange, ServerNotes
  PROVE  Exchange'
<1>1. ServerReads("initialized") /\ server' = server
  BY DEF ServerNotes
<1> DEFINE m == toServer[1]
<1>2. m.kind = "initialized" /\ Ready(m) /\ (toServer' # <<>> => Follows(m, toServer'[1]))
  BY <1>1, ReadQueue
<1>3. Opened' = {} /\ server'.initialized
  BY <1>1, <1>2, ReadInitialized DEF Ready, Opened
<1>4. Leads'
  <2>1. toServer' # <<>>
    BY <1>1, <1>2, ReadInitialized
  <2>2. toServer'[1] \in Requests
    BY <1>1, <2>1, ReadQueue
  <2>3. toServer'[1].kind = "didOpen"
    BY <1>2, <2>1, <2>2 DEF Follows, Requests
  <2>4. Ready(toServer[1])'
    BY <1>3, <2>3 DEF Ready
  <2> QED BY <1>1, <2>1, <2>4, ReadInitialized DEF Leads
<1>5. Process'
  BY <1>1, <1>3, ReadProcess
<1>6. OnTheirWay' \subseteq OnTheirWay
  BY <1>1, ReadInitialized DEF OnTheirWay
<1> QED BY <1>1, <1>4, <1>5, <1>6, ReadKeeps

(* The document, which is the only one, is opened. *)
LEMMA OpensKeeps ==
  ASSUME Shape, Exchange, ServerOpens
  PROVE  Exchange'
<1>1. ServerReads("didOpen")
  BY DEF ServerOpens
<1> DEFINE m == toServer[1]
<1>2. /\ m.kind = "didOpen" /\ m \in Requests /\ Ready(m) /\ WellFormed(m, nextRequestId)
      /\ toServer' # <<>> => Follows(m, toServer'[1])
  BY <1>1, ReadQueue
<1>3. m.doc \in Documents /\ m.version # 0 /\ m.version \in Nat /\ Opened = {}
  BY <1>2 DEF WellFormed, Ready, Requests
<1>4. /\ server'.alive = server.alive /\ server'.initialized = server.initialized
      /\ server'.computes = server.computes
      /\ server'.open = [server.open EXCEPT ![m.doc] = m.version]
      /\ server.open \in [Documents -> Nat]
  BY <1>1, <1>3, ReadInitialized DEF ServerOpens, Servers
<1>5. Opened' = {m.doc} /\ server'.open[m.doc] = m.version
  BY <1>3, <1>4 DEF Opened
<1>6. Leads'
  <2>1. toServer' # <<>>
    BY <1>1, <1>2, ReadInitialized
  <2>2. toServer'[1] \in Requests
    BY <1>1, <2>1, ReadQueue
  <2>3. /\ toServer'[1].kind = "completion" /\ toServer'[1].doc = m.doc
        /\ toServer'[1].version = m.version
    BY <1>2, <2>1, <2>2 DEF Follows, Requests
  <2>4. Ready(toServer[1])'
    BY <1>1, <1>4, <1>5, <2>3, ReadInitialized DEF Ready
  <2> QED BY <1>1, <2>1, <2>4, ReadInitialized DEF Leads
<1>7. Process'
  BY <1>1, <1>4, ReadInitialized, ReadProcess
<1>8. OnTheirWay' \subseteq OnTheirWay
  BY <1>1, <1>4, ReadInitialized DEF OnTheirWay
<1>9. m.version \in Nat
  BY <1>3
<1> QED BY <1>1, <1>6, <1>7, <1>8, ReadKeeps

(* The document that was open is closed. *)
LEMMA ClosesKeeps ==
  ASSUME Shape, Exchange, ServerCloses
  PROVE  Exchange'
<1>1. ServerReads("didClose")
  BY DEF ServerCloses
<1> DEFINE m == toServer[1]
<1>2. /\ m.kind = "didClose" /\ m \in Requests /\ Ready(m) /\ WellFormed(m, nextRequestId)
      /\ toServer' # <<>> => Follows(m, toServer'[1])
  BY <1>1, ReadQueue
<1>3. m.doc \in Documents /\ Opened = {m.doc}
  BY <1>2 DEF WellFormed, Ready
<1>4. /\ server'.alive = server.alive /\ server'.initialized = server.initialized
      /\ server'.computes = server.computes
      /\ server'.open = [server.open EXCEPT ![m.doc] = 0]
      /\ server.open \in [Documents -> Nat]
  BY <1>1, <1>3, ReadInitialized DEF ServerCloses, Servers
<1>5. Opened' = {}
  BY <1>3, <1>4 DEF Opened
<1>6. Leads'
  <2>1. toServer' # <<>>
    BY <1>1, <1>2, ReadInitialized
  <2>2. toServer'[1] \in Requests
    BY <1>1, <2>1, ReadQueue
  <2>3. toServer'[1].kind = "didOpen"
    BY <1>2, <2>1, <2>2 DEF Follows, Requests
  <2>4. Ready(toServer[1])'
    BY <1>1, <1>4, <1>5, <2>3, ReadInitialized DEF Ready
  <2> QED BY <1>1, <2>1, <2>4, ReadInitialized DEF Leads
<1>7. Process'
  BY <1>1, <1>4, ReadInitialized, ReadProcess
<1>8. OnTheirWay' \subseteq OnTheirWay
  BY <1>1, <1>4, ReadInitialized DEF OnTheirWay
<1> QED BY <1>1, <1>6, <1>7, <1>8, ReadKeeps

(* The answer is computed from the text that was sent with the question.   *)
LEMMA CompletesKeeps ==
  ASSUME Shape, Exchange, ServerCompletes
  PROVE  Exchange'
<1>1. ServerReads("completion")
  BY DEF ServerCompletes
<1> DEFINE m == toServer[1]
<1>2. /\ m.kind = "completion" /\ m \in Requests /\ Ready(m) /\ WellFormed(m, nextRequestId)
      /\ toServer' # <<>> => Follows(m, toServer'[1])
  BY <1>1, ReadQueue
<1>3. /\ m.doc \in Documents /\ Opened = {m.doc} /\ server.open[m.doc] = m.version
      /\ m.version \in Nat
  BY <1>2 DEF WellFormed, Ready, Requests
<1>4. /\ server'.alive = server.alive /\ server'.initialized = server.initialized
      /\ server'.open = server.open
      /\ server'.computes = server.computes \cup {[id |-> m.id, text |-> m.version]}
  BY <1>1, <1>3, ReadInitialized DEF ServerCompletes, Compute, Servers
<1>5. Opened' = Opened
  BY <1>4 DEF Opened
<1>6. Leads'
  <2>1. CASE toServer' = <<>>
    <3>1. m.doc = activeDocument /\ activeDocument # NoDocument
      BY <1>1, <2>1, ReadInitialized, CompletionAssumption
    <3> QED BY <1>1, <1>3, <1>5, <2>1, <3>1, ReadInitialized DEF Leads
  <2>2. CASE toServer' # <<>>
    <3>1. toServer'[1] \in Requests
      BY <1>1, <2>2, ReadQueue
    <3>2. toServer'[1].kind = "didClose" /\ toServer'[1].doc = m.doc
      BY <1>2, <2>2, <3>1 DEF Follows, Requests
    <3>3. Ready(toServer[1])'
      BY <1>1, <1>3, <1>4, <1>5, <3>2, ReadInitialized DEF Ready
    <3> QED BY <1>1, <2>2, <3>3, ReadInitialized DEF Leads
  <2> QED BY <2>1, <2>2
<1>7. Process'
  BY <1>1, <1>4, ReadInitialized, ReadProcess
<1>8. OnTheirWay' \subseteq OnTheirWay \cup
        {a \in {[id |-> m.id, text |-> m.version]} : IsRequest(m)}
  BY <1>1, <1>2, <1>4, ReadInitialized DEF OnTheirWay, IsRequest
<1> QED BY <1>1, <1>3, <1>6, <1>7, <1>8, ReadKeeps

(* An answer is sent, which was on its way before. *)
LEMMA AnswersKeeps ==
  ASSUME Shape, Exchange, ServerAnswers
  PROVE  Exchange'
<1>1. PICK a \in server.computes :
        /\ server' = [server EXCEPT !.computes = @ \ {a}]
        /\ fromServer' = Append(fromServer, a)
        /\ UNCHANGED <<process, client, call, shown, toServer, calls, ends>>
  BY DEF ServerAnswers
<1>2. server \in Servers /\ fromServer \in Seq(Answers) /\ a \in Answers
  BY ServerFields DEF Shape, AnswerQueues
<1>3. /\ server'.alive = server.alive /\ server'.initialized = server.initialized
      /\ server'.open = server.open /\ server'.computes = server.computes \ {a}
  BY <1>1, <1>2 DEF Servers
<1>4. server.computes # {} /\ server.alive
  BY DeadFacts DEF ServerAnswers, Exchange, Process
<1>5. Process'
  BY <1>1, <1>3, <1>4 DEF Exchange, Process, client
<1>6. OnTheirWay' \subseteq OnTheirWay
  <2>1. /\ Len(fromServer) \in Nat /\ DOMAIN fromServer = 1..Len(fromServer)
        /\ DOMAIN fromServer' = 1..Len(fromServer) + 1
    BY <1>1, <1>2
  <2>2. ASSUME NEW i \in DOMAIN fromServer'
        PROVE  fromServer'[i] = a \/ \E j \in DOMAIN fromServer : fromServer'[i] = fromServer[j]
    <3>1. CASE i = Len(fromServer) + 1
      BY <1>1, <1>2, <3>1
    <3>2. CASE i # Len(fromServer) + 1
      <4>1. i \in DOMAIN fromServer
        BY <2>1, <3>2
      <4>2. fromServer'[i] = fromServer[i]
        BY <1>1, <1>2, <2>1, <4>1
      <4> QED BY <4>1, <4>2
    <3> QED BY <3>1, <3>2
  <2> QED BY <1>3, <2>2 DEF OnTheirWay
<1> QED BY <1>1, <1>3, <1>5, <1>6, LessOnTheWay DEF client

(* What QProcess still gives out after clangd ended was on its way. *)
LEMMA EndKeeps ==
  ASSUME Shape, Exchange, EndNoticed
  PROVE  Exchange'
<1>1. PICK n \in 0..Len(fromServer) : fromServer' = SubSeq(fromServer, 1, n)
  BY DEF EndNoticed
<1>2. /\ process' = "notRunning" /\ ~server.alive
      /\ UNCHANGED <<client, call, toServer, server>>
  BY DEF EndNoticed
<1>3. Process'
  BY <1>2 DEF Exchange, Process, client
<1>4. OnTheirWay' \subseteq OnTheirWay
  <2>1. fromServer \in Seq(Answers) /\ n \in Nat /\ n <= Len(fromServer)
    BY DEF Shape, AnswerQueues
  <2>2. \A i \in DOMAIN fromServer' : i \in DOMAIN fromServer /\ fromServer'[i] = fromServer[i]
    BY <1>1, <2>1
  <2> QED BY <1>2, <2>2 DEF OnTheirWay
<1> QED BY <1>2, <1>3, <1>4, LessOnTheWay DEF client

(* A step of the client keeps the exchange. *)
LEMMA ClientKeeps ==
  ASSUME Shape, Exchange, Client
  PROVE  Exchange'
<1>1. ASSUME NEW doc \in Documents, CompleteWithServer(doc)
      PROVE  Exchange'
  BY <1>1, AskKeeps
<1>2. ASSUME NEW doc \in Documents, CompleteUninitialized(doc)
      PROVE  Exchange'
  BY <1>2, UninitializedKeeps
<1>3. ASSUME NEW doc \in Documents, CompleteStarted(doc)
      PROVE  Exchange'
  BY <1>3, JustStarted DEF CompleteStarted, Started, Reset
<1>4. ASSUME CompleteStarting \/ CompleteNotStarted
      PROVE  Exchange'
  BY <1>4, BeginWithout
<1>5. ASSUME SkipAnswer
      PROVE  Exchange'
  <2>1. /\ fromServer # <<>> /\ fromServer' = Tail(fromServer)
        /\ UNCHANGED <<process, client, call, toServer, server>>
    BY <1>5 DEF SkipAnswer
  <2>2. Process'
    BY <2>1 DEF Exchange, Process, client
  <2> QED BY <2>1, <2>2, OnTheirWayType, LessOnTheWay DEF client
<1>6. ASSUME InitializeAnswered
      PROVE  Exchange'
  <2>1. call.doc \in Documents
    BY <1>6 DEF Exchange, Waiting, InitializeAnswered
  <2> QED BY <1>6, <2>1, AskKeeps
<1>7. ASSUME CompletionAnswered
      PROVE  Exchange'
  <2>1. /\ fromServer # <<>> /\ fromServer' = Tail(fromServer) /\ call' = NoCall
        /\ UNCHANGED <<process, client, toServer, server>>
    BY <1>7 DEF CompletionAnswered, Take
  <2>2. Process'
    BY <2>1 DEF Exchange, Process, client
  <2> QED BY <2>1, <2>2, OnTheirWayType, LessOnTheWay DEF client
<1>8. ASSUME TimeOut
      PROVE  Exchange'
  <2>1. call' = NoCall /\ UNCHANGED <<process, client, toServer, fromServer, server>>
    BY <1>8 DEF TimeOut
  <2>2. Process'
    BY <2>1 DEF Exchange, Process, client
  <2> QED BY <2>1, <2>2, LessOnTheWay DEF client, OnTheirWay
<1>9. ASSUME Quit
      PROVE  Exchange'
  <2>1. /\ process' = "notRunning" /\ server' = Dead /\ toServer' = <<>>
        /\ UNCHANGED <<client, call, fromServer>>
    BY <1>9 DEF Quit
  <2>2. Process'
    BY <2>1, DeadFacts DEF Exchange, Process, client
  <2> QED BY <2>1, <2>2, DeadFacts, Emptied DEF client, OnTheirWay
<1> QED BY <1>1, <1>2, <1>3, <1>4, <1>5, <1>6, <1>7, <1>8, <1>9 DEF Client

(* A step of QProcess or clangd keeps the exchange. *)
LEMMA ServerKeeps ==
  ASSUME Shape, Exchange, Server
  PROVE  Exchange'
<1>1. ASSUME Starts
      PROVE  Exchange'
  <2>1. /\ process = "starting" /\ process' = "running" /\ call = NoCall
        /\ server' = [Dead EXCEPT !.alive = TRUE]
        /\ UNCHANGED <<client, call, toServer, fromServer>>
    BY <1>1 DEF Starts
  <2>2. ~initialized /\ fromServer = <<>> /\ ~server.alive /\ toServer = <<>>
    BY <2>1 DEF Exchange, Process
  <2>3. activeDocument = NoDocument
    BY <2>2 DEF Shape, Exchange, Process
  <2> QED BY <2>1, <2>2, <2>3, JustStarted DEF client, Shape
<1>2. ASSUME StartFails
      PROVE  Exchange'
  <2>1. /\ process' = "notRunning" /\ process = "starting"
        /\ UNCHANGED <<client, call, toServer, fromServer, server>>
    BY <1>2 DEF StartFails
  <2>2. Process'
    BY <2>1 DEF Exchange, Process, client
  <2> QED BY <2>1, <2>2, LessOnTheWay DEF client, OnTheirWay
<1>3. ASSUME ServerEnds
      PROVE  Exchange'
  <2>1. /\ server' = Dead /\ toServer' = <<>> /\ UNCHANGED <<process, client, call, fromServer>>
    BY <1>3 DEF ServerEnds
  <2>2. Process'
    BY <2>1, DeadFacts DEF Exchange, Process, client
  <2> QED BY <2>1, <2>2, DeadFacts, Emptied DEF client, OnTheirWay
<1> QED BY <1>1, <1>2, <1>3, EndKeeps, InitializesKeeps, NotesKeeps, OpensKeeps, ClosesKeeps,
           CompletesKeeps, AnswersKeeps DEF Server

-----------------------------------------------------------------------------
(* The theorems.                                                           *)

(* Nothing is exchanged before the first call. *)
LEMMA InitExchange == Init => Shape /\ Exchange
<1> SUFFICES ASSUME Init PROVE Shape /\ Exchange
  OBVIOUS
<1>1. Shape
  <2>1. call \in Calls(nextRequestId, documentVersion)
    BY Elements DEF Init
  <2>2. toServer \in RequestQueues /\ fromServer \in AnswerQueues /\ shown \in Shown
    BY Elements DEF Init
  <2>3. server \in Servers
    BY DeadFacts DEF Init
  <2>4. /\ process \in {"notRunning", "starting", "running"} /\ initialized \in BOOLEAN
        /\ activeDocument \in Documents \cup {NoDocument}
    BY DEF Init
  <2>5. /\ nextRequestId \in Nat \ {0} /\ documentVersion \in Nat \ {0}
        /\ calls \in Nat /\ ends \in Nat
    BY DEF Init
  <2> QED BY <2>1, <2>2, <2>3, <2>4, <2>5 DEF Shape
<1>2. /\ Process /\ ~server.alive /\ 1..Len(toServer) = {} /\ toServer = <<>>
      /\ OnTheirWay = {}
  BY DeadFacts, CompletionAssumption DEF Init, Process, OnTheirWay
<1>3. Queue /\ Numbers
  BY <1>2 DEF Queue, Formed, Phase, Chained, Leads, Numbers, Increasing
<1>4. Waiting
  BY DEF Init, Waiting, NoCall
<1> QED BY <1>1, <1>2, <1>3, <1>4 DEF Exchange

(* Types and exchange are inductive together. *)
LEMMA NextExchange == Shape /\ Exchange /\ [Next]_vars => (Shape /\ Exchange)'
<1> SUFFICES ASSUME Shape, Exchange, [Next]_vars PROVE (Shape /\ Exchange)'
  OBVIOUS
<1>1. CASE Client
  BY <1>1, ClientType, ClientKeeps DEF Exchange
<1>2. CASE Server
  BY <1>2, ServerType, ServerKeeps DEF Exchange
<1>3. CASE UNCHANGED vars
  <2>1. UNCHANGED <<process, initialized, activeDocument, nextRequestId, documentVersion,
                    call, shown, toServer, fromServer, server, calls, ends>>
    BY <1>3 DEF vars, client
  <2>2. Shape' /\ Process'
    BY <2>1 DEF Shape, Exchange, Process
  <2> QED BY <2>1, <2>2, LessOnTheWay DEF OnTheirWay
<1> QED BY <1>1, <1>2, <1>3 DEF Next

(* However late answers arrive and however often clangd ends, what is      *)
(* exchanged is in order.                                                  *)
LEMMA ExchangeKept == Spec => [](Shape /\ Exchange)
BY InitExchange, NextExchange, PTL DEF Spec

(* Every value stays of its type: each number and text the call under way  *)
(* has was given out before (completeDetailedAtLine).                      *)
THEOREM TypeCorrect == Spec => []TypeOK
<1>1. Shape /\ Exchange => TypeOK
  BY ShapeMeaning
<1> QED BY <1>1, ExchangeKept, PTL

(* readResponseForId gives a call no answer but the one made from the text *)
(* the call asked about.                                                   *)
THEOREM AnswersMatchHolds == Spec => []AnswersMatch
<1>1. Init => AnswersMatch
  BY DEF Init, AnswersMatch, NoShown
<1>2. Shape /\ Exchange /\ AnswersMatch /\ [Next]_vars => AnswersMatch'
  <2> SUFFICES ASSUME Shape, Exchange, AnswersMatch, [Next]_vars PROVE AnswersMatch'
    OBVIOUS
  <2>1. ASSUME CompletionAnswered
        PROVE  AnswersMatch'
    <3>1. Head(fromServer).text = call.text
      BY <2>1, OnTheirWayType DEF CompletionAnswered, Take, Exchange, Waiting
    <3> QED BY <2>1, <3>1 DEF CompletionAnswered, AnswersMatch
  <2>2. ASSUME NEW doc, NEW first, AskCompletion(doc, first)
        PROVE  AnswersMatch'
    BY <2>2 DEF AskCompletion, AnswersMatch, NoShown
  <2>3. ASSUME shown' \in {shown, NoShown}
        PROVE  AnswersMatch'
    BY <2>3 DEF AnswersMatch, NoShown
  <2>4. ASSUME NEW doc \in Documents,
               CompleteUninitialized(doc) \/ CompleteStarted(doc)
        PROVE  AnswersMatch'
    BY <2>3, <2>4 DEF CompleteUninitialized, CompleteStarted, WaitForInitialize
  <2>5. ASSUME CompleteStarting \/ CompleteNotStarted \/ SkipAnswer \/ TimeOut \/ Quit
        PROVE  AnswersMatch'
    BY <2>3, <2>5 DEF CompleteStarting, CompleteNotStarted, SkipAnswer, TimeOut, Quit
  <2>6. CASE Client
    BY <2>1, <2>2, <2>4, <2>5, <2>6 DEF Client, CompleteWithServer, InitializeAnswered
  <2>7. CASE Server
    BY <2>3, <2>7 DEF Server, Starts, StartFails, ServerEnds, EndNoticed, ServerInitializes,
       ServerNotes, ServerOpens, ServerCloses, ServerCompletes, ServerAnswers, ServerReads
  <2>8. CASE UNCHANGED vars
    BY <2>3, <2>8 DEF vars
  <2> QED BY <2>6, <2>7, <2>8 DEF Next
<1> QED BY <1>1, <1>2, ExchangeKept, PTL DEF Spec

(* The client opens, completes and closes documents only as clangd may be  *)
(* asked to (ensureServerInitialized, completeDetailedAtLine).             *)
THEOREM ProtocolKeptHolds == Spec => []ProtocolKept
<1>1. Shape /\ Exchange => ProtocolKept
  <2> SUFFICES ASSUME Shape, Exchange, toServer # <<>> PROVE Legal(Head(toServer))
    BY DEF ProtocolKept
  <2> DEFINE m == toServer[1]
  <2>1. Head(toServer) = m /\ m \in Requests /\ 1 \in 1..Len(toServer)
    BY TailFacts DEF Shape, RequestQueues
  <2>2. Ready(m) /\ WellFormed(m, nextRequestId)
    BY <2>1 DEF Exchange, Queue, Leads, Formed
  <2>3. m.kind = "didOpen" => m.doc \in Documents /\ Opened = {} /\ server.initialized
    BY <2>2 DEF Ready, WellFormed
  <2>4. m.kind = "didClose" => m.doc \in Opened
    BY <2>2 DEF Ready
  <2>5. m.kind = "completion" => server.open[m.doc] = m.version
    BY <2>2 DEF Ready
  <2> QED BY <2>1, <2>3, <2>4, <2>5 DEF Legal, Opened, Requests
<1> QED BY <1>1, ExchangeKept, PTL

(* Documents do not pile up in clangd: once it has read everything, the    *)
(* one open there is the one completeDetailedAtLine opened last.           *)
THEOREM DocumentsAgreeHolds == Spec => []DocumentsAgree
<1>1. Shape /\ Exchange => DocumentsAgree
  BY DEF Exchange, Queue, Leads, DocumentsAgree, Opened
<1> QED BY <1>1, ExchangeKept, PTL

=============================================================================
