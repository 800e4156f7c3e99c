--------------------------- MODULE CompletionClient ---------------------------
(***************************************************************************)
(* ClangdLspClient, the completion client of the source editor and of the  *)
(* breakpoint popover: one clangd for the whole process, asked in calls    *)
(* that wait, up to a time, for an answer.  Between calls answers arrive   *)
(* late, clangd ends, and the next call starts it again.                   *)
(*                                                                         *)
(* Calls are made by the GUI thread and wait without running the event     *)
(* loop, so one call is under way at a time.  m_readBuffer and the pipe    *)
(* behind it are one queue; the framing is left out.                       *)
(*                                                                         *)
(* Every call opens its document anew with the text completed, so the      *)
(* number of the opening, m_documentVersion, stands for the text.          *)
(***************************************************************************)
EXTENDS Naturals, Sequences

CONSTANTS
  Documents,   \* URIs of source files
  NoDocument,
  MaxCalls,    \* bound on calls
  MaxEnds      \* bound on the times clangd ends by itself

ASSUME CompletionAssumption ==
  /\ NoDocument \notin Documents
  /\ MaxCalls \in Nat /\ MaxEnds \in Nat

VARIABLES
  process,           \* QProcess::state
  initialized,       \* m_initialized
  activeDocument,    \* m_activeDocumentUri
  nextRequestId,     \* m_nextRequestId
  documentVersion,   \* m_documentVersion
  call,              \* what the call under way waits for, and what it asked
  shown,             \* the text the last call was about and the text the
                     \* answer it gave was made from, or 0
  toServer, fromServer,
  server,            \* clangd: alive, initialized, version of each open document,
                     \* answers it computes
  calls, ends

client == <<initialized, activeDocument, nextRequestId, documentVersion>>
vars == <<process, client, call, shown, toServer, fromServer, server, calls, ends>>

Message(kind, doc, id, version) ==
  [kind |-> kind, doc |-> doc, id |-> id, version |-> version]
Initialize(id)            == Message("initialize", NoDocument, id, 0)
Initialized               == Message("initialized", NoDocument, 0, 0)
DidClose(doc)             == Message("didClose", doc, 0, 0)
DidOpen(doc, version)     == Message("didOpen", doc, 0, version)
Completion(doc, id, text) == Message("completion", doc, id, text)

NoCall  == [waits |-> "nothing", doc |-> NoDocument, id |-> 0, text |-> 0]
NoShown == [asked |-> 0, made |-> 0]
Dead    == [alive |-> FALSE, initialized |-> FALSE,
            open |-> [d \in Documents |-> 0], computes |-> {}]

-----------------------------------------------------------------------------
Init ==
  /\ process = "notRunning"
  /\ initialized = FALSE
  /\ activeDocument = NoDocument
  /\ nextRequestId = 1
  /\ documentVersion = 1
  /\ call = NoCall
  /\ shown = NoShown
  /\ toServer = <<>>
  /\ fromServer = <<>>
  /\ server = Dead
  /\ calls = 0
  /\ ends = 0

-----------------------------------------------------------------------------
(* sendJsonRpc drops what is sent to a process that is not running, as far *)
(* as QProcess knows; what is written to one that ended is lost.           *)
Sent(p, alive, messages) == IF p = "running" /\ alive THEN messages ELSE <<>>

(* The document of the last call is closed, the one of this call opened.   *)
Opens(doc) ==
  (IF activeDocument = NoDocument THEN <<>> ELSE <<DidClose(activeDocument)>>)
    \o <<DidOpen(doc, documentVersion)>>

(* completeDetailedAtLine with a server that is ready; readResponseForId   *)
(* gives up at once when the process is not running.                       *)
AskCompletion(doc, first) ==
  /\ toServer' = toServer \o Sent(process, server.alive,
       first \o Opens(doc) \o <<Completion(doc, nextRequestId, documentVersion)>>)
  /\ activeDocument' = doc
  /\ documentVersion' = documentVersion + 1
  /\ nextRequestId' = nextRequestId + 1
  /\ IF process = "running"
     THEN /\ call' = [waits |-> "completion", doc |-> doc, id |-> nextRequestId,
                      text |-> documentVersion]
          /\ UNCHANGED shown
     ELSE call' = NoCall /\ shown' = NoShown

(* Mutant: the number is not counted. *)
WaitForInitializeSame(doc) ==
  /\ call' = [waits |-> "initialize", doc |-> doc, id |-> nextRequestId, text |-> 0]
  /\ UNCHANGED <<nextRequestId, documentVersion, shown>>

WaitForInitialize(doc) ==
  /\ nextRequestId' = nextRequestId + 1
  /\ call' = [waits |-> "initialize", doc |-> doc, id |-> nextRequestId, text |-> 0]
  /\ UNCHANGED <<documentVersion, shown>>

Called ==
  /\ call = NoCall
  /\ calls < MaxCalls
  /\ calls' = calls + 1

CompleteWithServer(doc) ==
  /\ Called
  /\ process = "running" /\ initialized
  /\ AskCompletion(doc, <<>>)
  /\ UNCHANGED <<process, initialized, fromServer, server, ends>>

(* The server runs, but an earlier call gave up waiting for its answer.    *)
CompleteUninitialized(doc) ==
  /\ Called
  /\ process = "running" /\ ~initialized
  /\ toServer' = toServer \o Sent(process, server.alive, <<Initialize(nextRequestId)>>)
  /\ WaitForInitialize(doc)
  /\ UNCHANGED <<process, initialized, activeDocument, fromServer, server, ends>>

(* `initialize` is dropped, and the call returns without the server.       *)
CompleteStarting ==
  /\ Called
  /\ process = "starting"
  /\ nextRequestId' = nextRequestId + 1
  /\ shown' = NoShown
  /\ UNCHANGED <<process, initialized, activeDocument, documentVersion, call,
                 toServer, fromServer, server, ends>>

(* Mutant: a restart keeps the document open in the server that ended. *)
ResetInitialized == initialized' = FALSE /\ UNCHANGED activeDocument

(* Mutant: a restart keeps m_initialized. *)
ResetDocument == activeDocument' = NoDocument /\ UNCHANGED initialized

(* What is known of the server that ended is forgotten. *)
Reset == initialized' = FALSE /\ activeDocument' = NoDocument

Started(status) ==
  /\ Called
  /\ process = "notRunning"
  /\ Reset
  /\ fromServer' = <<>>
  /\ process' = status
  /\ UNCHANGED ends

(* waitForStarted: clangd runs within its time, or not yet, or fails.      *)
CompleteStarted(doc) ==
  /\ Started("running")
  /\ server' = [Dead EXCEPT !.alive = TRUE]
  /\ toServer' = <<Initialize(nextRequestId)>>
  /\ WaitForInitialize(doc)

CompleteNotStarted ==
  /\ \E status \in {"starting", "notRunning"} : Started(status)
  /\ shown' = NoShown
  /\ toServer' = <<>>
  /\ UNCHANGED <<nextRequestId, documentVersion, call, server>>

(* Mutant: any answer that arrives is taken. *)
TakeAny == fromServer # <<>> /\ fromServer' = Tail(fromServer)

(* readResponseForId: the answer with the number waited for.               *)
Take ==
  /\ fromServer # <<>>
  /\ Head(fromServer).id = call.id
  /\ fromServer' = Tail(fromServer)

(* Any other answer is of a call that gave up, and is dropped. *)
SkipAnswer ==
  /\ call # NoCall
  /\ fromServer # <<>>
  /\ Head(fromServer).id # call.id
  /\ fromServer' = Tail(fromServer)
  /\ UNCHANGED <<process, client, call, shown, toServer, server, calls, ends>>

(* Any answer, an error too, ends the handshake, and the call goes on.     *)
InitializeAnswered ==
  /\ call.waits = "initialize"
  /\ Take
  /\ initialized' = TRUE
  /\ AskCompletion(call.doc, <<Initialized>>)
  /\ UNCHANGED <<process, server, calls, ends>>

CompletionAnswered ==
  /\ call.waits = "completion"
  /\ Take
  /\ shown' = [asked |-> call.text, made |-> Head(fromServer).text]
  /\ call' = NoCall
  /\ UNCHANGED <<process, client, toServer, server, calls, ends>>

(* The call returns what it found in the source itself. *)
TimeOut ==
  /\ call # NoCall
  /\ call' = NoCall
  /\ shown' = NoShown
  /\ UNCHANGED <<process, client, toServer, fromServer, server, calls, ends>>

(* aboutToQuit, and the destructor: clangd is killed, and no call follows. *)
Quit ==
  /\ call = NoCall
  /\ process # "notRunning"
  /\ process' = "notRunning"
  /\ server' = Dead
  /\ toServer' = <<>>
  /\ calls' = MaxCalls
  /\ UNCHANGED <<client, call, shown, fromServer, ends>>

-----------------------------------------------------------------------------
(* QProcess and clangd (external).                                         *)

(* A process that took longer to start runs, or fails, between two calls.  *)
Starts ==
  /\ process = "starting" /\ call = NoCall
  /\ process' = "running"
  /\ server' = [Dead EXCEPT !.alive = TRUE]
  /\ UNCHANGED <<client, call, shown, toServer, fromServer, calls, ends>>

StartFails ==
  /\ process = "starting" /\ call = NoCall
  /\ process' = "notRunning"
  /\ UNCHANGED <<client, call, shown, toServer, fromServer, server, calls, ends>>

ServerEnds ==
  /\ server.alive
  /\ ends < MaxEnds
  /\ ends' = ends + 1
  /\ server' = Dead
  /\ toServer' = <<>>
  /\ UNCHANGED <<process, client, call, shown, fromServer, calls>>

(* QProcess notices in the event loop or in a wait; what it read before    *)
(* that is still given out.                                                *)
EndNoticed ==
  /\ process = "running" /\ ~server.alive
  /\ process' = "notRunning"
  /\ \E n \in 0..Len(fromServer) : fromServer' = SubSeq(fromServer, 1, n)
  /\ UNCHANGED <<client, call, shown, toServer, server, calls, ends>>

Compute(id, text) == server.computes \cup {[id |-> id, text |-> text]}

ServerReads(kind) ==
  /\ toServer # <<>>
  /\ Head(toServer).kind = kind
  /\ toServer' = Tail(toServer)
  /\ UNCHANGED <<process, client, call, shown, fromServer, calls, ends>>

(* A second `initialize` is answered too, with an error. *)
ServerInitializes ==
  /\ ServerReads("initialize")
  /\ server' = [server EXCEPT !.initialized = TRUE,
                              !.computes = Compute(Head(toServer).id, 0)]

ServerNotes == ServerReads("initialized") /\ UNCHANGED server

ServerOpens ==
  /\ ServerReads("didOpen")
  /\ server' = [server EXCEPT !.open[Head(toServer).doc] = Head(toServer).version]

ServerCloses ==
  /\ ServerReads("didClose")
  /\ server' = [server EXCEPT !.open[Head(toServer).doc] = 0]

(* From the text as it is now, or an error (0). *)
ServerCompletes ==
  /\ ServerReads("completion")
  /\ server' = [server EXCEPT
       !.computes = Compute(Head(toServer).id,
         IF server.initialized THEN server.open[Head(toServer).doc] ELSE 0)]

(* Answers are written when they are ready, in any order. *)
ServerAnswers ==
  \E answer \in server.computes :
    /\ server' = [server EXCEPT !.computes = @ \ {answer}]
    /\ fromServer' = Append(fromServer, answer)
    /\ UNCHANGED <<process, client, call, shown, toServer, calls, ends>>

-----------------------------------------------------------------------------
Client ==
  \/ \E doc \in Documents : \/ CompleteWithServer(doc)
                            \/ CompleteUninitialized(doc)
                            \/ CompleteStarted(doc)
  \/ CompleteStarting
  \/ CompleteNotStarted
  \/ SkipAnswer
  \/ InitializeAnswered
  \/ CompletionAnswered
  \/ TimeOut
  \/ Quit

Server ==
  \/ Starts \/ StartFails \/ ServerEnds \/ EndNoticed
  \/ ServerInitializes \/ ServerNotes \/ ServerOpens \/ ServerCloses
  \/ ServerCompletes \/ ServerAnswers

Next == Client \/ Server

Spec == Init /\ [][Next]_vars

-----------------------------------------------------------------------------
Requests == [kind : {"initialize", "initialized", "didClose", "didOpen", "completion"},
             doc : Documents \cup {NoDocument}, id : Nat, version : Nat]
Answers  == [id : Nat, text : Nat]

TypeOK ==
  /\ process \in {"notRunning", "starting", "running"}
  /\ initialized \in BOOLEAN
  /\ activeDocument \in Documents \cup {NoDocument}
  /\ nextRequestId \in Nat \ {0}
  /\ documentVersion \in Nat \ {0}
  /\ call \in [waits : {"nothing", "initialize", "completion"},
               doc : Documents \cup {NoDocument}, id : 0..nextRequestId - 1,
               text : 0..documentVersion - 1]
  /\ shown \in [asked : Nat, made : Nat]
  /\ toServer \in Seq(Requests)
  /\ fromServer \in Seq(Answers)
  /\ server \in [alive : BOOLEAN, initialized : BOOLEAN, open : [Documents -> Nat],
                 computes : SUBSET Answers]
  /\ calls \in Nat /\ ends \in Nat

(* The completions a call returns were made from the text it asked about,  *)
(* however late the answers of calls that gave up arrive and however often *)
(* clangd was restarted in between.                                        *)
AnswersMatch == shown.made = shown.asked

(* clangd is never asked out of turn: documents are opened and completed   *)
(* after it was initialized, opened once and closed only when open.        *)
Legal(m) ==
  CASE m.kind = "didOpen"    -> server.initialized /\ server.open[m.doc] = 0
    [] m.kind = "didClose"   -> server.open[m.doc] # 0
    [] m.kind = "completion" -> server.open[m.doc] = m.version
    [] OTHER -> TRUE

ProtocolKept == toServer # <<>> => Legal(Head(toServer))

(* The one document open in a clangd that has read everything is the one   *)
(* the client believes open, so that documents do not pile up.             *)
DocumentsAgree ==
  process = "running" /\ server.alive /\ toServer = <<>> =>
    {d \in Documents : server.open[d] # 0} = {activeDocument} \ {NoDocument}

=============================================================================
