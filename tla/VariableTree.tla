---------------------------- MODULE VariableTree ----------------------------
(***************************************************************************)
(* VariableTreeModel and the VariablesDockWidget that owns it: the tree of *)
(* local variables of one rank, filled lazily from answers that arrive     *)
(* after the user has selected another rank or the target has moved on.    *)
(*                                                                         *)
(* The backend is a DAP session (DapCoordinator; DapSession shows that an  *)
(* answer names the rank and reference that were asked) or one gdb per     *)
(* rank (GdbRankCoordinator).  Adapter, gdb and target are external.       *)
(*                                                                         *)
(* Abstracted: values, types, highlighting, the address appended to an     *)
(* aggregate, and a relaunch of the session.                               *)
(***************************************************************************)
EXTENDS Integers, Sequences, SequencesExt

CONSTANTS
  Ranks,
  Locals,      \* the scope of that name
  Fields,      \* the scope, or an aggregate variable |-> what it contains, in order
  MaxStops,    \* bound on stops of the targets
  MaxResumes,  \* bound on steps and continues of the user
  MaxSelects   \* bound on ranks selected by the user

(* What a local aggregate contains is scalar: one level below the rows.    *)
ASSUME TreeAssumption ==
  /\ Ranks \subseteq Nat /\ 0 \in Ranks
  /\ Locals \in DOMAIN Fields
  /\ \A c \in DOMAIN Fields : Fields[c] \in Seq(Range(Fields[c]))
  /\ \A c \in DOMAIN Fields \ {Locals} :
       c \in Range(Fields[Locals]) /\ Range(Fields[c]) \cap DOMAIN Fields = {}
  /\ \A c, d \in DOMAIN Fields : c # d => Range(Fields[c]) \cap Range(Fields[d]) = {}
  /\ Locals \notin Range(Fields[Locals])
  /\ {MaxStops, MaxResumes, MaxSelects} \subseteq Nat

VARIABLES
  backend,          \* the type of m_coordinator: "dap" or "gdb"
  m_currentRankId,  \* of the model; -1 before the first load
  m_updateCounter,
  nodes,            \* the nodes below m_rootNode: [ref, nested, loaded]
  m_createdVarobjs, \* variable objects to delete when the tree is cleared
  listed,           \* the rank selector holds the ranks of the session
  selected,         \* m_currentRankId of the dock
  m_lastRankStates, \* of the dock
  frames,           \* DapCoordinator::m_activeFrameIds, by stop; -1 unknown
  sequence,         \* the next request number of DapCoordinator
  toAdapter, pool,  \* requests not read yet; messages not handled yet
  toGdb, fromGdb,   \* rank |-> commands and records on the pipes
  varobjs,          \* rank |-> variable objects of its gdb
  halted, stop,     \* rank |-> its target is stopped; number of stops so far
  spent

treeVars   == <<m_currentRankId, nodes, m_createdVarobjs>>
modelVars  == <<treeVars, m_updateCounter>>
dockVars   == <<listed, selected, m_lastRankStates>>
dapVars    == <<frames, sequence, toAdapter, pool>>
gdbVars    == <<toGdb, fromGdb, varobjs>>
targetVars == <<halted, stop>>
vars == <<backend, modelVars, dockVars, dapVars, gdbVars, targetVars, spent>>

NoRank == -1

(* A variable is known by a variablesReference that is good for one stop,  *)
(* or by a variable object named after a generation.                       *)
Ref(r, gen, name) == [rank |-> r, gen |-> gen, name |-> name]
Node(ref, nested) == [ref |-> ref, nested |-> nested, loaded |-> FALSE]

(* What the container ref has, as references and as the nodes of an answer. *)
Parts(ref) ==
  [i \in DOMAIN Fields[ref.name] |-> Ref(ref.rank, ref.gen, Fields[ref.name][i])]
Rows(ref, nested) == {Node(part, nested) : part \in Range(Parts(ref))}

Expandable(node) == node.ref.name \in DOMAIN Fields

(* Requests and answers of the adapter, and commands and records of a gdb: *)
(* the rank they are about and, where there is one, the variable.          *)
Msg(kind, r, ref) == [kind |-> kind, rank |-> r, ref |-> ref]
Plain(kind, r)    == Msg(kind, r, Ref(r, 0, Locals))

Spend(what, bound) ==
  /\ spent[what] < bound
  /\ spent' = [spent EXCEPT ![what] = @ + 1]

Numbered(msgs, from) ==
  [i \in DOMAIN msgs |-> [kind |-> msgs[i].kind, rank |-> msgs[i].rank,
                          ref |-> msgs[i].ref, seq |-> from + i - 1]]

(* sendRequest. *)
Send(msgs) ==
  /\ toAdapter' = toAdapter \o Numbered(msgs, sequence)
  /\ sequence' = sequence + Len(msgs)

-----------------------------------------------------------------------------
(* A session that runs and has not stopped in user code.  The dock of a    *)
(* gdb session has listed the ranks at the first change of a rank's state; *)
(* that of a DAP session waits for the first stop.                         *)
Init ==
  /\ backend \in {"dap", "gdb"}
  /\ m_currentRankId = IF backend = "gdb" THEN 0 ELSE NoRank
  /\ m_updateCounter = 0
  /\ nodes = {}
  /\ m_createdVarobjs = <<>>
  /\ listed = (backend = "gdb")
  /\ selected = 0
  /\ m_lastRankStates = [r \in Ranks |-> "running"]
  /\ frames = [r \in Ranks |-> -1]
  /\ sequence = 1
  /\ toAdapter = <<>>
  /\ pool = {}
  /\ toGdb = [r \in Ranks |-> <<>>]
  /\ fromGdb = [r \in Ranks |-> <<>>]
  /\ varobjs = [r \in Ranks |-> {}]
  /\ halted = [r \in Ranks |-> FALSE]
  /\ stop = [r \in Ranks |-> 0]
  /\ spent = [stops |-> 0, resumes |-> 0, selects |-> 0]

-----------------------------------------------------------------------------
(* loadLocals.                                                             *)

(* Mutants: the rows stay; the rank is forgotten with them. *)
ClearNothing(r) ==
  /\ UNCHANGED nodes
  /\ m_createdVarobjs' = <<>>
  /\ m_currentRankId' = r

ClearForgetting(r) ==
  /\ nodes' = {}
  /\ m_createdVarobjs' = <<>>
  /\ m_currentRankId' = NoRank

(* clear, for rank r: the variable objects of the model are deleted on the *)
(* rank it showed.                                                         *)
Clear(r) ==
  /\ nodes' = {}
  /\ m_createdVarobjs' = <<>>
  /\ m_currentRankId' = r

LoadFromGdb(r) ==
  /\ backend = "gdb"
  /\ Clear(r)
  /\ toGdb' = [q \in Ranks |-> toGdb[q]
       \o (IF q = m_currentRankId
             THEN [i \in DOMAIN m_createdVarobjs |-> Msg("delete", q, m_createdVarobjs[i])]
             ELSE <<>>)
       \o (IF q = r THEN <<Plain("list", r)>> ELSE <<>>)]
  /\ UNCHANGED <<toAdapter, sequence>>

(* The frame that is cached for the rank, if there is one, has the scopes. *)
LoadRequest(r, known) ==
  IF known[r] >= 0 THEN Msg("scopes", r, Ref(r, known[r], Locals))
                   ELSE Plain("stackTrace", r)

(* One load after the other, then the further requests of the caller;      *)
(* known are the frames cached by then.                                    *)
LoadFromDap(loads, known, further) ==
  /\ backend = "dap"
  /\ IF loads = <<>> THEN UNCHANGED treeVars ELSE Clear(Last(loads))
  /\ Send([i \in DOMAIN loads |-> LoadRequest(loads[i], known)] \o further)
  /\ UNCHANGED toGdb

-----------------------------------------------------------------------------
(* The user.                                                               *)

(* The rank selector: onRankSelected. *)
SelectRank(r) ==
  /\ listed /\ r # selected
  /\ Spend("selects", MaxSelects)
  /\ selected' = r
  /\ LoadFromGdb(r) \/ LoadFromDap(<<r>>, frames, <<>>)
  /\ UNCHANGED <<backend, m_updateCounter, listed, m_lastRankStates, frames, pool,
                 fromGdb, varobjs, targetVars>>

(* A row is expanded: canFetchMore, then fetchMore.  The node counts as    *)
(* loaded from the moment its children are asked for.                      *)
FetchMore(node) ==
  /\ node \in nodes /\ Expandable(node) /\ ~node.loaded
  /\ nodes' = (nodes \ {node}) \cup {[node EXCEPT !.loaded = TRUE]}
  /\ \/ /\ backend = "gdb"
        /\ toGdb' = [toGdb EXCEPT ![m_currentRankId] =
                                  Append(@, Msg("children", m_currentRankId, node.ref))]
        /\ UNCHANGED <<toAdapter, sequence>>
     \/ /\ backend = "dap"
        /\ Send(<<Msg("variables", m_currentRankId, node.ref)>>)
        /\ UNCHANGED toGdb
  /\ UNCHANGED <<backend, m_currentRankId, m_createdVarobjs, m_updateCounter, dockVars,
                 frames, pool, fromGdb, varobjs, targetVars, spent>>

(* A step or continue: of the whole DAP session, or of one rank's gdb.     *)
Resume(r) ==
  /\ halted[r]
  /\ Spend("resumes", MaxResumes)
  /\ \/ /\ backend = "dap"
        /\ Send(<<Plain("continue", r)>>)
        /\ UNCHANGED toGdb
     \/ /\ backend = "gdb"
        /\ toGdb' = [toGdb EXCEPT ![r] = Append(@, Plain("continue", r))]
        /\ UNCHANGED <<toAdapter, sequence>>
  /\ UNCHANGED <<backend, modelVars, dockVars, frames, pool, fromGdb, varobjs,
                 targetVars>>

-----------------------------------------------------------------------------
(* Adapter, gdb and target.                                                *)

TargetStops(r) ==
  /\ ~halted[r]
  /\ Spend("stops", MaxStops)
  /\ \/ /\ backend = "dap"
        /\ halted' = [q \in Ranks |-> TRUE]
        /\ stop' = [q \in Ranks |-> stop[q] + 1]
        /\ pool' = pool \cup {[kind |-> "stopped", rank |-> r, seq |-> 0,
                           ref |-> Ref(r, stop[r] + 1, Locals)]}
        /\ UNCHANGED fromGdb
     \/ /\ backend = "gdb"
        /\ halted' = [halted EXCEPT ![r] = TRUE]
        /\ stop' = [stop EXCEPT ![r] = @ + 1]
        /\ fromGdb' = [fromGdb EXCEPT ![r] = Append(@, Plain("stopped", r))]
        /\ UNCHANGED pool
  /\ UNCHANGED <<backend, modelVars, dockVars, frames, sequence, toAdapter, toGdb,
                 varobjs>>

(* A frame or a reference is good until the target runs again; a request   *)
(* with a stale one, or of a target that runs, fails and its answer is     *)
(* ignored.                                                                *)
AdapterReads ==
  /\ toAdapter # <<>>
  /\ LET req == Head(toAdapter)
         r   == req.rank
         ref == IF req.kind = "stackTrace" THEN Ref(r, stop[r], Locals) ELSE req.ref
     IN \/ /\ req.kind = "continue"
           /\ halted' = [q \in Ranks |-> FALSE]
           /\ UNCHANGED pool
        \/ /\ req.kind # "continue"
           /\ pool' = IF halted[r] /\ ref.gen = stop[r]
                        THEN pool \cup {[req EXCEPT !.ref = ref]} ELSE pool
           /\ UNCHANGED halted
  /\ toAdapter' = Tail(toAdapter)
  /\ UNCHANGED <<backend, modelVars, dockVars, frames, sequence, gdbVars, stop, spent>>

(* A gdb answers what it can: list, create and children need a stopped     *)
(* target, create a name that is free (not that of a variable shadowed     *)
(* in the same scope), and children a variable object that exists.         *)
GdbAnswers(r, cmd) ==
  /\ halted[r]
  /\ \/ /\ cmd.kind = "list"
        /\ UNCHANGED varobjs
     \/ /\ cmd.kind = "create" /\ cmd.ref \notin varobjs[r]
        /\ varobjs' = [varobjs EXCEPT ![r] = @ \cup {cmd.ref}]
     \/ /\ cmd.kind = "children" /\ cmd.ref \in varobjs[r]
        /\ varobjs' = [varobjs EXCEPT ![r] = @ \cup Range(Parts(cmd.ref))]
  /\ fromGdb' = [fromGdb EXCEPT ![r] = Append(@, cmd)]
  /\ UNCHANGED halted

(* Deleting a variable object deletes those of its children. *)
GdbDeletes(r, cmd) ==
  /\ cmd.kind = "delete"
  /\ varobjs' = [varobjs EXCEPT ![r] = @ \ ({cmd.ref} \cup
       IF Expandable(cmd) THEN Range(Parts(cmd.ref)) ELSE {})]
  /\ UNCHANGED <<fromGdb, halted>>

GdbResumes(r, cmd) ==
  /\ cmd.kind = "continue" /\ halted[r]
  /\ halted' = [halted EXCEPT ![r] = FALSE]
  /\ fromGdb' = [fromGdb EXCEPT ![r] = Append(@, Plain("running", r))]
  /\ UNCHANGED varobjs

(* An ^error record, which nothing here looks at. *)
GdbRefuses(r, cmd) ==
  /\ \/ ~halted[r] /\ cmd.kind # "delete"
     \/ cmd.kind = "create" /\ cmd.ref \in varobjs[r]
     \/ cmd.kind = "children" /\ cmd.ref \notin varobjs[r]
  /\ UNCHANGED <<varobjs, fromGdb, halted>>

GdbReads(r) ==
  /\ toGdb[r] # <<>>
  /\ LET cmd == Head(toGdb[r])
     IN GdbAnswers(r, cmd) \/ GdbDeletes(r, cmd) \/ GdbResumes(r, cmd) \/ GdbRefuses(r, cmd)
  /\ toGdb' = [toGdb EXCEPT ![r] = Tail(@)]
  /\ UNCHANGED <<backend, modelVars, dockVars, dapVars, stop, spent>>

-----------------------------------------------------------------------------
(* Messages of the adapter, in any order.                                  *)

(* The event sets the session state to Paused, which the dock takes as a   *)
(* stop of the rank it shows; then executionStopped names the rank; then   *)
(* the coordinator asks for its stack.                                     *)
HandleStopped(m) ==
  /\ m.kind = "stopped"
  /\ LET resync == IF listed THEN <<>> ELSE <<0>>
         focus  == IF m_lastRankStates[selected] = "stopped" THEN <<>> ELSE <<selected>>
     IN LoadFromDap(resync \o focus, frames, <<Plain("stackTrace", m.rank)>>)
  /\ listed' = TRUE
  /\ m_lastRankStates' = [r \in Ranks |->
       IF r \in {selected, m.rank} THEN "stopped" ELSE m_lastRankStates[r]]
  /\ UNCHANGED <<m_updateCounter, selected, frames>>

(* locationChanged: the model reloads the rank it shows. *)
HandleStackTrace(m) ==
  /\ m.kind = "stackTrace"
  /\ frames' = [frames EXCEPT ![m.rank] = m.ref.gen]
  /\ LoadFromDap(IF m_currentRankId \in {m.rank, NoRank} THEN <<m.rank>> ELSE <<>>,
                 frames', <<>>)
  /\ UNCHANGED <<m_updateCounter, dockVars>>

(* onScopesUpdated. *)
HandleScopes(m) ==
  /\ m.kind = "scopes"
  /\ Send(IF m_currentRankId \in {NoRank, m.rank}
            THEN <<Msg("variables", m.rank, m.ref)>> ELSE <<>>)
  /\ UNCHANGED <<modelVars, dockVars, frames, toGdb>>

(* onLocalsUpdated: below the node that was expanded, or, when no node has *)
(* the reference, in place of all the rows.                                *)
LocalsUpdated(ref) ==
  LET target == {n \in nodes : n.ref = ref}
  IN \/ /\ target = {}
        /\ nodes' = Rows(ref, FALSE)
     \/ \E n \in target :
          nodes' = IF n.loaded THEN nodes
                   ELSE (nodes \ {n}) \cup {[n EXCEPT !.loaded = TRUE]} \cup Rows(ref, TRUE)

(* Mutant: answers are taken whatever rank they are about. *)
HandleVariablesOfAny(m) ==
  /\ m.kind = "variables"
  /\ m_currentRankId' = IF m_currentRankId = NoRank THEN m.rank ELSE m_currentRankId
  /\ LocalsUpdated(m.ref)
  /\ UNCHANGED <<m_createdVarobjs, m_updateCounter, dockVars, frames, sequence,
                 toAdapter, toGdb>>

HandleVariables(m) ==
  /\ m.kind = "variables"
  /\ IF m_currentRankId \in {NoRank, m.rank}
       THEN m_currentRankId' = m.rank /\ LocalsUpdated(m.ref)
       ELSE UNCHANGED <<m_currentRankId, nodes>>
  /\ UNCHANGED <<m_createdVarobjs, m_updateCounter, dockVars, frames, sequence,
                 toAdapter, toGdb>>

HandleMessage(m) ==
  /\ m \in pool
  /\ HandleStopped(m) \/ HandleStackTrace(m) \/ HandleScopes(m) \/ HandleVariables(m)
  /\ pool' = pool \ {m}
  /\ UNCHANGED <<backend, fromGdb, varobjs, targetVars, spent>>

-----------------------------------------------------------------------------
(* Records of a gdb: handleGdbOutput ignores those of other ranks.         *)

(* parseListVariables: a new generation of variable objects. *)
ParseListVariables(r) ==
  /\ m_updateCounter' = m_updateCounter + 1
  /\ LET scope == Parts(Ref(r, m_updateCounter + 1, Locals))
     IN toGdb' = [toGdb EXCEPT ![r] =
                    @ \o [i \in DOMAIN scope |-> Msg("create", r, scope[i])]]
  /\ UNCHANGED <<nodes, m_createdVarobjs>>

(* parseVarCreate. *)
ParseVarCreate(ref) ==
  /\ nodes' = nodes \cup {Node(ref, FALSE)}
  /\ m_createdVarobjs' = Append(m_createdVarobjs, ref)
  /\ UNCHANGED <<m_updateCounter, toGdb>>

(* parseVarListChildren: below the parent the children's names tell. *)
ParseVarListChildren(ref) ==
  /\ LET parent == {n \in nodes : n.ref = ref /\ ~n.loaded}
     IN \/ /\ parent = {}
           /\ UNCHANGED <<nodes, m_createdVarobjs>>
        \/ \E n \in parent :
             /\ nodes' = (nodes \ {n}) \cup {[n EXCEPT !.loaded = TRUE]} \cup Rows(ref, TRUE)
             /\ m_createdVarobjs' = m_createdVarobjs \o Parts(ref)
  /\ UNCHANGED <<m_updateCounter, toGdb>>

HandleOutput(r, rec) ==
  \/ /\ rec.kind \in {"list", "create", "children"} /\ r # m_currentRankId
     /\ UNCHANGED <<nodes, m_createdVarobjs, m_updateCounter, toGdb>>
  \/ r = m_currentRankId /\ rec.kind = "list" /\ ParseListVariables(r)
  \/ r = m_currentRankId /\ rec.kind = "create" /\ ParseVarCreate(rec.ref)
  \/ r = m_currentRankId /\ rec.kind = "children" /\ ParseVarListChildren(rec.ref)

(* Mutant: a rank that runs is not noted, so its next stop is no change.   *)
RankStateStopped(r, state) ==
  /\ IF state = "stopped" /\ r = selected /\ m_lastRankStates[r] # "stopped"
       THEN LoadFromGdb(r)
       ELSE UNCHANGED <<treeVars, toGdb, toAdapter, sequence>>
  /\ m_lastRankStates' = IF state = "stopped"
       THEN [m_lastRankStates EXCEPT ![r] = state] ELSE m_lastRankStates
  /\ UNCHANGED m_updateCounter

(* onRankStateChanged of the dock: the rank shown is reloaded when it      *)
(* becomes stopped.                                                        *)
RankStateChanged(r, state) ==
  /\ IF state = "stopped" /\ r = selected /\ m_lastRankStates[r] # "stopped"
       THEN LoadFromGdb(r)
       ELSE UNCHANGED <<treeVars, toGdb, toAdapter, sequence>>
  /\ m_lastRankStates' = [m_lastRankStates EXCEPT ![r] = state]
  /\ UNCHANGED m_updateCounter

HandleRecord(r) ==
  /\ fromGdb[r] # <<>>
  /\ LET rec == Head(fromGdb[r])
     IN \/ /\ HandleOutput(r, rec)
           /\ UNCHANGED <<m_currentRankId, m_lastRankStates, toAdapter, sequence>>
        \/ rec.kind \in {"running", "stopped"} /\ RankStateChanged(r, rec.kind)
  /\ fromGdb' = [fromGdb EXCEPT ![r] = Tail(@)]
  /\ UNCHANGED <<backend, listed, selected, frames, pool, varobjs, targetVars, spent>>

-----------------------------------------------------------------------------
Next ==
  \/ \E r \in Ranks : SelectRank(r) \/ Resume(r)
  \/ \E node \in nodes : FetchMore(node)
  \/ \E r \in Ranks : TargetStops(r)
  \/ AdapterReads
  \/ \E m \in pool : HandleMessage(m)
  \/ \E r \in Ranks : GdbReads(r) \/ HandleRecord(r)

Spec == Init /\ [][Next]_vars

-----------------------------------------------------------------------------
Names      == DOMAIN Fields \cup UNION {Range(Fields[c]) : c \in DOMAIN Fields}
Refs       == [rank : Ranks, gen : Nat, name : Names]
Containers == [rank : Ranks, gen : Nat, name : DOMAIN Fields]

(* What asks for the contents of something, or tells them, is about a      *)
(* container.                                                              *)
Bare    == {"stopped", "running", "continue", "list", "create", "delete", "stackTrace"}
Filling == {"scopes", "variables", "children"}
Messages == [kind : Bare, rank : Ranks, ref : Refs]
              \cup [kind : Filling, rank : Ranks, ref : Containers]
Requests == [kind : Bare, rank : Ranks, ref : Refs, seq : Nat]
              \cup [kind : Filling, rank : Ranks, ref : Containers, seq : Nat]

(* The fields of the model and the dock, and what is on the pipes, have    *)
(* their types; with gdb the tree always shows a rank of the session.      *)
TypeOK ==
  /\ backend \in {"dap", "gdb"}
  /\ m_currentRankId \in Ranks \cup (IF backend = "dap" THEN {NoRank} ELSE {})
  /\ nodes \subseteq [ref : Refs, nested : BOOLEAN, loaded : BOOLEAN]
  /\ m_createdVarobjs \in Seq(Refs)
  /\ m_updateCounter \in Nat /\ sequence \in Nat
  /\ listed \in BOOLEAN /\ selected \in Ranks
  /\ m_lastRankStates \in [Ranks -> {"running", "stopped"}]
  /\ frames \in [Ranks -> Nat \cup {-1}]
  /\ toAdapter \in Seq(Requests) /\ pool \subseteq Requests
  /\ toGdb \in [Ranks -> Seq(Messages)] /\ fromGdb \in [Ranks -> Seq(Messages)]
  /\ varobjs \in [Ranks -> SUBSET Refs]
  /\ halted \in [Ranks -> BOOLEAN] /\ stop \in [Ranks -> Nat]

(* Every row is a variable of the rank the tree shows, whatever answers to *)
(* questions about other ranks arrive after the user selected this one.    *)
RowsOfCurrentRank == \A n \in nodes : n.ref.rank = m_currentRankId

(* RowsOfCurrentRank holds because whatever is on its way is about a       *)
(* variable of the rank it names, which is the rank of the pipe it is on,  *)
(* and the variable objects to delete are those of the rank shown.         *)
Attribution ==
  /\ RowsOfCurrentRank
  /\ \A i \in DOMAIN m_createdVarobjs : m_createdVarobjs[i].rank = m_currentRankId
  /\ \A i \in DOMAIN toAdapter : toAdapter[i].ref.rank = toAdapter[i].rank
  /\ \A m \in pool : m.ref.rank = m.rank
  /\ \A r \in Ranks :
       /\ \A i \in DOMAIN toGdb[r] : toGdb[r][i].rank = r /\ toGdb[r][i].ref.rank = r
       /\ \A i \in DOMAIN fromGdb[r] : fromGdb[r][i].rank = r /\ fromGdb[r][i].ref.rank = r

(* A row's variable object exists in the gdb of the rank, and no command   *)
(* on its way deletes it: expanding the row asks for what is there.        *)
RowsAlive ==
  backend = "gdb" =>
    \A n \in nodes : LET r == m_currentRankId
                     IN /\ n.ref \in varobjs[r]
                        /\ \A i \in DOMAIN toGdb[r] : toGdb[r][i] # Msg("delete", r, n.ref)

Quiet ==
  /\ toAdapter = <<>> /\ pool = {}
  /\ \A r \in Ranks : toGdb[r] = <<>> /\ fromGdb[r] = <<>>

(* When the pipes are empty and the rank selected is stopped in its gdb,   *)
(* the tree has a row for every local variable.                            *)
LocalsComplete ==
  Quiet /\ backend = "gdb" /\ halted[selected]
    => Range(Fields[Locals]) \subseteq {n.ref.name : n \in {k \in nodes : ~k.nested}}

=============================================================================
