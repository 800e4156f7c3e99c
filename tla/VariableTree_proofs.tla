------------------------ MODULE VariableTree_proofs ------------------------
(***************************************************************************)
(* Proofs about VariableTree, for every number of ranks, shape of          *)
(* variables and number of stops, steps and selections.                    *)
(***************************************************************************)
EXTENDS VariableTree, TLAPS

(* The scope itself is a container, and what a container has is a name.    *)
LEMMA NamesType ==
  /\ Locals \in DOMAIN Fields /\ Locals \in Names
  /\ DOMAIN Fields \subseteq Names
  /\ \A c \in DOMAIN Fields : \A i \in DOMAIN Fields[c] : Fields[c][i] \in Names
BY TreeAssumption DEF Names, Range

(* The parts of a container are references of its rank and stop. *)
LEMMA PartsType ==
  ASSUME NEW ref \in Containers
  PROVE  /\ Parts(ref) \in Seq(Refs)
         /\ \A i \in DOMAIN Parts(ref) : Parts(ref)[i].rank = ref.rank
         /\ \A nested \in BOOLEAN :
              /\ Rows(ref, nested) \subseteq [ref : Refs, nested : BOOLEAN, loaded : BOOLEAN]
              /\ \A n \in Rows(ref, nested) : n.ref.rank = ref.rank
<1> DEFINE fields == Fields[ref.name]
<1>1. ref.name \in DOMAIN Fields /\ ref.rank \in Ranks /\ ref.gen \in Nat
  BY DEF Containers
<1>2. fields \in Seq(Range(fields))
  BY <1>1, TreeAssumption
<1>3. Len(fields) \in Nat /\ DOMAIN fields = 1..Len(fields)
  BY <1>2
<1>4. \A i \in DOMAIN fields : Ref(ref.rank, ref.gen, fields[i]) \in Refs
  BY <1>1, NamesType DEF Ref, Refs
<1>5. Parts(ref) = [i \in 1..Len(fields) |-> Ref(ref.rank, ref.gen, fields[i])]
  BY <1>3 DEF Parts
<1>6. Parts(ref) \in Seq(Refs)
  BY <1>3, <1>4, <1>5
<1>7. \A i \in DOMAIN Parts(ref) : Parts(ref)[i].rank = ref.rank /\ Parts(ref)[i] \in Refs
  BY <1>3, <1>4, <1>5 DEF Ref
<1>8. ASSUME NEW nested \in BOOLEAN, NEW n \in Rows(ref, nested)
      PROVE  /\ n \in [ref : Refs, nested : BOOLEAN, loaded : BOOLEAN]
             /\ n.ref.rank = ref.rank
  <2>1. PICK i \in DOMAIN Parts(ref) : n = Node(Parts(ref)[i], nested)
    BY DEF Rows, Range
  <2> QED BY <2>1, <1>7 DEF Node
<1> QED BY <1>6, <1>7, <1>8

(* A message about a variable, or about nothing in particular. *)
LEMMA MsgType ==
  /\ \A kind \in Bare, r \in Ranks, ref \in Refs : Msg(kind, r, ref) \in Messages
  /\ \A kind \in Filling, r \in Ranks, ref \in Containers : Msg(kind, r, ref) \in Messages
  /\ \A kind \in Bare, r \in Ranks :
       /\ Plain(kind, r) \in Messages
       /\ Plain(kind, r).kind = kind /\ Plain(kind, r).rank = r /\ Plain(kind, r).ref.rank = r
  /\ \A kind, r, ref : /\ Msg(kind, r, ref).kind = kind
                       /\ Msg(kind, r, ref).rank = r
                       /\ Msg(kind, r, ref).ref = ref
<1>1. \A r \in Ranks : Ref(r, 0, Locals) \in Refs
  BY NamesType DEF Ref, Refs
<1> QED BY <1>1 DEF Msg, Plain, Messages, Ref

(* Containers are references. *)
LEMMA ContainersType == Containers \subseteq Refs
BY NamesType DEF Containers, Refs

-----------------------------------------------------------------------------
(* TypeOK and Attribution in one: what the tree and the pipes hold, by the *)
(* rank it is about.                                                       *)
RefsOf(r)  == {ref \in Refs : ref.rank = r}
NodesOf(r) == {n \in [ref : Refs, nested : BOOLEAN, loaded : BOOLEAN] : n.ref.rank = r}
About(r)   == {m \in Messages : m.rank = r /\ m.ref.rank = r}
Own        == {m \in Messages : m.ref.rank = m.rank}
OwnAsked   == {m \in Requests : m.ref.rank = m.rank}

Shape ==
  /\ backend \in {"dap", "gdb"}
  /\ m_currentRankId \in Ranks \cup (IF backend = "dap" THEN {NoRank} ELSE {})
  /\ nodes \subseteq NodesOf(m_currentRankId)
  /\ m_createdVarobjs \in Seq(RefsOf(m_currentRankId))
  /\ m_updateCounter \in Nat /\ sequence \in Nat
  /\ listed \in BOOLEAN /\ selected \in Ranks
  /\ m_lastRankStates \in [Ranks -> {"running", "stopped"}]
  /\ frames \in [Ranks -> Nat \cup {-1}]
  /\ toAdapter \in Seq(OwnAsked) /\ pool \subseteq OwnAsked
  /\ toGdb \in [Ranks -> Seq(Messages)] /\ fromGdb \in [Ranks -> Seq(Messages)]
  /\ \A r \in Ranks : toGdb[r] \in Seq(About(r)) /\ fromGdb[r] \in Seq(About(r))
  /\ varobjs \in [Ranks -> SUBSET Refs]
  /\ halted \in [Ranks -> BOOLEAN] /\ stop \in [Ranks -> Nat]

(* Shape says no more than the two it replaces. *)
LEMMA ShapeMeaning == Shape <=> TypeOK /\ Attribution
<1>1. \A S, T : T \subseteq S => \A s : s \in Seq(T) <=> s \in Seq(S) /\ \A i \in DOMAIN s : s[i] \in T
  OBVIOUS
<1>2. /\ \A r : RefsOf(r) \subseteq Refs /\ About(r) \subseteq Messages
      /\ OwnAsked \subseteq Requests
  BY DEF RefsOf, About, OwnAsked
<1>3. m_createdVarobjs \in Seq(RefsOf(m_currentRankId)) <=>
        /\ m_createdVarobjs \in Seq(Refs)
        /\ \A i \in DOMAIN m_createdVarobjs : m_createdVarobjs[i].rank = m_currentRankId
  BY <1>1, <1>2 DEF RefsOf
<1>4. toAdapter \in Seq(OwnAsked) <=>
        /\ toAdapter \in Seq(Requests)
        /\ \A i \in DOMAIN toAdapter : toAdapter[i].ref.rank = toAdapter[i].rank
  BY <1>1, <1>2 DEF OwnAsked
<1>5. \A r, s : s \in Seq(About(r)) <=>
        /\ s \in Seq(Messages)
        /\ \A i \in DOMAIN s : s[i].rank = r /\ s[i].ref.rank = r
  BY <1>1, <1>2 DEF About
<1>6. nodes \subseteq NodesOf(m_currentRankId) <=>
        /\ nodes \subseteq [ref : Refs, nested : BOOLEAN, loaded : BOOLEAN]
        /\ RowsOfCurrentRank
  BY DEF NodesOf, RowsOfCurrentRank
<1>7. pool \subseteq OwnAsked <=> pool \subseteq Requests /\ \A m \in pool : m.ref.rank = m.rank
  BY DEF OwnAsked
<1>8. \A pipes : (/\ pipes \in [Ranks -> Seq(Messages)]
                  /\ \A r \in Ranks : pipes[r] \in Seq(About(r))) <=>
        /\ pipes \in [Ranks -> Seq(Messages)]
        /\ \A r \in Ranks : \A i \in DOMAIN pipes[r] :
             pipes[r][i].rank = r /\ pipes[r][i].ref.rank = r
  BY <1>5
<1>9. Shape => TypeOK
  BY <1>3, <1>4, <1>6, <1>7 DEF Shape, TypeOK
<1>10. ASSUME Shape
       PROVE  Attribution
  <2>1. \A r \in Ranks : \A i \in DOMAIN toGdb[r] :
          toGdb[r][i].rank = r /\ toGdb[r][i].ref.rank = r
    BY <1>8, <1>10 DEF Shape
  <2>2. \A r \in Ranks : \A i \in DOMAIN fromGdb[r] :
          fromGdb[r][i].rank = r /\ fromGdb[r][i].ref.rank = r
    BY <1>8, <1>10 DEF Shape
  <2>3. /\ \A i \in DOMAIN m_createdVarobjs : m_createdVarobjs[i].rank = m_currentRankId
        /\ \A i \in DOMAIN toAdapter : toAdapter[i].ref.rank = toAdapter[i].rank
    BY <1>3, <1>4, <1>10 DEF Shape
  <2>4. RowsOfCurrentRank /\ \A m \in pool : m.ref.rank = m.rank
    BY <1>6, <1>7, <1>10 DEF Shape
  <2> QED BY <2>1, <2>2, <2>3, <2>4 DEF Attribution
<1>11. ASSUME TypeOK, Attribution
       PROVE  Shape
  <2>1. \A r \in Ranks : toGdb[r] \in Seq(About(r))
    BY <1>8, <1>11 DEF TypeOK, Attribution
  <2>2. \A r \in Ranks : fromGdb[r] \in Seq(About(r))
    BY <1>8, <1>11 DEF TypeOK, Attribution
  <2>3. m_createdVarobjs \in Seq(RefsOf(m_currentRankId)) /\ toAdapter \in Seq(OwnAsked)
    BY <1>3, <1>4, <1>11 DEF TypeOK, Attribution
  <2>4. nodes \subseteq NodesOf(m_currentRankId) /\ pool \subseteq OwnAsked
    BY <1>6, <1>7, <1>11 DEF TypeOK, Attribution
  <2> QED BY <1>11, <2>1, <2>2, <2>3, <2>4 DEF TypeOK, Shape
<1> QED BY <1>9, <1>10, <1>11

(* The messages the program and gdb write are about what they name. *)
LEMMA MsgAbout ==
  \A r \in Ranks :
    /\ About(r) \subseteq Own
    /\ \A kind \in Bare : Plain(kind, r) \in About(r)
    /\ \A kind \in Bare, ref \in RefsOf(r) : Msg(kind, r, ref) \in About(r)
    /\ \A kind \in Filling, ref \in Containers :
         ref.rank = r => Msg(kind, r, ref) \in About(r)
BY MsgType DEF About, Own, RefsOf

(* Sending keeps the requests about what they name. *)
LEMMA SendKeeps ==
  ASSUME Shape, NEW msgs \in Seq(Own), Send(msgs)
  PROVE  toAdapter' \in Seq(OwnAsked) /\ sequence' \in Nat
<1> DEFINE sent == Numbered(msgs, sequence)
<1>1. /\ toAdapter \in Seq(OwnAsked) /\ sequence \in Nat
      /\ toAdapter' = toAdapter \o sent /\ sequence' = sequence + Len(msgs)
  BY DEF Shape, Send
<1>2. /\ Len(msgs) \in Nat /\ DOMAIN msgs = 1..Len(msgs)
      /\ \A i \in 1..Len(msgs) : msgs[i] \in Own
  OBVIOUS
<1>3. \A i \in 1..Len(msgs) :
        [kind |-> msgs[i].kind, rank |-> msgs[i].rank, ref |-> msgs[i].ref,
         seq |-> sequence + i - 1] \in OwnAsked
  BY <1>1, <1>2 DEF Messages, Requests, Own, OwnAsked
<1>4. sent \in Seq(OwnAsked)
  BY <1>2, <1>3 DEF Numbered
<1> HIDE DEF sent
<1> QED BY <1>1, <1>2, <1>4

(* A load with gdb empties the tree for the rank, and puts the deletions   *)
(* on the pipe of the rank that was shown.                                 *)
LEMMA GdbLoadKeeps ==
  ASSUME Shape, NEW r \in Ranks, LoadFromGdb(r)
  PROVE  /\ m_currentRankId' = r /\ nodes' = {} /\ m_createdVarobjs' = <<>>
         /\ toGdb' \in [Ranks -> Seq(Messages)]
         /\ \A q \in Ranks : toGdb'[q] \in Seq(About(q))
         /\ UNCHANGED <<toAdapter, sequence>>
<1> DEFINE deletions(q) == IF q = m_currentRankId
             THEN [i \in DOMAIN m_createdVarobjs |-> Msg("delete", q, m_createdVarobjs[i])]
             ELSE <<>>
           list(q) == IF q = r THEN <<Plain("list", r)>> ELSE <<>>
<1>1. /\ m_currentRankId' = r /\ nodes' = {} /\ m_createdVarobjs' = <<>>
      /\ UNCHANGED <<toAdapter, sequence>>
      /\ toGdb' = [q \in Ranks |-> toGdb[q] \o deletions(q) \o list(q)]
  BY DEF LoadFromGdb, Clear
<1>2. ASSUME NEW q \in Ranks
      PROVE  toGdb[q] \o deletions(q) \o list(q) \in Seq(About(q))
  <2>1. toGdb[q] \in Seq(About(q))
    BY DEF Shape
  <2>2. deletions(q) \in Seq(About(q))
    <3>1. CASE q # m_currentRankId
      BY <3>1
    <3>2. CASE q = m_currentRankId
      <4>1. m_createdVarobjs \in Seq(RefsOf(q))
        BY <3>2 DEF Shape
      <4>2. \A i \in DOMAIN m_createdVarobjs :
              Msg("delete", q, m_createdVarobjs[i]) \in About(q)
        BY <4>1, MsgAbout DEF Bare
      <4>3. Len(m_createdVarobjs) \in Nat
            /\ DOMAIN m_createdVarobjs = 1..Len(m_createdVarobjs)
        BY <4>1
      <4> QED BY <3>2, <4>2, <4>3
    <3> QED BY <3>1, <3>2
  <2>3. list(q) \in Seq(About(q))
    <3>1. Plain("list", r) \in About(r)
      BY MsgAbout DEF Bare
    <3> QED BY <3>1
  <2> HIDE DEF deletions, list
  <2> QED BY <2>1, <2>2, <2>3
<1>3. \A q \in Ranks : toGdb'[q] \in Seq(About(q))
  BY <1>1, <1>2
<1>4. \A q \in Ranks : Seq(About(q)) \subseteq Seq(Messages)
  BY DEF About
<1>5. toGdb' \in [Ranks -> Seq(Messages)]
  BY <1>1, <1>2, <1>4
<1> QED BY <1>1, <1>3, <1>5

(* A load request for a rank asks about that rank. *)
LEMMA LoadRequestAbout ==
  ASSUME NEW r \in Ranks, NEW known \in [Ranks -> Nat \cup {-1}]
  PROVE  LoadRequest(r, known) \in Own
<1>1. CASE known[r] >= 0
  <2>1. Ref(r, known[r], Locals) \in Containers
    BY <1>1, NamesType DEF Ref, Containers
  <2> QED BY <1>1, <2>1, MsgAbout DEF LoadRequest, Filling, Ref
<1>2. CASE ~(known[r] >= 0)
  BY <1>2, MsgAbout DEF LoadRequest, Bare
<1> QED BY <1>1, <1>2

(* A load with DAP empties the tree, if there is one, for a rank.          *)
LEMMA DapLoadKeeps ==
  ASSUME Shape, NEW loads \in Seq(Ranks), NEW known \in [Ranks -> Nat \cup {-1}],
         NEW further \in Seq(Own), LoadFromDap(loads, known, further)
  PROVE  /\ backend = "dap"
         /\ m_currentRankId' \in Ranks \cup {NoRank}
         /\ nodes' \subseteq NodesOf(m_currentRankId')
         /\ m_createdVarobjs' \in Seq(RefsOf(m_currentRankId'))
         /\ toAdapter' \in Seq(OwnAsked) /\ sequence' \in Nat
         /\ UNCHANGED toGdb
<1> DEFINE asked == [i \in DOMAIN loads |-> LoadRequest(loads[i], known)]
<1>1. backend = "dap" /\ Send(asked \o further) /\ UNCHANGED toGdb
  BY DEF LoadFromDap
<1>2. asked \in Seq(Own)
  <2>1. Len(loads) \in Nat /\ DOMAIN loads = 1..Len(loads)
        /\ \A i \in DOMAIN loads : loads[i] \in Ranks
    OBVIOUS
  <2> QED BY <2>1, LoadRequestAbout
<1>3. asked \o further \in Seq(Own)
  <2> HIDE DEF asked
  <2> QED BY <1>2
<1>4. toAdapter' \in Seq(OwnAsked) /\ sequence' \in Nat
  <2> HIDE DEF asked
  <2> QED BY <1>1, <1>3, SendKeeps
<1>5. CASE loads = <<>>
  <2>1. UNCHANGED <<m_currentRankId, nodes, m_createdVarobjs>>
    BY <1>5 DEF LoadFromDap, treeVars
  <2> QED BY <1>1, <1>4, <2>1 DEF Shape
<1>6. CASE loads # <<>>
  <2>1. Last(loads) \in Ranks
    BY <1>6 DEF Last
  <2>2. m_currentRankId' = Last(loads) /\ nodes' = {} /\ m_createdVarobjs' = <<>>
    BY <1>6 DEF LoadFromDap, Clear
  <2> QED BY <1>1, <1>4, <2>1, <2>2
<1> QED BY <1>5, <1>6

-----------------------------------------------------------------------------
(* A node that is loaded stays a row of its rank. *)
LEMMA NodeLoaded ==
  ASSUME NEW r, NEW node \in NodesOf(r)
  PROVE  [node EXCEPT !.loaded = TRUE] \in NodesOf(r)
BY DEF NodesOf

(* The parts of a node are rows of its rank. *)
LEMMA RowsOfRank ==
  ASSUME NEW ref \in Containers, NEW nested \in BOOLEAN
  PROVE  Rows(ref, nested) \subseteq NodesOf(ref.rank)
BY PartsType DEF NodesOf

(* Selecting a rank. *)
LEMMA SelectRankKeeps == ASSUME Shape, NEW r \in Ranks, SelectRank(r) PROVE Shape'
<1> USE DEF SelectRank, targetVars
<1>1. r \in Ranks /\ <<>> \in Seq(Own) /\ <<r>> \in Seq(Ranks)
  OBVIOUS
<1>2. frames \in [Ranks -> Nat \cup {-1}]
  BY DEF Shape
<1>3. CASE LoadFromGdb(r)
  <2>1. /\ m_currentRankId' = r /\ nodes' = {} /\ m_createdVarobjs' = <<>>
        /\ toGdb' \in [Ranks -> Seq(Messages)]
        /\ \A q \in Ranks : toGdb'[q] \in Seq(About(q))
        /\ UNCHANGED <<toAdapter, sequence>>
    BY <1>3, GdbLoadKeeps
  <2>2. /\ nodes' \subseteq NodesOf(m_currentRankId')
        /\ m_createdVarobjs' \in Seq(RefsOf(m_currentRankId'))
    BY <2>1
  <2> QED BY <2>1, <2>2 DEF Shape
<1>4. CASE LoadFromDap(<<r>>, frames, <<>>)
  <2>1. /\ backend = "dap"
        /\ m_currentRankId' \in Ranks \cup {NoRank}
        /\ nodes' \subseteq NodesOf(m_currentRankId')
        /\ m_createdVarobjs' \in Seq(RefsOf(m_currentRankId'))
        /\ toAdapter' \in Seq(OwnAsked) /\ sequence' \in Nat
        /\ UNCHANGED toGdb
    BY <1>1, <1>2, <1>4, DapLoadKeeps
  <2> QED BY <2>1 DEF Shape, NodesOf, RefsOf
<1> QED BY <1>3, <1>4

(* Expanding a row. *)
LEMMA FetchMoreKeeps == ASSUME Shape, NEW node \in nodes, FetchMore(node) PROVE Shape'
<1> DEFINE r == m_currentRankId
           loaded == [node EXCEPT !.loaded = TRUE]
<1>1. node \in NodesOf(r) /\ loaded \in NodesOf(r)
  BY NodeLoaded DEF Shape
<1>2. node.ref \in Refs /\ node.ref.rank = r /\ node.ref.name \in DOMAIN Fields
  BY <1>1 DEF NodesOf, FetchMore, Expandable
<1>3. node.ref \in Containers /\ r \in Ranks
  BY <1>2 DEF Refs, Containers
<1>4. nodes' \subseteq NodesOf(r)
  BY <1>1 DEF FetchMore, Shape
<1>5. UNCHANGED <<backend, m_currentRankId, m_createdVarobjs, m_updateCounter, listed,
                  selected, m_lastRankStates, frames, pool, fromGdb, varobjs, halted, stop>>
  BY DEF FetchMore, dockVars, targetVars
<1>6. CASE UNCHANGED toGdb /\ Send(<<Msg("variables", r, node.ref)>>)
  <2>1. Msg("variables", r, node.ref) \in Own
    BY <1>2, <1>3, MsgAbout DEF Filling
  <2>2. <<Msg("variables", r, node.ref)>> \in Seq(Own)
    BY <2>1
  <2>3. toAdapter' \in Seq(OwnAsked) /\ sequence' \in Nat
    BY <2>2, <1>6, SendKeeps
  <2> HIDE DEF r
  <2> QED BY <1>4, <1>5, <1>6, <2>3 DEF Shape, NodesOf, RefsOf, r
<1>7. CASE /\ toGdb' = [toGdb EXCEPT ![r] = Append(@, Msg("children", r, node.ref))]
           /\ UNCHANGED <<toAdapter, sequence>>
  <2>1. Msg("children", r, node.ref) \in About(r)
    BY <1>2, <1>3, MsgAbout DEF Filling
  <2>2. About(r) \subseteq Messages
    BY DEF About
  <2>3. Append(toGdb[r], Msg("children", r, node.ref)) \in Seq(About(r))
    BY <1>3, <2>1 DEF Shape
  <2>4. Append(toGdb[r], Msg("children", r, node.ref)) \in Seq(Messages)
    BY <2>2, <2>3
  <2>5. toGdb' \in [Ranks -> Seq(Messages)]
    BY <1>3, <1>7, <2>4 DEF Shape
  <2>6. \A q \in Ranks : toGdb'[q] \in Seq(About(q))
    BY <1>3, <1>7, <2>3 DEF Shape
  <2> HIDE DEF r
  <2> QED BY <1>4, <1>5, <1>7, <2>5, <2>6 DEF Shape, NodesOf, RefsOf, r
<1> QED BY <1>6, <1>7 DEF FetchMore

(* A command of the program at the end of a gdb's pipe, or a record of gdb *)
(* at the end of the other, keeps the pipes about their ranks.             *)
LEMMA PipeAppend ==
  ASSUME NEW pipes \in [Ranks -> Seq(Messages)], NEW r \in Ranks, NEW more \in Seq(About(r)),
         \A q \in Ranks : pipes[q] \in Seq(About(q))
  PROVE  /\ [pipes EXCEPT ![r] = @ \o more] \in [Ranks -> Seq(Messages)]
         /\ \A q \in Ranks : [pipes EXCEPT ![r] = @ \o more][q] \in Seq(About(q))
<1>1. pipes[r] \o more \in Seq(About(r))
  OBVIOUS
<1>2. About(r) \subseteq Messages
  BY DEF About
<1>3. pipes[r] \o more \in Seq(Messages)
  BY <1>1, <1>2
<1> QED BY <1>1, <1>3

(* The same for one record, and for the pipe without its first.            *)
LEMMA PipeStep ==
  ASSUME NEW pipes \in [Ranks -> Seq(Messages)], NEW r \in Ranks,
         \A q \in Ranks : pipes[q] \in Seq(About(q))
  PROVE  /\ \A m \in About(r) :
              /\ [pipes EXCEPT ![r] = Append(@, m)] \in [Ranks -> Seq(Messages)]
              /\ \A q \in Ranks : [pipes EXCEPT ![r] = Append(@, m)][q] \in Seq(About(q))
         /\ pipes[r] # <<>> =>
              /\ Head(pipes[r]) \in About(r)
              /\ [pipes EXCEPT ![r] = Tail(@)] \in [Ranks -> Seq(Messages)]
              /\ \A q \in Ranks : [pipes EXCEPT ![r] = Tail(@)][q] \in Seq(About(q))
<1>1. \A m \in About(r) : Append(pipes[r], m) \in Seq(About(r))
  OBVIOUS
<1>2. pipes[r] # <<>> => Head(pipes[r]) \in About(r) /\ Tail(pipes[r]) \in Seq(About(r))
  OBVIOUS
<1>3. Seq(About(r)) \subseteq Seq(Messages)
  BY DEF About
<1> QED BY <1>1, <1>2, <1>3

(* A step or continue. *)
LEMMA ResumeKeeps == ASSUME Shape, NEW r \in Ranks, Resume(r) PROVE Shape'
<1>1. UNCHANGED <<backend, treeVars, m_updateCounter, listed, selected, m_lastRankStates,
                  frames, pool, fromGdb, varobjs, halted, stop>>
  BY DEF Resume, modelVars, dockVars, targetVars
<1>2. CASE Send(<<Plain("continue", r)>>) /\ UNCHANGED toGdb
  <2>1. <<Plain("continue", r)>> \in Seq(Own)
    BY MsgAbout DEF Bare
  <2>2. toAdapter' \in Seq(OwnAsked) /\ sequence' \in Nat
    BY <1>2, <2>1, SendKeeps
  <2> QED BY <1>1, <1>2, <2>2 DEF Shape, treeVars, NodesOf, RefsOf
<1>3. CASE /\ toGdb' = [toGdb EXCEPT ![r] = Append(@, Plain("continue", r))]
           /\ UNCHANGED <<toAdapter, sequence>>
  <2>1. Plain("continue", r) \in About(r)
    BY MsgAbout DEF Bare
  <2>2. toGdb' \in [Ranks -> Seq(Messages)] /\ \A q \in Ranks : toGdb'[q] \in Seq(About(q))
    BY <1>3, <2>1, PipeStep DEF Shape
  <2> QED BY <1>1, <1>3, <2>2 DEF Shape, treeVars, NodesOf, RefsOf
<1> QED BY <1>2, <1>3 DEF Resume

(* A target stops. *)
LEMMA TargetStopsKeeps == ASSUME Shape, NEW r \in Ranks, TargetStops(r) PROVE Shape'
<1>1. UNCHANGED <<backend, treeVars, m_updateCounter, listed, selected, m_lastRankStates,
                  frames, sequence, toAdapter, toGdb, varobjs>>
  BY DEF TargetStops, modelVars, dockVars
<1>2. halted \in [Ranks -> BOOLEAN] /\ stop \in [Ranks -> Nat]
  BY DEF Shape
<1>3. CASE /\ halted' = [q \in Ranks |-> TRUE]
           /\ stop' = [q \in Ranks |-> stop[q] + 1]
           /\ pool' = pool \cup {[kind |-> "stopped", rank |-> r, seq |-> 0,
                                  ref |-> Ref(r, stop[r] + 1, Locals)]}
           /\ UNCHANGED fromGdb
  <2>1. Ref(r, stop[r] + 1, Locals) \in Refs
    BY <1>2, NamesType DEF Ref, Refs
  <2>2. [kind |-> "stopped", rank |-> r, seq |-> 0, ref |-> Ref(r, stop[r] + 1, Locals)]
          \in OwnAsked
    BY <2>1 DEF OwnAsked, Requests, Bare, Ref
  <2>3. pool' \subseteq OwnAsked
    BY <1>3, <2>2 DEF Shape
  <2>4. halted' \in [Ranks -> BOOLEAN] /\ stop' \in [Ranks -> Nat]
    BY <1>2, <1>3
  <2> QED BY <1>1, <1>3, <2>3, <2>4 DEF Shape, treeVars, NodesOf, RefsOf
<1>4. CASE /\ halted' = [halted EXCEPT ![r] = TRUE]
           /\ stop' = [stop EXCEPT ![r] = @ + 1]
           /\ fromGdb' = [fromGdb EXCEPT ![r] = Append(@, Plain("stopped", r))]
           /\ UNCHANGED pool
  <2>1. Plain("stopped", r) \in About(r)
    BY MsgAbout DEF Bare
  <2>2. fromGdb' \in [Ranks -> Seq(Messages)] /\ \A q \in Ranks : fromGdb'[q] \in Seq(About(q))
    BY <1>4, <2>1, PipeStep DEF Shape
  <2>3. halted' \in [Ranks -> BOOLEAN] /\ stop' \in [Ranks -> Nat]
    BY <1>2, <1>4
  <2> QED BY <1>1, <1>4, <2>2, <2>3 DEF Shape, treeVars, NodesOf, RefsOf
<1> QED BY <1>3, <1>4 DEF TargetStops

(* The adapter reads a request. *)
LEMMA AdapterReadsKeeps == ASSUME Shape, AdapterReads PROVE Shape'
<1> DEFINE req == Head(toAdapter)
           ref == IF req.kind = "stackTrace" THEN Ref(req.rank, stop[req.rank], Locals)
                                             ELSE req.ref
<1>1. UNCHANGED <<backend, treeVars, m_updateCounter, listed, selected, m_lastRankStates,
                  frames, sequence, toGdb, fromGdb, varobjs, stop>>
  BY DEF AdapterReads, modelVars, dockVars, gdbVars
<1>2. toAdapter # <<>> /\ toAdapter' = Tail(toAdapter)
  BY DEF AdapterReads
<1>3. toAdapter \in Seq(OwnAsked)
  BY DEF Shape
<1>4. req \in OwnAsked /\ toAdapter' \in Seq(OwnAsked)
  BY <1>2, <1>3
<1>5. [req EXCEPT !.ref = ref] \in OwnAsked
  <2> HIDE DEF req
  <2>1. CASE req.kind = "stackTrace"
    <3>1. req \in [kind : Bare, rank : Ranks, ref : Refs, seq : Nat]
      BY <2>1, <1>4 DEF OwnAsked, Requests, Filling
    <3>2. ref = Ref(req.rank, stop[req.rank], Locals)
      BY <2>1
    <3>3. ref \in Refs /\ ref.rank = req.rank
      BY <3>1, <3>2, NamesType DEF Ref, Refs, Shape
    <3> HIDE DEF ref
    <3> QED BY <3>1, <3>3 DEF OwnAsked, Requests
  <2>2. CASE req.kind # "stackTrace"
    <3>1. ref = req.ref
      BY <2>2
    <3>2. [req EXCEPT !.ref = req.ref] = req
      BY <1>4 DEF OwnAsked, Requests
    <3> QED BY <3>1, <3>2, <1>4
  <2> QED BY <2>1, <2>2
<1>6. pool' \subseteq OwnAsked
  <2>1. UNCHANGED pool \/ pool' = pool \cup {[req EXCEPT !.ref = ref]}
    BY DEF AdapterReads
  <2> HIDE DEF req, ref
  <2> QED BY <1>5, <2>1 DEF Shape
<1>7. halted' \in [Ranks -> BOOLEAN]
  BY DEF AdapterReads, Shape
<1> HIDE DEF req, ref
<1> QED BY <1>1, <1>4, <1>6, <1>7 DEF Shape, treeVars, NodesOf, RefsOf

(* A gdb reads a command. *)
LEMMA GdbReadsKeeps == ASSUME Shape, NEW r \in Ranks, GdbReads(r) PROVE Shape'
<1> DEFINE cmd == Head(toGdb[r])
<1>1. UNCHANGED <<backend, treeVars, m_updateCounter, listed, selected, m_lastRankStates,
                  frames, sequence, toAdapter, pool, stop>>
  BY DEF GdbReads, modelVars, dockVars, dapVars
<1>2. toGdb[r] # <<>> /\ toGdb' = [toGdb EXCEPT ![r] = Tail(@)]
  BY DEF GdbReads
<1>3. /\ cmd \in About(r)
      /\ toGdb' \in [Ranks -> Seq(Messages)] /\ \A q \in Ranks : toGdb'[q] \in Seq(About(q))
  BY <1>2, PipeStep DEF Shape
<1>4. GdbAnswers(r, cmd) \/ GdbDeletes(r, cmd) \/ GdbResumes(r, cmd) \/ GdbRefuses(r, cmd)
  BY DEF GdbReads
<1> HIDE DEF cmd
<1>5. varobjs \in [Ranks -> SUBSET Refs] /\ halted \in [Ranks -> BOOLEAN]
  BY DEF Shape
<1>6. /\ varobjs' \in [Ranks -> SUBSET Refs] /\ halted' \in [Ranks -> BOOLEAN]
      /\ fromGdb' \in [Ranks -> Seq(Messages)]
      /\ \A q \in Ranks : fromGdb'[q] \in Seq(About(q))
  <2>1. CASE GdbAnswers(r, cmd)
    <3>1. fromGdb' = [fromGdb EXCEPT ![r] = Append(@, cmd)] /\ UNCHANGED halted
      BY <2>1 DEF GdbAnswers
    <3>2. /\ fromGdb' \in [Ranks -> Seq(Messages)]
          /\ \A q \in Ranks : fromGdb'[q] \in Seq(About(q))
      BY <3>1, <1>3, PipeStep DEF Shape
    <3>3. cmd.ref \in Refs
      BY <1>3, ContainersType DEF About, Messages
    <3>4. CASE UNCHANGED varobjs
      BY <3>1, <3>2, <3>4, <1>5
    <3>5. CASE varobjs' = [varobjs EXCEPT ![r] = @ \cup {cmd.ref}]
      BY <3>1, <3>2, <3>3, <3>5, <1>5
    <3>6. CASE /\ cmd.kind = "children"
               /\ varobjs' = [varobjs EXCEPT ![r] = @ \cup Range(Parts(cmd.ref))]
      <4>1. cmd.ref \in Containers
        BY <1>3, <3>6 DEF About, Messages, Bare
      <4>2. Range(Parts(cmd.ref)) \subseteq Refs
        BY <4>1, PartsType DEF Range
      <4> QED BY <3>1, <3>2, <3>6, <4>2, <1>5
    <3> QED BY <2>1, <3>4, <3>5, <3>6 DEF GdbAnswers
  <2>2. CASE GdbDeletes(r, cmd)
    <3>1. UNCHANGED <<fromGdb, halted>>
      BY <2>2 DEF GdbDeletes
    <3>2. varobjs' \in [Ranks -> SUBSET Refs]
      BY <2>2, <1>5 DEF GdbDeletes
    <3> QED BY <3>1, <3>2 DEF Shape
  <2>3. CASE GdbResumes(r, cmd)
    <3>1. Plain("running", r) \in About(r)
      BY MsgAbout DEF Bare
    <3>2. /\ fromGdb' = [fromGdb EXCEPT ![r] = Append(@, Plain("running", r))]
          /\ halted' = [halted EXCEPT ![r] = FALSE] /\ UNCHANGED varobjs
      BY <2>3 DEF GdbResumes
    <3>3. /\ fromGdb' \in [Ranks -> Seq(Messages)]
          /\ \A q \in Ranks : fromGdb'[q] \in Seq(About(q))
      BY <3>1, <3>2, PipeStep DEF Shape
    <3> QED BY <3>2, <3>3, <1>5
  <2>4. CASE GdbRefuses(r, cmd)
    BY <2>4 DEF GdbRefuses, Shape
  <2> QED BY <1>4, <2>1, <2>2, <2>3, <2>4
<1> QED BY <1>1, <1>3, <1>6 DEF Shape, treeVars, NodesOf, RefsOf

(* An answer about the variables of the rank shown. *)
LEMMA LocalsUpdatedKeeps ==
  ASSUME NEW r, nodes \subseteq NodesOf(r), NEW ref \in Containers, ref.rank = r,
         LocalsUpdated(ref)
  PROVE  nodes' \subseteq NodesOf(r)
<1>1. Rows(ref, FALSE) \subseteq NodesOf(r) /\ Rows(ref, TRUE) \subseteq NodesOf(r)
  BY RowsOfRank
<1>2. \/ nodes' = Rows(ref, FALSE)
      \/ \E n \in nodes :
           nodes' = IF n.loaded THEN nodes
                    ELSE (nodes \ {n}) \cup {[n EXCEPT !.loaded = TRUE]} \cup Rows(ref, TRUE)
  BY DEF LocalsUpdated
<1>3. ASSUME NEW n \in nodes,
             nodes' = IF n.loaded THEN nodes
                      ELSE (nodes \ {n}) \cup {[n EXCEPT !.loaded = TRUE]} \cup Rows(ref, TRUE)
      PROVE  nodes' \subseteq NodesOf(r)
  <2>1. [n EXCEPT !.loaded = TRUE] \in NodesOf(r)
    BY NodeLoaded
  <2> QED BY <1>1, <1>3, <2>1
<1> QED BY <1>1, <1>2, <1>3

(* A message of the adapter is handled. *)
LEMMA HandleMessageKeeps == ASSUME Shape, NEW m \in pool, HandleMessage(m) PROVE Shape'
<1>1. UNCHANGED <<backend, fromGdb, varobjs, halted, stop>> /\ pool' \subseteq OwnAsked
  BY DEF HandleMessage, targetVars, Shape
<1>2. m \in OwnAsked /\ m.rank \in Ranks /\ m.ref.rank = m.rank /\ m.ref \in Refs
  BY ContainersType DEF Shape, OwnAsked, Requests
<1>3. frames \in [Ranks -> Nat \cup {-1}] /\ selected \in Ranks
  BY DEF Shape
<1>4. ASSUME m.kind \in Filling
      PROVE  m.ref \in Containers
  BY <1>2, <1>4 DEF OwnAsked, Requests, Bare, Filling
<1>5. CASE HandleStopped(m)
  <2> DEFINE resync == IF listed THEN <<>> ELSE <<0>>
             focus  == IF m_lastRankStates[selected] = "stopped" THEN <<>> ELSE <<selected>>
  <2>1. 0 \in Ranks
    BY TreeAssumption
  <2>2. resync \in Seq(Ranks) /\ focus \in Seq(Ranks)
    BY <2>1, <1>3
  <2>3. resync \o focus \in Seq(Ranks)
    <3> HIDE DEF resync, focus
    <3> QED BY <2>2
  <2>4. <<Plain("stackTrace", m.rank)>> \in Seq(Own)
    BY <1>2, MsgAbout DEF Bare
  <2>5. LoadFromDap(resync \o focus, frames, <<Plain("stackTrace", m.rank)>>)
    BY <1>5 DEF HandleStopped
  <2> HIDE DEF resync, focus
  <2>6. /\ backend = "dap"
        /\ m_currentRankId' \in Ranks \cup {NoRank}
        /\ nodes' \subseteq NodesOf(m_currentRankId')
        /\ m_createdVarobjs' \in Seq(RefsOf(m_currentRankId'))
        /\ toAdapter' \in Seq(OwnAsked) /\ sequence' \in Nat
        /\ UNCHANGED toGdb
    BY <2>3, <2>4, <2>5, <1>3, DapLoadKeeps
  <2>7. /\ listed' = TRUE /\ UNCHANGED <<m_updateCounter, selected, frames>>
        /\ m_lastRankStates' \in [Ranks -> {"running", "stopped"}]
    BY <1>5 DEF HandleStopped, Shape
  <2> QED BY <1>1, <2>6, <2>7 DEF Shape, NodesOf, RefsOf
<1>6. CASE HandleStackTrace(m)
  <2> DEFINE loads == IF m_currentRankId \in {m.rank, NoRank} THEN <<m.rank>> ELSE <<>>
  <2>1. frames' \in [Ranks -> Nat \cup {-1}]
    BY <1>2, <1>3, <1>6 DEF HandleStackTrace, Refs
  <2>2. loads \in Seq(Ranks) /\ <<>> \in Seq(Own)
    BY <1>2
  <2>3. LoadFromDap(loads, frames', <<>>)
    BY <1>6 DEF HandleStackTrace
  <2> HIDE DEF loads
  <2>4. /\ backend = "dap"
        /\ m_currentRankId' \in Ranks \cup {NoRank}
        /\ nodes' \subseteq NodesOf(m_currentRankId')
        /\ m_createdVarobjs' \in Seq(RefsOf(m_currentRankId'))
        /\ toAdapter' \in Seq(OwnAsked) /\ sequence' \in Nat
        /\ UNCHANGED toGdb
    BY <2>1, <2>2, <2>3, DapLoadKeeps
  <2>5. UNCHANGED <<m_updateCounter, listed, selected, m_lastRankStates>>
    BY <1>6 DEF HandleStackTrace, dockVars
  <2> QED BY <1>1, <2>1, <2>4, <2>5 DEF Shape, NodesOf, RefsOf
<1>7. CASE HandleScopes(m)
  <2> DEFINE asked == IF m_currentRankId \in {NoRank, m.rank}
                        THEN <<Msg("variables", m.rank, m.ref)>> ELSE <<>>
  <2>1. m.ref \in Containers
    BY <1>4, <1>7 DEF HandleScopes, Filling
  <2>2. asked \in Seq(Own)
    BY <1>2, <2>1, MsgAbout DEF Filling
  <2>3. Send(asked)
    BY <1>7 DEF HandleScopes
  <2> HIDE DEF asked
  <2>4. toAdapter' \in Seq(OwnAsked) /\ sequence' \in Nat
    BY <2>2, <2>3, SendKeeps
  <2>5. UNCHANGED <<treeVars, m_updateCounter, listed, selected, m_lastRankStates, frames,
                    toGdb>>
    BY <1>7 DEF HandleScopes, modelVars, dockVars
  <2> QED BY <1>1, <2>4, <2>5 DEF Shape, treeVars, NodesOf, RefsOf
<1>8. CASE HandleVariables(m)
  <2>1. m.ref \in Containers
    BY <1>4, <1>8 DEF HandleVariables, Filling
  <2>2. UNCHANGED <<m_createdVarobjs, m_updateCounter, listed, selected, m_lastRankStates,
                    frames, sequence, toAdapter, toGdb>>
    BY <1>8 DEF HandleVariables, dockVars
  <2>3. CASE m_currentRankId \notin {NoRank, m.rank}
    <3>1. UNCHANGED <<m_currentRankId, nodes>>
      BY <1>8, <2>3 DEF HandleVariables
    <3> QED BY <1>1, <2>2, <3>1 DEF Shape, NodesOf, RefsOf
  <2>4. CASE m_currentRankId \in {NoRank, m.rank}
    <3>1. m_currentRankId' = m.rank /\ LocalsUpdated(m.ref)
      BY <1>8, <2>4 DEF HandleVariables
    <3>2. NoRank \notin Ranks
      BY TreeAssumption DEF NoRank
    <3>3. /\ nodes \subseteq NodesOf(m.rank)
          /\ m_createdVarobjs \in Seq(RefsOf(m.rank))
      <4>1. CASE m_currentRankId = m.rank
        BY <4>1 DEF Shape
      <4>2. CASE m_currentRankId = NoRank
        <5>1. NodesOf(NoRank) = {} /\ RefsOf(NoRank) = {}
          BY <3>2 DEF NodesOf, RefsOf, Refs
        <5>2. nodes = {} /\ m_createdVarobjs = <<>>
          BY <4>2, <5>1 DEF Shape
        <5> QED BY <5>2
      <4> QED BY <2>4, <4>1, <4>2
    <3>4. nodes' \subseteq NodesOf(m.rank)
      BY <1>2, <2>1, <3>1, <3>3, LocalsUpdatedKeeps
    <3> QED BY <1>1, <1>2, <2>2, <3>1, <3>3, <3>4 DEF Shape, NodesOf, RefsOf
  <2> QED BY <2>3, <2>4
<1> QED BY <1>5, <1>6, <1>7, <1>8 DEF HandleMessage

(* The records that change the tree, with what they need to know of it.    *)
LEMMA HandleOutputKeeps ==
  ASSUME Shape, NEW r \in Ranks, NEW rec \in About(r), HandleOutput(r, rec)
  PROVE  /\ nodes' \subseteq NodesOf(m_currentRankId)
         /\ m_createdVarobjs' \in Seq(RefsOf(m_currentRankId))
         /\ m_updateCounter' \in Nat
         /\ toGdb' \in [Ranks -> Seq(Messages)] /\ \A q \in Ranks : toGdb'[q] \in Seq(About(q))
<1>1. /\ nodes \subseteq NodesOf(m_currentRankId)
      /\ m_createdVarobjs \in Seq(RefsOf(m_currentRankId)) /\ m_updateCounter \in Nat
      /\ toGdb \in [Ranks -> Seq(Messages)] /\ \A q \in Ranks : toGdb[q] \in Seq(About(q))
  BY DEF Shape
<1>2. rec.ref \in Refs /\ rec.ref.rank = r
  BY ContainersType DEF About, Messages
<1>3. CASE UNCHANGED <<nodes, m_createdVarobjs, m_updateCounter, toGdb>>
  BY <1>1, <1>3
<1>4. CASE r = m_currentRankId /\ ParseListVariables(r)
  <2> DEFINE scope   == Parts(Ref(r, m_updateCounter + 1, Locals))
             creates == [i \in DOMAIN scope |-> Msg("create", r, scope[i])]
  <2>1. Ref(r, m_updateCounter + 1, Locals) \in Containers
    BY <1>1, NamesType DEF Ref, Containers
  <2>2. scope \in Seq(Refs) /\ \A i \in DOMAIN scope : scope[i].rank = r
    BY <2>1, PartsType DEF Ref
  <2>3. UNCHANGED <<nodes, m_createdVarobjs>> /\ m_updateCounter' = m_updateCounter + 1
        /\ toGdb' = [toGdb EXCEPT ![r] = @ \o creates]
    BY <1>4 DEF ParseListVariables
  <2> HIDE DEF scope
  <2>4. /\ Len(scope) \in Nat /\ DOMAIN scope = 1..Len(scope)
        /\ \A i \in DOMAIN scope : Msg("create", r, scope[i]) \in About(r)
    BY <2>2, MsgAbout DEF RefsOf, Bare
  <2>5. creates \in Seq(About(r))
    BY <2>4
  <2> HIDE DEF creates
  <2>6. /\ toGdb' \in [Ranks -> Seq(Messages)]
        /\ \A q \in Ranks : toGdb'[q] \in Seq(About(q))
    BY <1>1, <2>3, <2>5, PipeAppend
  <2>7. m_updateCounter' \in Nat
    BY <1>1, <2>3
  <2> QED BY <1>1, <2>3, <2>6, <2>7
<1>5. CASE r = m_currentRankId /\ ParseVarCreate(rec.ref)
  <2>1. Node(rec.ref, FALSE) \in NodesOf(r) /\ rec.ref \in RefsOf(r)
    BY <1>2 DEF Node, NodesOf, RefsOf
  <2>2. nodes' \subseteq NodesOf(r)
    BY <1>1, <1>5, <2>1 DEF ParseVarCreate
  <2>3. m_createdVarobjs \in Seq(RefsOf(r))
    BY <1>1, <1>5
  <2>4. m_createdVarobjs' \in Seq(RefsOf(r))
    BY <1>5, <2>1, <2>3 DEF ParseVarCreate
  <2>5. UNCHANGED <<m_updateCounter, toGdb>>
    BY <1>5 DEF ParseVarCreate
  <2> QED BY <1>1, <1>5, <2>2, <2>4, <2>5
<1>6. CASE r = m_currentRankId /\ rec.kind = "children" /\ ParseVarListChildren(rec.ref)
  <2>1. UNCHANGED <<m_updateCounter, toGdb>>
    BY <1>6 DEF ParseVarListChildren
  <2>2. rec.ref \in Containers
    BY <1>6 DEF About, Messages, Bare
  <2>3. CASE UNCHANGED <<nodes, m_createdVarobjs>>
    BY <1>1, <2>1, <2>3
  <2>4. ASSUME NEW n \in nodes,
               nodes' = (nodes \ {n}) \cup {[n EXCEPT !.loaded = TRUE]} \cup Rows(rec.ref, TRUE),
               m_createdVarobjs' = m_createdVarobjs \o Parts(rec.ref)
        PROVE  /\ nodes' \subseteq NodesOf(r) /\ m_createdVarobjs' \in Seq(RefsOf(r))
    <3>1. Rows(rec.ref, TRUE) \subseteq NodesOf(r)
      BY <1>2, <2>2, RowsOfRank
    <3>2. [n EXCEPT !.loaded = TRUE] \in NodesOf(r)
      BY <1>1, <1>6, NodeLoaded
    <3>3. Parts(rec.ref) \in Seq(RefsOf(r))
      BY <1>2, <2>2, PartsType DEF RefsOf
    <3>4. nodes' \subseteq NodesOf(r)
      BY <1>1, <1>6, <2>4, <3>1, <3>2
    <3>5. m_createdVarobjs \in Seq(RefsOf(r))
      BY <1>1, <1>6
    <3>6. m_createdVarobjs' \in Seq(RefsOf(r))
      <4> DEFINE parts == Parts(rec.ref)
      <4>1. parts \in Seq(RefsOf(r)) /\ m_createdVarobjs' = m_createdVarobjs \o parts
        BY <2>4, <3>3
      <4> HIDE DEF parts
      <4> QED BY <3>5, <4>1
    <3> QED BY <3>4, <3>6
  <2>5. \/ UNCHANGED <<nodes, m_createdVarobjs>>
        \/ \E n \in nodes :
             /\ nodes' = (nodes \ {n}) \cup {[n EXCEPT !.loaded = TRUE]} \cup Rows(rec.ref, TRUE)
             /\ m_createdVarobjs' = m_createdVarobjs \o Parts(rec.ref)
    BY <1>6 DEF ParseVarListChildren
  <2> QED BY <1>1, <1>6, <2>1, <2>3, <2>4, <2>5
<1> QED BY <1>3, <1>4, <1>5, <1>6 DEF HandleOutput

(* A record of a gdb is handled. *)
LEMMA HandleRecordKeeps == ASSUME Shape, NEW r \in Ranks, HandleRecord(r) PROVE Shape'
<1> DEFINE rec == Head(fromGdb[r])
<1>1. UNCHANGED <<backend, listed, selected, frames, pool, varobjs, halted, stop>>
  BY DEF HandleRecord, targetVars
<1>2. fromGdb[r] # <<>> /\ fromGdb' = [fromGdb EXCEPT ![r] = Tail(@)]
  BY DEF HandleRecord
<1>3. /\ rec \in About(r)
      /\ fromGdb' \in [Ranks -> Seq(Messages)]
      /\ \A q \in Ranks : fromGdb'[q] \in Seq(About(q))
  BY <1>2, PipeStep DEF Shape
<1>4. \/ /\ HandleOutput(r, rec)
         /\ UNCHANGED <<m_currentRankId, m_lastRankStates, toAdapter, sequence>>
      \/ rec.kind \in {"running", "stopped"} /\ RankStateChanged(r, rec.kind)
  BY DEF HandleRecord
<1> HIDE DEF rec
<1>5. CASE /\ HandleOutput(r, rec)
           /\ UNCHANGED <<m_currentRankId, m_lastRankStates, toAdapter, sequence>>
  <2>1. /\ nodes' \subseteq NodesOf(m_currentRankId)
        /\ m_createdVarobjs' \in Seq(RefsOf(m_currentRankId))
        /\ m_updateCounter' \in Nat
        /\ toGdb' \in [Ranks -> Seq(Messages)] /\ \A q \in Ranks : toGdb'[q] \in Seq(About(q))
    BY <1>3, <1>5, HandleOutputKeeps
  <2> QED BY <1>1, <1>3, <1>5, <2>1 DEF Shape
<1>6. CASE rec.kind \in {"running", "stopped"} /\ RankStateChanged(r, rec.kind)
  <2>1. UNCHANGED m_updateCounter /\ m_lastRankStates' \in [Ranks -> {"running", "stopped"}]
    BY <1>6 DEF RankStateChanged, Shape
  <2>2. LoadFromGdb(r) \/ UNCHANGED <<treeVars, toGdb, toAdapter, sequence>>
    BY <1>6 DEF RankStateChanged
  <2>3. CASE LoadFromGdb(r)
    <3>1. /\ m_currentRankId' = r /\ nodes' = {} /\ m_createdVarobjs' = <<>>
          /\ toGdb' \in [Ranks -> Seq(Messages)]
          /\ \A q \in Ranks : toGdb'[q] \in Seq(About(q))
          /\ UNCHANGED <<toAdapter, sequence>>
      BY <2>3, GdbLoadKeeps
    <3>2. /\ nodes' \subseteq NodesOf(m_currentRankId')
          /\ m_createdVarobjs' \in Seq(RefsOf(m_currentRankId'))
      BY <3>1
    <3>3. m_currentRankId' \in Ranks
      BY <3>1
    <3> QED BY <1>1, <1>3, <2>1, <3>1, <3>2, <3>3 DEF Shape
  <2>4. CASE UNCHANGED <<treeVars, toGdb, toAdapter, sequence>>
    BY <1>1, <1>3, <2>1, <2>4 DEF Shape, treeVars, NodesOf, RefsOf
  <2> QED BY <2>2, <2>3, <2>4
<1> QED BY <1>4, <1>5, <1>6

-----------------------------------------------------------------------------
(* Initially the tree is empty and nothing is on its way. *)
LEMMA InitShape == Init => Shape
<1> SUFFICES ASSUME Init PROVE Shape
  OBVIOUS
<1>1. 0 \in Ranks
  BY TreeAssumption
<1>2. m_currentRankId \in Ranks \cup (IF backend = "dap" THEN {NoRank} ELSE {})
  BY <1>1 DEF Init
<1>3. listed \in BOOLEAN
  BY DEF Init
<1> QED BY <1>1, <1>2, <1>3 DEF Init, Shape

(* Every step keeps the shape. *)
LEMMA NextShape == Shape /\ [Next]_vars => Shape'
<1> SUFFICES ASSUME Shape, [Next]_vars PROVE Shape'
  OBVIOUS
<1>1. ASSUME NEW r \in Ranks, SelectRank(r) \/ Resume(r) PROVE Shape'
  BY <1>1, SelectRankKeeps, ResumeKeeps
<1>2. ASSUME NEW node \in nodes, FetchMore(node) PROVE Shape'
  BY <1>2, FetchMoreKeeps
<1>3. ASSUME NEW r \in Ranks, TargetStops(r) PROVE Shape'
  BY <1>3, TargetStopsKeeps
<1>4. CASE AdapterReads
  BY <1>4, AdapterReadsKeeps
<1>5. ASSUME NEW m \in pool, HandleMessage(m) PROVE Shape'
  BY <1>5, HandleMessageKeeps
<1>6. ASSUME NEW r \in Ranks, GdbReads(r) \/ HandleRecord(r) PROVE Shape'
  BY <1>6, GdbReadsKeeps, HandleRecordKeeps
<1>7. CASE UNCHANGED vars
  BY <1>7 DEF vars, modelVars, treeVars, dockVars, dapVars, gdbVars, targetVars, Shape,
              NodesOf, RefsOf
<1> QED BY <1>1, <1>2, <1>3, <1>4, <1>5, <1>6, <1>7 DEF Next

(* Both hold in every reachable state. *)
LEMMA ShapeHolds == Spec => []Shape
<1>1. Shape /\ [Next]_vars => Shape'
  BY NextShape
<1> QED BY InitShape, <1>1, PTL DEF Spec

(* The model and the dock keep their types, whatever the ranks, variables, *)
(* stops and selections, and in whatever order answers arrive.             *)
THEOREM TypeCorrect == Spec => []TypeOK
<1>1. Shape => TypeOK
  BY ShapeMeaning
<1> QED BY ShapeHolds, <1>1, PTL

(* Whatever is on its way, and every variable object the model has to      *)
(* delete, is about a variable of the rank it is addressed to.             *)
THEOREM AttributionHolds == Spec => []Attribution
<1>1. Shape => Attribution
  BY ShapeMeaning
<1> QED BY ShapeHolds, <1>1, PTL

(* No variable of another rank is ever shown, however quickly the user     *)
(* changes the rank and however late an answer arrives.                    *)
THEOREM RowsOfCurrentRankHolds == Spec => []RowsOfCurrentRank
<1>1. Attribution => RowsOfCurrentRank
  BY DEF Attribution
<1> QED BY AttributionHolds, <1>1, PTL


-----------------------------------------------------------------------------
(* The objects of a gdb.  A message about an object on a pipe, and pipes   *)
(* on which no message of the kinds then follows one of the kind first     *)
(* about the same object.                                                  *)
Has(pipe, kind, ref) == \E i \in DOMAIN pipe : pipe[i].kind = kind /\ pipe[i].ref = ref

Apart(pipe, first, then) ==
  \A i, j \in DOMAIN pipe :
    i < j /\ pipe[i].kind = first /\ pipe[j].kind \in then => pipe[i].ref # pipe[j].ref

(* What is on a pipe that others join at its end. *)
LEMMA ConcatDomain ==
  ASSUME NEW S, NEW p \in Seq(S), NEW q \in Seq(S)
  PROVE  /\ \A i \in DOMAIN p : i \in DOMAIN (p \o q) /\ (p \o q)[i] = p[i]
         /\ \A i \in DOMAIN q : Len(p) + i \in DOMAIN (p \o q) /\ (p \o q)[Len(p) + i] = q[i]
         /\ \A i \in DOMAIN (p \o q) :
              \/ i \in DOMAIN p
              \/ i - Len(p) \in DOMAIN q /\ i = Len(p) + (i - Len(p))
<1>1. Len(p) \in Nat /\ Len(q) \in Nat /\ DOMAIN p = 1..Len(p) /\ DOMAIN q = 1..Len(q)
  OBVIOUS
<1>2. Len(p \o q) = Len(p) + Len(q) /\ p \o q \in Seq(S)
  OBVIOUS
<1>3. DOMAIN (p \o q) = 1..Len(p) + Len(q)
  BY <1>2
<1>4. \A i \in 1..Len(p) : (p \o q)[i] = p[i]
  OBVIOUS
<1>5. \A i \in 1..Len(q) : (p \o q)[Len(p) + i] = q[i]
  OBVIOUS
<1> QED BY <1>1, <1>3, <1>4, <1>5

(* Messages about an object, when one pipe's follow another's. *)
LEMMA HasConcat ==
  ASSUME NEW S, NEW p \in Seq(S), NEW q \in Seq(S), NEW kind, NEW ref
  PROVE  Has(p \o q, kind, ref) <=> Has(p, kind, ref) \/ Has(q, kind, ref)
<1> DEFINE pq == p \o q
<1>1. /\ \A i \in DOMAIN p : i \in DOMAIN pq /\ pq[i] = p[i]
      /\ \A i \in DOMAIN q : Len(p) + i \in DOMAIN pq /\ pq[Len(p) + i] = q[i]
      /\ \A i \in DOMAIN pq :
           \/ i \in DOMAIN p
           \/ i - Len(p) \in DOMAIN q /\ i = Len(p) + (i - Len(p))
  BY ConcatDomain
<1> HIDE DEF pq
<1> SUFFICES Has(pq, kind, ref) <=> Has(p, kind, ref) \/ Has(q, kind, ref)
  BY DEF pq
<1>2. ASSUME NEW i \in DOMAIN pq, pq[i].kind = kind, pq[i].ref = ref
      PROVE  Has(p, kind, ref) \/ Has(q, kind, ref)
  <2>1. CASE i \in DOMAIN p
    BY <1>1, <1>2, <2>1 DEF Has
  <2>2. CASE i - Len(p) \in DOMAIN q /\ i = Len(p) + (i - Len(p))
    <3>1. pq[i] = q[i - Len(p)]
      BY <1>1, <2>2
    <3> QED BY <1>2, <2>2, <3>1 DEF Has
  <2> QED BY <1>1, <2>1, <2>2
<1> QED BY <1>1, <1>2 DEF Has

(* One message more, and the first less. *)
LEMMA HasOne ==
  ASSUME NEW m, NEW kind, NEW ref
  PROVE  Has(<<m>>, kind, ref) <=> m.kind = kind /\ m.ref = ref
<1> DEFINE p == <<m>>
<1>1. DOMAIN p = {1} /\ p[1] = m
  OBVIOUS
<1> HIDE DEF p
<1>2. Has(p, kind, ref) <=> m.kind = kind /\ m.ref = ref
  BY <1>1 DEF Has
<1> QED BY <1>2 DEF p

(* What is left of a pipe when the first is read. *)
LEMMA TailDomain ==
  ASSUME NEW S, NEW p \in Seq(S), p # <<>>
  PROVE  /\ Head(p) = p[1] /\ 1 \in DOMAIN p /\ Tail(p) \in Seq(S)
         /\ \A i \in DOMAIN Tail(p) : /\ i \in Nat \ {0} /\ i + 1 \in DOMAIN p
                                      /\ Tail(p)[i] = p[i + 1]
         /\ \A i \in DOMAIN p : i = 1 \/ (i \in Nat /\ i - 1 \in DOMAIN Tail(p)
                                           /\ Tail(p)[i - 1] = p[i])
<1>1. Len(p) \in Nat \ {0} /\ DOMAIN p = 1..Len(p) /\ Tail(p) \in Seq(S) /\ Head(p) = p[1]
  OBVIOUS
<1>2. Len(Tail(p)) = Len(p) - 1 /\ DOMAIN Tail(p) = 1..(Len(p) - 1)
  OBVIOUS
<1>3. \A i \in 1..(Len(p) - 1) : Tail(p)[i] = p[i + 1]
  OBVIOUS
<1>4. ASSUME NEW i \in DOMAIN p, i # 1
      PROVE  i - 1 \in DOMAIN Tail(p) /\ Tail(p)[i - 1] = p[i]
  <2>1. i - 1 \in 1..(Len(p) - 1) /\ (i - 1) + 1 = i
    BY <1>1, <1>4
  <2>2. Tail(p)[i - 1] = p[(i - 1) + 1]
    BY <1>3, <2>1
  <2> QED BY <1>2, <2>1, <2>2
<1> QED BY <1>1, <1>2, <1>3, <1>4

(* Messages about an object: the first, or one of the rest. *)
LEMMA HasTail ==
  ASSUME NEW S, NEW p \in Seq(S), p # <<>>, NEW kind, NEW ref
  PROVE  Has(p, kind, ref) <=>
           (Head(p).kind = kind /\ Head(p).ref = ref) \/ Has(Tail(p), kind, ref)
<1> DEFINE q == Tail(p)
<1>1. /\ Head(p) = p[1] /\ 1 \in DOMAIN p
      /\ \A i \in DOMAIN q : i \in Nat \ {0} /\ i + 1 \in DOMAIN p /\ q[i] = p[i + 1]
      /\ \A i \in DOMAIN p : i = 1 \/ (i \in Nat /\ i - 1 \in DOMAIN q /\ q[i - 1] = p[i])
  BY TailDomain
<1> HIDE DEF q
<1>2. ASSUME Has(p, kind, ref), ~ (Head(p).kind = kind /\ Head(p).ref = ref)
      PROVE  Has(q, kind, ref)
  <2>1. PICK i \in DOMAIN p : p[i].kind = kind /\ p[i].ref = ref
    BY <1>2 DEF Has
  <2>2. i # 1
    BY <1>1, <1>2, <2>1
  <2> QED BY <1>1, <2>1, <2>2 DEF Has
<1>3. ASSUME Has(q, kind, ref) PROVE Has(p, kind, ref)
  <2>1. PICK i \in DOMAIN q : q[i].kind = kind /\ q[i].ref = ref
    BY <1>3 DEF Has
  <2> QED BY <1>1, <2>1 DEF Has
<1>4. Head(p).kind = kind /\ Head(p).ref = ref => Has(p, kind, ref)
  BY <1>1 DEF Has
<1> QED BY <1>2, <1>3, <1>4 DEF q

(* The rest of a pipe keeps its order, and the first came before it. *)
LEMMA ApartTail ==
  ASSUME NEW S, NEW p \in Seq(S), p # <<>>, NEW first, NEW then, Apart(p, first, then)
  PROVE  /\ Apart(Tail(p), first, then)
         /\ Head(p).kind = first => \A kind \in then : ~ Has(Tail(p), kind, Head(p).ref)
<1> DEFINE q == Tail(p)
<1>1. /\ Head(p) = p[1] /\ 1 \in DOMAIN p
      /\ \A i \in DOMAIN q : i \in Nat \ {0} /\ i + 1 \in DOMAIN p /\ q[i] = p[i + 1]
  BY TailDomain
<1> HIDE DEF q
<1>2. Apart(q, first, then)
  <2> SUFFICES ASSUME NEW i \in DOMAIN q, NEW j \in DOMAIN q, i < j,
                      q[i].kind = first, q[j].kind \in then
               PROVE  q[i].ref # q[j].ref
    BY DEF Apart
  <2>1. i + 1 < j + 1
    BY <1>1
  <2> QED BY <1>1, <2>1 DEF Apart
<1>3. ASSUME Head(p).kind = first, NEW kind \in then, Has(q, kind, Head(p).ref)
      PROVE  FALSE
  <2>1. PICK i \in DOMAIN q : q[i].kind = kind /\ q[i].ref = Head(p).ref
    BY <1>3 DEF Has
  <2>2. 1 < i + 1
    BY <1>1
  <2> QED BY <1>1, <1>3, <2>1, <2>2 DEF Apart
<1> QED BY <1>2, <1>3 DEF q

(* Two pipes in order stay so when joined, if nothing crosses. *)
LEMMA ApartConcat ==
  ASSUME NEW S, NEW p \in Seq(S), NEW q \in Seq(S), NEW first, NEW then,
         Apart(p, first, then), Apart(q, first, then),
         \A ref : \A kind \in then : ~ (Has(p, first, ref) /\ Has(q, kind, ref))
  PROVE  Apart(p \o q, first, then)
<1> DEFINE pq == p \o q
<1>1. /\ \A i \in DOMAIN p : i \in DOMAIN pq /\ pq[i] = p[i]
      /\ \A i \in DOMAIN q : Len(p) + i \in DOMAIN pq /\ pq[Len(p) + i] = q[i]
      /\ \A i \in DOMAIN pq :
           \/ i \in DOMAIN p
           \/ i - Len(p) \in DOMAIN q /\ i = Len(p) + (i - Len(p))
  BY ConcatDomain
<1>2. Len(p) \in Nat /\ DOMAIN p = 1..Len(p) /\ DOMAIN q \subseteq Nat \ {0}
  OBVIOUS
<1> HIDE DEF pq
<1> SUFFICES ASSUME NEW i \in DOMAIN pq, NEW j \in DOMAIN pq, i < j,
                    pq[i].kind = first, pq[j].kind \in then, pq[i].ref = pq[j].ref
             PROVE  FALSE
  BY DEF Apart, pq
<1>3. CASE i \in DOMAIN p /\ j \in DOMAIN p
  BY <1>1, <1>3 DEF Apart
<1>4. CASE i \in DOMAIN p /\ j - Len(p) \in DOMAIN q /\ j = Len(p) + (j - Len(p))
  <2>1. Has(p, first, pq[i].ref)
    BY <1>1, <1>4 DEF Has
  <2>2. Has(q, pq[j].kind, pq[j].ref)
    BY <1>1, <1>4 DEF Has
  <2> QED BY <2>1, <2>2
<1>5. CASE /\ i - Len(p) \in DOMAIN q /\ i = Len(p) + (i - Len(p))
           /\ j - Len(p) \in DOMAIN q /\ j = Len(p) + (j - Len(p))
  <2>1. i - Len(p) < j - Len(p)
    BY <1>2, <1>5
  <2>2. pq[i] = q[i - Len(p)] /\ pq[j] = q[j - Len(p)]
    BY <1>1, <1>5
  <2> QED BY <1>5, <2>1, <2>2 DEF Apart
<1>6. CASE /\ i - Len(p) \in DOMAIN q /\ i = Len(p) + (i - Len(p))
           /\ j \in DOMAIN p
  BY <1>2, <1>6
<1> QED BY <1>1, <1>3, <1>4, <1>5, <1>6

(* The same for one message at the end of a pipe, and for messages that    *)
(* are all of one kind.                                                    *)
LEMMA PipeAppended ==
  ASSUME NEW S, NEW p \in Seq(S), NEW m \in S
  PROVE  /\ \A kind, ref : Has(Append(p, m), kind, ref)
                             <=> Has(p, kind, ref) \/ (m.kind = kind /\ m.ref = ref)
         /\ \A first, then :
              /\ Apart(p, first, then)
              /\ m.kind \in then => ~ Has(p, first, m.ref)
              => Apart(Append(p, m), first, then)
<1> DEFINE q == <<m>>
<1>1. q \in Seq(S) /\ Append(p, m) = p \o q /\ DOMAIN q = {1} /\ q[1] = m
  OBVIOUS
<1>2. \A kind, ref : Has(q, kind, ref) <=> m.kind = kind /\ m.ref = ref
  BY HasOne
<1>3. \A first, then : Apart(q, first, then)
  BY <1>1 DEF Apart
<1> HIDE DEF q
<1>4. ASSUME NEW kind, NEW ref
      PROVE  Has(Append(p, m), kind, ref) <=> Has(p, kind, ref) \/ (m.kind = kind /\ m.ref = ref)
  BY <1>1, <1>2, HasConcat
<1>5. ASSUME NEW first, NEW then, Apart(p, first, then),
             m.kind \in then => ~ Has(p, first, m.ref)
      PROVE  Apart(Append(p, m), first, then)
  BY <1>1, <1>2, <1>3, <1>5, ApartConcat
<1> QED BY <1>4, <1>5

(* The messages that the list refs puts on a pipe, one for each.           *)
Each(kind, r, refs) == [i \in DOMAIN refs |-> Msg(kind, r, refs[i])]
Listed(refs) == {refs[i] : i \in DOMAIN refs}
Different(refs) == \A i, j \in DOMAIN refs : i # j => refs[i] # refs[j]

(* What is on the pipe then, in what order. *)
LEMMA EachHas ==
  ASSUME NEW one, NEW r, NEW T, NEW refs \in Seq(T)
  PROVE  /\ \A kind, ref : Has(Each(one, r, refs), kind, ref) <=> kind = one /\ ref \in Listed(refs)
         /\ \A first, then : (first = one /\ one \in then => Different(refs))
                               => Apart(Each(one, r, refs), first, then)
<1> DEFINE q == Each(one, r, refs)
<1>1. /\ DOMAIN refs \subseteq Nat /\ DOMAIN q = DOMAIN refs
      /\ \A i \in DOMAIN refs : q[i].kind = one /\ q[i].ref = refs[i]
  BY DEF Each, Msg
<1> HIDE DEF q
<1>2. \A kind, ref : Has(q, kind, ref) <=> kind = one /\ ref \in Listed(refs)
  BY <1>1 DEF Has, Listed
<1>3. ASSUME NEW first, NEW then, first = one /\ one \in then => Different(refs)
      PROVE  Apart(q, first, then)
  BY <1>1, <1>3 DEF Apart, Different
<1> QED BY <1>2, <1>3 DEF q

-----------------------------------------------------------------------------
(* The life of the objects of one gdb, from the commands and the records   *)
(* on its pipes, its objects and the last generation given to one.  A      *)
(* command that deletes an object is the last that creates or deletes it,  *)
(* and the object exists; what a record says was created exists and is not *)
(* to be deleted; what was asked for its children has no record that it    *)
(* was created on its way, and a command to create it will be refused.     *)
Scope == Range(Fields[Locals])
Local(ref, n) == ref.name \in Scope /\ ref.gen \in 0..n
Asked(to, from, ref) == Has(to, "children", ref) \/ Has(from, "children", ref)

Life(to, from, objs, n) ==
  /\ \A ref \in objs : ref.gen \in 0..n
  /\ Apart(to, "delete", {"create", "delete"})
  /\ Apart(from, "create", {"create"})
  /\ \A ref : Has(to, "create", ref) => Local(ref, n)
  /\ \A ref : Has(from, "create", ref) =>
       Local(ref, n) /\ ref \in objs /\ ~ Has(to, "delete", ref)
  /\ \A ref : Has(to, "delete", ref) => Local(ref, n) /\ ref \in objs
  /\ \A ref : Asked(to, from, ref) =>
       /\ Local(ref, n) /\ ~ Has(from, "create", ref)
       /\ Has(to, "create", ref) => ref \in objs

(* The tree of the rank shown, with the pipes and the objects of its gdb.  *)
Rooted(to, from, objs, tree, created) ==
  /\ \A x \in tree : /\ ~ x.nested /\ x.ref.name \in Scope /\ x.ref \in objs
                     /\ ~ Has(to, "delete", x.ref) /\ ~ Has(from, "create", x.ref)
                     /\ ~ x.loaded => ~ Asked(to, from, x.ref)
  /\ \A x, y \in tree : x.ref = y.ref => x = y
  /\ Listed(created) \subseteq {x.ref : x \in tree}
  /\ Different(created)

Loose == {"stopped", "running", "continue", "list"}

(* A message that is about no object changes nothing of this, at the end   *)
(* of either pipe; nor does the loss of the first.                         *)
LEMMA LifeAppend ==
  ASSUME NEW to \in Seq(Messages), NEW from \in Seq(Messages), NEW objs, NEW n \in Nat,
         NEW m \in Messages, m.kind \in Loose
  PROVE  /\ Life(to, from, objs, n) =>
              Life(Append(to, m), from, objs, n) /\ Life(to, Append(from, m), objs, n)
         /\ \A tree, created : Rooted(to, from, objs, tree, created) =>
              /\ Rooted(Append(to, m), from, objs, tree, created)
              /\ Rooted(to, Append(from, m), objs, tree, created)
<1>1. m.kind \notin {"create", "delete", "children"}
  BY DEF Loose
<1>2. \A kind \in {"create", "delete", "children"} : \A ref :
        /\ Has(Append(to, m), kind, ref) <=> Has(to, kind, ref)
        /\ Has(Append(from, m), kind, ref) <=> Has(from, kind, ref)
  BY <1>1, PipeAppended
<1>3. /\ Apart(to, "delete", {"create", "delete"})
           => Apart(Append(to, m), "delete", {"create", "delete"})
      /\ Apart(from, "create", {"create"}) => Apart(Append(from, m), "create", {"create"})
  BY <1>1, PipeAppended
<1>4. ASSUME Life(to, from, objs, n)
      PROVE  Life(Append(to, m), from, objs, n) /\ Life(to, Append(from, m), objs, n)
  BY <1>2, <1>3, <1>4 DEF Life, Asked
<1>5. ASSUME NEW tree, NEW created, Rooted(to, from, objs, tree, created)
      PROVE  /\ Rooted(Append(to, m), from, objs, tree, created)
             /\ Rooted(to, Append(from, m), objs, tree, created)
  BY <1>2, <1>5 DEF Rooted, Asked
<1> QED BY <1>4, <1>5

(* Reading the first message of a pipe, whatever it is, loses nothing. *)
LEMMA LifeTail ==
  ASSUME NEW to \in Seq(Messages), NEW from \in Seq(Messages), NEW objs, NEW n \in Nat
  PROVE  /\ to # <<>> =>
              /\ Life(to, from, objs, n) => Life(Tail(to), from, objs, n)
              /\ \A tree, created : Rooted(to, from, objs, tree, created) =>
                   Rooted(Tail(to), from, objs, tree, created)
         /\ from # <<>> =>
              /\ Life(to, from, objs, n) => Life(to, Tail(from), objs, n)
              /\ \A tree, created : Rooted(to, from, objs, tree, created) =>
                   Rooted(to, Tail(from), objs, tree, created)
<1>1. ASSUME to # <<>>
      PROVE  /\ Life(to, from, objs, n) => Life(Tail(to), from, objs, n)
             /\ \A tree, created : Rooted(to, from, objs, tree, created) =>
                  Rooted(Tail(to), from, objs, tree, created)
  <2>1. \A kind, ref : Has(Tail(to), kind, ref) => Has(to, kind, ref)
    BY <1>1, HasTail
  <2>2. Apart(to, "delete", {"create", "delete"})
          => Apart(Tail(to), "delete", {"create", "delete"})
    BY <1>1, ApartTail
  <2>3. Life(to, from, objs, n) => Life(Tail(to), from, objs, n)
    BY <2>1, <2>2 DEF Life, Asked
  <2>4. \A tree, created : Rooted(to, from, objs, tree, created) =>
          Rooted(Tail(to), from, objs, tree, created)
    BY <2>1 DEF Rooted, Asked
  <2> QED BY <2>3, <2>4
<1>2. ASSUME from # <<>>
      PROVE  /\ Life(to, from, objs, n) => Life(to, Tail(from), objs, n)
             /\ \A tree, created : Rooted(to, from, objs, tree, created) =>
                  Rooted(to, Tail(from), objs, tree, created)
  <2>1. \A kind, ref : Has(Tail(from), kind, ref) => Has(from, kind, ref)
    BY <1>2, HasTail
  <2>2. Apart(from, "create", {"create"}) => Apart(Tail(from), "create", {"create"})
    BY <1>2, ApartTail
  <2>3. Life(to, from, objs, n) => Life(to, Tail(from), objs, n)
    BY <2>1, <2>2 DEF Life, Asked
  <2>4. \A tree, created : Rooted(to, from, objs, tree, created) =>
          Rooted(to, Tail(from), objs, tree, created)
    BY <2>1 DEF Rooted, Asked
  <2> QED BY <2>3, <2>4
<1> QED BY <1>1, <1>2

(* A gdb reads the command that is first on its pipe: one that creates an  *)
(* object.                                                                 *)
LEMMA LifeCreate ==
  ASSUME NEW to \in Seq(Messages), NEW from \in Seq(Messages), NEW objs, NEW n \in Nat,
         to # <<>>, Head(to).kind = "create", Head(to).ref \notin objs, Life(to, from, objs, n)
  PROVE  /\ Life(Tail(to), Append(from, Head(to)), objs \cup {Head(to).ref}, n)
         /\ \A tree, created : Rooted(to, from, objs, tree, created) =>
              Rooted(Tail(to), Append(from, Head(to)), objs \cup {Head(to).ref}, tree, created)
<1> DEFINE cmd == Head(to)
<1>1. cmd \in Messages /\ cmd.kind = "create" /\ cmd.ref \notin objs
  OBVIOUS
<1>2. \A kind, ref : Has(to, kind, ref) <=>
        (cmd.kind = kind /\ cmd.ref = ref) \/ Has(Tail(to), kind, ref)
  BY HasTail
<1>3. Apart(Tail(to), "delete", {"create", "delete"})
  BY ApartTail DEF Life
<1> HIDE DEF cmd
<1>4. \A kind, ref : Has(Append(from, cmd), kind, ref)
                       <=> Has(from, kind, ref) \/ (cmd.kind = kind /\ cmd.ref = ref)
  BY <1>1, PipeAppended
<1>5. ~ Has(from, "create", cmd.ref) /\ ~ Has(to, "delete", cmd.ref) /\ ~ Asked(to, from, cmd.ref)
  BY <1>1, <1>2 DEF Life
<1>6. Apart(Append(from, cmd), "create", {"create"})
  BY <1>1, <1>5, PipeAppended DEF Life
<1>7. Local(cmd.ref, n)
  BY <1>1, <1>2 DEF Life
<1>8. Life(Tail(to), Append(from, cmd), objs \cup {cmd.ref}, n)
  <2>1. \A ref \in objs \cup {cmd.ref} : ref.gen \in 0..n
    BY <1>7 DEF Life, Local
  <2>2. \A ref : Has(Tail(to), "create", ref) => Local(ref, n)
    BY <1>2 DEF Life
  <2>3. \A ref : Has(Append(from, cmd), "create", ref) =>
          Local(ref, n) /\ ref \in objs \cup {cmd.ref} /\ ~ Has(Tail(to), "delete", ref)
    BY <1>1, <1>2, <1>4, <1>5, <1>7 DEF Life
  <2>4. \A ref : Has(Tail(to), "delete", ref) => Local(ref, n) /\ ref \in objs \cup {cmd.ref}
    BY <1>2 DEF Life
  <2>5. \A ref : Asked(Tail(to), Append(from, cmd), ref) => Asked(to, from, ref)
    BY <1>1, <1>2, <1>4 DEF Asked
  <2>6. \A ref : Asked(Tail(to), Append(from, cmd), ref) =>
          /\ Local(ref, n) /\ ~ Has(Append(from, cmd), "create", ref)
          /\ Has(Tail(to), "create", ref) => ref \in objs \cup {cmd.ref}
    BY <1>1, <1>2, <1>4, <1>5, <2>5 DEF Life
  <2> QED BY <1>3, <1>6, <2>1, <2>2, <2>3, <2>4, <2>6 DEF Life
<1>9. ASSUME NEW tree, NEW created, Rooted(to, from, objs, tree, created)
      PROVE  Rooted(Tail(to), Append(from, cmd), objs \cup {cmd.ref}, tree, created)
  <2>1. \A ref : Asked(Tail(to), Append(from, cmd), ref) => Asked(to, from, ref)
    BY <1>1, <1>2, <1>4 DEF Asked
  <2>2. \A x \in tree : /\ ~ Has(Tail(to), "delete", x.ref)
                        /\ ~ Has(Append(from, cmd), "create", x.ref)
    BY <1>1, <1>2, <1>4, <1>9 DEF Rooted
  <2> QED BY <1>9, <2>1, <2>2 DEF Rooted
<1> QED BY <1>8, <1>9 DEF cmd

(* One that is answered with the children of an object. *)
LEMMA LifeChildren ==
  ASSUME NEW to \in Seq(Messages), NEW from \in Seq(Messages), NEW objs, NEW n \in Nat,
         to # <<>>, Head(to).kind = "children", Life(to, from, objs, n),
         NEW more, \A ref \in more : ref.gen \in 0..n
  PROVE  /\ Life(Tail(to), Append(from, Head(to)), objs \cup more, n)
         /\ \A tree, created : Rooted(to, from, objs, tree, created) =>
              Rooted(Tail(to), Append(from, Head(to)), objs \cup more, tree, created)
<1> DEFINE cmd == Head(to)
<1>1. cmd \in Messages /\ cmd.kind = "children"
  OBVIOUS
<1>2. \A kind, ref : Has(to, kind, ref) <=>
        (cmd.kind = kind /\ cmd.ref = ref) \/ Has(Tail(to), kind, ref)
  BY HasTail
<1>3. Apart(Tail(to), "delete", {"create", "delete"})
  BY ApartTail DEF Life
<1> HIDE DEF cmd
<1>4. \A kind, ref : Has(Append(from, cmd), kind, ref)
                       <=> Has(from, kind, ref) \/ (cmd.kind = kind /\ cmd.ref = ref)
  BY <1>1, PipeAppended
<1>5. Apart(Append(from, cmd), "create", {"create"})
  BY <1>1, PipeAppended DEF Life
<1>6. \A ref : Asked(Tail(to), Append(from, cmd), ref) => Asked(to, from, ref)
  BY <1>1, <1>2, <1>4 DEF Asked
<1>7. Life(Tail(to), Append(from, cmd), objs \cup more, n)
  <2>1. \A ref \in objs \cup more : ref.gen \in 0..n
    BY DEF Life
  <2>2. \A ref : Has(Append(from, cmd), "create", ref) <=> Has(from, "create", ref)
    BY <1>1, <1>4
  <2>3. \A kind, ref : Has(Tail(to), kind, ref) => Has(to, kind, ref)
    BY <1>2
  <2> QED BY <1>3, <1>5, <1>6, <2>1, <2>2, <2>3 DEF Life
<1>8. ASSUME NEW tree, NEW created, Rooted(to, from, objs, tree, created)
      PROVE  Rooted(Tail(to), Append(from, cmd), objs \cup more, tree, created)
  BY <1>1, <1>2, <1>4, <1>6, <1>8 DEF Rooted
<1> QED BY <1>7, <1>8 DEF cmd

(* One that deletes an object with its children. *)
LEMMA LifeDelete ==
  ASSUME NEW to \in Seq(Messages), NEW from \in Seq(Messages), NEW objs, NEW n \in Nat,
         to # <<>>, Head(to).kind = "delete", Life(to, from, objs, n),
         NEW less, \A ref \in less : ref.name \notin Scope
  PROVE  /\ Life(Tail(to), from, objs \ ({Head(to).ref} \cup less), n)
         /\ \A tree, created : Rooted(to, from, objs, tree, created) =>
              Rooted(Tail(to), from, objs \ ({Head(to).ref} \cup less), tree, created)
<1> DEFINE cmd == Head(to)
           left == objs \ ({cmd.ref} \cup less)
<1>1. cmd.kind = "delete"
  OBVIOUS
<1>2. \A kind, ref : Has(to, kind, ref) <=>
        (cmd.kind = kind /\ cmd.ref = ref) \/ Has(Tail(to), kind, ref)
  BY HasTail
<1>3. /\ Apart(Tail(to), "delete", {"create", "delete"})
      /\ ~ Has(Tail(to), "create", cmd.ref) /\ ~ Has(Tail(to), "delete", cmd.ref)
  BY ApartTail DEF Life
<1> HIDE DEF cmd
<1>4. \A ref : ref \in objs /\ ref.name \in Scope /\ ref # cmd.ref => ref \in left
  OBVIOUS
<1>5. Has(to, "delete", cmd.ref)
  BY <1>1, <1>2
<1>6. Life(Tail(to), from, left, n)
  <2>1. \A ref \in left : ref.gen \in 0..n
    BY DEF Life
  <2>2. \A ref : Has(from, "create", ref) =>
          Local(ref, n) /\ ref \in left /\ ~ Has(Tail(to), "delete", ref)
    BY <1>2, <1>4, <1>5 DEF Life, Local
  <2>3. \A ref : Has(Tail(to), "delete", ref) => Local(ref, n) /\ ref \in left
    BY <1>2, <1>3, <1>4 DEF Life, Local
  <2>4. \A ref : Asked(Tail(to), from, ref) => Asked(to, from, ref)
    BY <1>2 DEF Asked
  <2>5. \A ref : Asked(Tail(to), from, ref) =>
          /\ Local(ref, n) /\ ~ Has(from, "create", ref)
          /\ Has(Tail(to), "create", ref) => ref \in left
    BY <1>2, <1>3, <1>4, <2>4 DEF Life, Local
  <2> HIDE DEF left
  <2> QED BY <1>2, <1>3, <2>1, <2>2, <2>3, <2>5 DEF Life
<1>7. ASSUME NEW tree, NEW created, Rooted(to, from, objs, tree, created)
      PROVE  Rooted(Tail(to), from, left, tree, created)
  <2>1. \A ref : Asked(Tail(to), from, ref) => Asked(to, from, ref)
    BY <1>2 DEF Asked
  <2>2. \A x \in tree : x.ref \in left
    BY <1>4, <1>5, <1>7 DEF Rooted
  <2> HIDE DEF left
  <2> QED BY <1>2, <1>7, <2>1, <2>2 DEF Rooted
<1> QED BY <1>6, <1>7 DEF cmd

(* The model writes the creations of a new generation. *)
LEMMA LifeCreates ==
  ASSUME NEW to \in Seq(Messages), NEW from \in Seq(Messages), NEW objs, NEW n \in Nat,
         NEW r, NEW refs \in Seq(Refs), Each("create", r, refs) \in Seq(Messages),
         \A ref \in Listed(refs) : ref.name \in Scope /\ ref.gen = n + 1,
         Life(to, from, objs, n)
  PROVE  /\ Life(to \o Each("create", r, refs), from, objs, n + 1)
         /\ \A tree, created : Rooted(to, from, objs, tree, created) =>
              Rooted(to \o Each("create", r, refs), from, objs, tree, created)
<1> DEFINE q == Each("create", r, refs)
<1>1. /\ \A kind, ref : Has(q, kind, ref) <=> kind = "create" /\ ref \in Listed(refs)
      /\ Apart(q, "delete", {"create", "delete"})
  BY EachHas
<1> HIDE DEF q
<1>2. \A kind, ref : Has(to \o q, kind, ref) <=> Has(to, kind, ref) \/ Has(q, kind, ref)
  BY HasConcat DEF q
<1>3. \A ref : ref.gen \in 0..n => ref.gen \in 0..(n + 1) /\ ref \notin Listed(refs)
  OBVIOUS
<1>4. \A ref : Local(ref, n) => Local(ref, n + 1) /\ ref \notin Listed(refs)
  BY <1>3 DEF Local
<1>5. \A ref : Has(to, "delete", ref) => ref \notin Listed(refs)
  BY <1>4 DEF Life
<1>6. Apart(to \o q, "delete", {"create", "delete"})
  <2>1. \A ref : \A kind \in {"create", "delete"} :
          ~ (Has(to, "delete", ref) /\ Has(q, kind, ref))
    BY <1>1, <1>5
  <2> QED BY <1>1, <2>1, ApartConcat DEF Life, q
<1>7. \A ref : Asked(to \o q, from, ref) <=> Asked(to, from, ref)
  BY <1>1, <1>2 DEF Asked
<1>8. Life(to \o q, from, objs, n + 1)
  <2>1. \A ref \in objs : ref.gen \in 0..(n + 1)
    BY <1>3 DEF Life
  <2>2. \A ref : ref \in Listed(refs) => Local(ref, n + 1)
    BY DEF Local
  <2>3. \A ref : Has(to \o q, "create", ref) => Local(ref, n + 1)
    BY <1>1, <1>2, <1>4, <2>2 DEF Life
  <2>4. \A ref : Has(to \o q, "delete", ref) <=> Has(to, "delete", ref)
    BY <1>1, <1>2
  <2>5. \A ref : Asked(to, from, ref) /\ Has(to \o q, "create", ref) => Has(to, "create", ref)
    BY <1>1, <1>2, <1>4 DEF Life
  <2>6. \A ref : Asked(to \o q, from, ref) =>
       /\ Local(ref, n + 1) /\ ~ Has(from, "create", ref)
       /\ Has(to \o q, "create", ref) => ref \in objs
    BY <1>4, <1>7, <2>5 DEF Life
  <2>7. \A ref : Has(from, "create", ref) =>
       Local(ref, n + 1) /\ ref \in objs /\ ~ Has(to \o q, "delete", ref)
    BY <1>4, <2>4 DEF Life
  <2>8. \A ref : Has(to \o q, "delete", ref) => Local(ref, n + 1) /\ ref \in objs
    BY <1>4, <2>4 DEF Life
  <2>9. Apart(from, "create", {"create"})
    BY DEF Life
  <2> QED BY <1>6, <2>1, <2>3, <2>6, <2>7, <2>8, <2>9 DEF Life
<1>9. ASSUME NEW tree, NEW created, Rooted(to, from, objs, tree, created)
      PROVE  Rooted(to \o q, from, objs, tree, created)
  BY <1>1, <1>2, <1>7, <1>9 DEF Rooted
<1> QED BY <1>8, <1>9 DEF q

(* Deleting every object that backs the tree. *)
LEMMA LifeDeletes ==
  ASSUME NEW to \in Seq(Messages), NEW from \in Seq(Messages), NEW objs, NEW n \in Nat,
         NEW r, NEW tree, NEW refs \in Seq(Refs), Each("delete", r, refs) \in Seq(Messages),
         Rooted(to, from, objs, tree, refs), Life(to, from, objs, n)
  PROVE  Life(to \o Each("delete", r, refs), from, objs, n)
<1> DEFINE q == Each("delete", r, refs)
<1>1. /\ \A kind, ref : Has(q, kind, ref) <=> kind = "delete" /\ ref \in Listed(refs)
      /\ Apart(q, "delete", {"create", "delete"})
  BY EachHas DEF Rooted
<1> HIDE DEF q
<1>2. \A kind, ref : Has(to \o q, kind, ref) <=> Has(to, kind, ref) \/ Has(q, kind, ref)
  BY HasConcat DEF q
<1>3. \A ref \in Listed(refs) :
        /\ ref.name \in Scope /\ ref \in objs
        /\ ~ Has(to, "delete", ref) /\ ~ Has(from, "create", ref)
  BY DEF Rooted
<1>4. \A ref \in Listed(refs) : Local(ref, n)
  BY <1>3 DEF Life, Local
<1>5. Apart(to \o q, "delete", {"create", "delete"})
  <2>1. \A ref : \A kind \in {"create", "delete"} :
          ~ (Has(to, "delete", ref) /\ Has(q, kind, ref))
    BY <1>1, <1>3
  <2> QED BY <1>1, <2>1, ApartConcat DEF Life, q
<1>6. \A ref : Asked(to \o q, from, ref) <=> Asked(to, from, ref)
  BY <1>1, <1>2 DEF Asked
<1>7. \A ref : Has(to \o q, "create", ref) <=> Has(to, "create", ref)
  BY <1>1, <1>2
<1>8. \A ref : Has(to \o q, "delete", ref) <=> Has(to, "delete", ref) \/ ref \in Listed(refs)
  BY <1>1, <1>2
<1>9. Life(to \o q, from, objs, n)
  BY <1>3, <1>4, <1>5, <1>6, <1>7, <1>8 DEF Life
<1> QED BY <1>9 DEF q

(* Asking for the children of a row that has not been asked. *)
LEMMA LifeAsks ==
  ASSUME NEW to \in Seq(Messages), NEW from \in Seq(Messages), NEW objs, NEW n \in Nat,
         NEW tree, NEW created, Rooted(to, from, objs, tree, created), Life(to, from, objs, n),
         NEW x \in tree, ~ x.loaded, NEW m \in Messages, m.kind = "children", m.ref = x.ref,
         NEW y, y.ref = x.ref, ~ y.nested, y.loaded
  PROVE  /\ Life(Append(to, m), from, objs, n)
         /\ Rooted(Append(to, m), from, objs, (tree \ {x}) \cup {y}, created)
<1>1. \A kind, ref : Has(Append(to, m), kind, ref)
                       <=> Has(to, kind, ref) \/ (m.kind = kind /\ m.ref = ref)
  BY PipeAppended
<1>2. Apart(Append(to, m), "delete", {"create", "delete"})
  BY PipeAppended DEF Life
<1>3. \A ref : Asked(Append(to, m), from, ref) <=> Asked(to, from, ref) \/ ref = x.ref
  BY <1>1 DEF Asked
<1>4. /\ x.ref.name \in Scope /\ x.ref \in objs
      /\ ~ Has(to, "delete", x.ref) /\ ~ Has(from, "create", x.ref)
  BY DEF Rooted
<1>5. Life(Append(to, m), from, objs, n)
  <2>1. Local(x.ref, n)
    BY <1>4 DEF Life, Local
  <2>2. \A ref : /\ Has(Append(to, m), "create", ref) <=> Has(to, "create", ref)
                 /\ Has(Append(to, m), "delete", ref) <=> Has(to, "delete", ref)
    BY <1>1
  <2> QED BY <1>2, <1>3, <1>4, <2>1, <2>2 DEF Life
<1>6. Rooted(Append(to, m), from, objs, (tree \ {x}) \cup {y}, created)
  <2>1. \A z \in tree : z.ref = x.ref => z = x
    BY DEF Rooted
  <2>2. \A z \in (tree \ {x}) \cup {y} :
          /\ ~ z.nested /\ z.ref.name \in Scope /\ z.ref \in objs
          /\ ~ Has(to, "delete", z.ref) /\ ~ Has(from, "create", z.ref)
          /\ ~ z.loaded => ~ Asked(to, from, z.ref) /\ z.ref # x.ref
    BY <1>4, <2>1 DEF Rooted
  <2>3. \A z, w \in (tree \ {x}) \cup {y} : z.ref = w.ref => z = w
    BY <2>1 DEF Rooted
  <2>4. Listed(created) \subseteq {z.ref : z \in (tree \ {x}) \cup {y}}
    BY DEF Rooted
  <2>5. \A z \in (tree \ {x}) \cup {y} : ~ Has(Append(to, m), "delete", z.ref)
    BY <1>1, <2>2
  <2>6. \A z \in (tree \ {x}) \cup {y} : ~ z.loaded => ~ Asked(Append(to, m), from, z.ref)
    BY <1>3, <2>2
  <2>7. Different(created)
    BY DEF Rooted
  <2> QED BY <2>2, <2>3, <2>4, <2>5, <2>6, <2>7 DEF Rooted
<1> QED BY <1>5, <1>6

(* The model reads that an object was created: a row that has not been     *)
(* asked for its children.                                                 *)
LEMMA RootedCreate ==
  ASSUME NEW to \in Seq(Messages), NEW from \in Seq(Messages), NEW objs, NEW n \in Nat,
         NEW tree, NEW created \in Seq(Refs), Rooted(to, from, objs, tree, created),
         from # <<>>, Head(from).kind = "create", Head(from).ref \in Refs,
         Life(to, from, objs, n)
  PROVE  Rooted(to, Tail(from), objs, tree \cup {Node(Head(from).ref, FALSE)},
                Append(created, Head(from).ref))
<1> DEFINE ref == Head(from).ref
           more == Append(created, ref)
<1>1. \A kind, other : Has(from, kind, other) <=>
        (Head(from).kind = kind /\ ref = other) \/ Has(Tail(from), kind, other)
  BY HasTail
<1>2. ~ Has(Tail(from), "create", ref)
  BY ApartTail DEF Life
<1>3. Has(from, "create", ref)
  BY <1>1
<1>4. Local(ref, n) /\ ref \in objs /\ ~ Has(to, "delete", ref) /\ ~ Asked(to, from, ref)
  BY <1>3 DEF Life
<1>5. ref \notin {x.ref : x \in tree} /\ ref \notin Listed(created)
  BY <1>3 DEF Rooted
<1>6. /\ DOMAIN more = DOMAIN created \cup {Len(created) + 1}
      /\ \A i \in DOMAIN created : i # Len(created) + 1 /\ more[i] = created[i]
      /\ more[Len(created) + 1] = ref
  OBVIOUS
<1>7. \A other : Asked(to, Tail(from), other) => Asked(to, from, other)
  BY <1>1 DEF Asked
<1>8. Node(ref, FALSE).ref = ref /\ ~ Node(ref, FALSE).nested
  BY DEF Node
<1>9. ref.name \in Scope
  BY <1>4 DEF Local
<1> HIDE DEF ref, more
<1> DEFINE node == Node(ref, FALSE)
<1> HIDE DEF node
<1>10. node.ref = ref /\ ~ node.nested
  BY <1>8 DEF node
<1>11. Listed(more) = Listed(created) \cup {ref}
  BY <1>6 DEF Listed
<1>12. Different(more)
  <2>1. Different(created)
    BY DEF Rooted
  <2> QED BY <1>5, <1>6, <2>1 DEF Different, Listed
<1>13. \A x \in tree \cup {node} :
         /\ ~ x.nested /\ x.ref.name \in Scope /\ x.ref \in objs
         /\ ~ Has(to, "delete", x.ref) /\ ~ Has(Tail(from), "create", x.ref)
         /\ ~ x.loaded => ~ Asked(to, Tail(from), x.ref)
  BY <1>1, <1>2, <1>4, <1>7, <1>9, <1>10 DEF Rooted
<1>14. \A x, y \in tree \cup {node} : x.ref = y.ref => x = y
  BY <1>5, <1>10 DEF Rooted
<1>15. Listed(more) \subseteq {x.ref : x \in tree \cup {node}}
  BY <1>10, <1>11 DEF Rooted
<1>16. Rooted(to, Tail(from), objs, tree \cup {node}, more)
  BY <1>12, <1>13, <1>14, <1>15 DEF Rooted
<1> QED BY <1>16 DEF ref, more, node

-----------------------------------------------------------------------------
(* The records on a pipe lead from the state the dock has noted for a rank *)
(* to the one its target is in.                                            *)
States == {"running", "stopped"}

Moves(a, m, b) ==
  /\ m.kind = "stopped" => a = "running" /\ b = "stopped"
  /\ m.kind = "running" => a = "stopped" /\ b = "running"
  /\ m.kind \notin States => b = a

Leads(a, q, b) ==
  \E h \in [0..Len(q) -> States] :
    /\ h[0] = a /\ h[Len(q)] = b
    /\ \A i \in 1..Len(q) : Moves(h[i - 1], q[i], h[i])

(* With no record on its way the dock is up to date. *)
LEMMA LeadsNowhere == Leads("running", <<>>, "running")
<1> DEFINE h == [i \in 0..0 |-> "running"]
<1>1. Len(<<>>) = 0 /\ h \in [0..0 -> States] /\ h[0] = "running" /\ \A i \in 1..0 : FALSE
  BY DEF States
<1> HIDE DEF h
<1> QED BY <1>1 DEF Leads

(* Handling the first record brings the dock one state further. *)
LEMMA LeadsTail ==
  ASSUME NEW a, NEW b, NEW q \in Seq(Messages), q # <<>>, Leads(a, q, b)
  PROVE  \E c \in States : a \in States /\ Moves(a, Head(q), c) /\ Leads(c, Tail(q), b)
<1>1. PICK h \in [0..Len(q) -> States] :
        /\ h[0] = a /\ h[Len(q)] = b
        /\ \A i \in 1..Len(q) : Moves(h[i - 1], q[i], h[i])
  BY DEF Leads
<1>2. /\ Len(q) \in Nat \ {0} /\ Len(Tail(q)) = Len(q) - 1 /\ Head(q) = q[1]
      /\ \A i \in 1..(Len(q) - 1) : Tail(q)[i] = q[i + 1]
  OBVIOUS
<1> DEFINE g == [i \in 0..(Len(q) - 1) |-> h[i + 1]]
<1>3. g \in [0..Len(Tail(q)) -> States] /\ g[0] = h[1] /\ g[Len(Tail(q))] = b
  BY <1>1, <1>2
<1>4. ASSUME NEW i \in 1..Len(Tail(q)) PROVE Moves(g[i - 1], Tail(q)[i], g[i])
  <2>1. i + 1 \in 1..Len(q) /\ i \in 0..(Len(q) - 1) /\ i - 1 \in 0..(Len(q) - 1) /\ (i + 1) - 1 = i
    BY <1>2
  <2>2. g[i - 1] = h[i] /\ g[i] = h[i + 1] /\ Tail(q)[i] = q[i + 1]
    BY <1>2, <2>1
  <2>3. Moves(h[(i + 1) - 1], q[i + 1], h[i + 1])
    BY <1>1, <2>1
  <2> HIDE DEF g
  <2> QED BY <2>1, <2>2, <2>3
<1> HIDE DEF g
<1>5. Leads(h[1], Tail(q), b)
  BY <1>3, <1>4 DEF Leads
<1>6. h[0] \in States /\ h[1] \in States /\ Moves(h[0], q[1], h[1])
  <2>1. 1 \in 1..Len(q) /\ 0 \in 0..Len(q) /\ 1 \in 0..Len(q) /\ 1 - 1 = 0
    BY <1>2
  <2>2. Moves(h[1 - 1], q[1], h[1])
    BY <1>1, <2>1
  <2> QED BY <1>1, <2>1, <2>2
<1> QED BY <1>1, <1>2, <1>5, <1>6

(* A record at the end leads one state further. *)
LEMMA LeadsAppend ==
  ASSUME NEW a, NEW b, NEW c \in States, NEW q \in Seq(Messages), NEW m \in Messages,
         Leads(a, q, b), Moves(b, m, c)
  PROVE  Leads(a, Append(q, m), c)
<1>1. PICK h \in [0..Len(q) -> States] :
        /\ h[0] = a /\ h[Len(q)] = b
        /\ \A i \in 1..Len(q) : Moves(h[i - 1], q[i], h[i])
  BY DEF Leads
<1> DEFINE p == Append(q, m)
<1>2. /\ Len(q) \in Nat /\ Len(p) = Len(q) + 1 /\ p[Len(q) + 1] = m
      /\ \A i \in 1..Len(q) : p[i] = q[i]
  OBVIOUS
<1> HIDE DEF p
<1> DEFINE g == [i \in 0..Len(p) |-> IF i = Len(p) THEN c ELSE h[i]]
<1>3. g \in [0..Len(p) -> States] /\ g[0] = a /\ g[Len(p)] = c
  BY <1>1, <1>2
<1>4. ASSUME NEW i \in 1..Len(p) PROVE Moves(g[i - 1], p[i], g[i])
  <2>1. CASE i = Len(p)
    <3>1. g[i] = c /\ g[i - 1] = b /\ p[i] = m
      BY <1>1, <1>2, <2>1
    <3> HIDE DEF g
    <3> QED BY <3>1
  <2>2. CASE i # Len(p)
    <3>1. i \in 1..Len(q) /\ g[i] = h[i] /\ g[i - 1] = h[i - 1] /\ p[i] = q[i]
      BY <1>2, <2>2
    <3>2. Moves(h[i - 1], q[i], h[i])
      BY <1>1, <3>1
    <3> HIDE DEF g
    <3> QED BY <3>1, <3>2
  <2> QED BY <2>1, <2>2
<1> HIDE DEF g
<1> QED BY <1>3, <1>4 DEF Leads, p

-----------------------------------------------------------------------------
(* The variables of the rank r that its target, stopped, had or will have: *)
(* a stop or a list of names that the model will answer with a new         *)
(* generation, a command that lets the target run, or one generation that  *)
(* for each variable has its row, its record, or its command to come.      *)
Coming(to, from, objs, tree, ref) ==
  \/ \E x \in tree : x.ref = ref /\ ~ x.nested
  \/ Has(from, "create", ref)
  \/ Has(to, "create", ref) /\ ref \notin objs

OnItsWay(r, to, from, objs, tree) ==
  \/ \E kind \in {"stopped", "list"} : \E ref : Has(from, kind, ref)
  \/ \E kind \in {"continue", "list"} : \E ref : Has(to, kind, ref)
  \/ \E gen \in Nat : \A name \in Scope : Coming(to, from, objs, tree, Ref(r, gen, name))

Still  == selected = m_currentRankId /\ pool = {} /\ toAdapter = <<>>
Noted  == \A r \in Ranks :
            Leads(m_lastRankStates[r], fromGdb[r], IF halted[r] THEN "stopped" ELSE "running")
Living == \A r \in Ranks : Life(toGdb[r], fromGdb[r], varobjs[r], m_updateCounter)
Shown  == Rooted(toGdb[m_currentRankId], fromGdb[m_currentRankId], varobjs[m_currentRankId],
                 nodes, m_createdVarobjs)
Filled == halted[selected] => OnItsWay(selected, toGdb[selected], fromGdb[selected],
                                       varobjs[selected], nodes)

(* A session with gdb: the model shows the rank selected, no message of an *)
(* adapter is about, the dock has noted where the records lead from, and   *)
(* the tree is backed by the objects of its gdb.                           *)
Backed == backend = "gdb" => Still /\ Noted /\ Living /\ Shown /\ Filled

(* A load deletes what the tree had on the rank it showed, and asks the    *)
(* rank it is to show for its variables.                                   *)
LEMMA LoadLiving ==
  ASSUME Shape, Living, Shown, NEW r \in Ranks, LoadFromGdb(r)
  PROVE  /\ \A q \in Ranks : /\ toGdb'[q] \in Seq(Messages)
                             /\ Life(toGdb'[q], fromGdb[q], varobjs[q], m_updateCounter)
         /\ \E ref : Has(toGdb'[r], "list", ref)
<1> DEFINE s == m_currentRankId
           deletions(q) == IF q = s THEN Each("delete", q, m_createdVarobjs) ELSE <<>>
           list(q) == IF q = r THEN <<Plain("list", r)>> ELSE <<>>
<1>1. /\ s \in Ranks /\ m_updateCounter \in Nat
      /\ \A q \in Ranks : toGdb[q] \in Seq(Messages) /\ fromGdb[q] \in Seq(Messages)
      /\ m_createdVarobjs \in Seq(RefsOf(s))
  <2>1. backend = "gdb"
    BY DEF LoadFromGdb
  <2> QED BY <2>1 DEF Shape
<1>2. toGdb' = [q \in Ranks |-> toGdb[q] \o deletions(q) \o list(q)]
  BY DEF LoadFromGdb, Each
<1>3. m_createdVarobjs \in Seq(Refs)
  BY <1>1 DEF RefsOf
<1>4. Each("delete", s, m_createdVarobjs) \in Seq(Messages)
  <2>1. \A i \in DOMAIN m_createdVarobjs : Msg("delete", s, m_createdVarobjs[i]) \in Messages
    BY <1>1, <1>3, MsgType DEF Bare
  <2>2. Len(m_createdVarobjs) \in Nat /\ DOMAIN m_createdVarobjs = 1..Len(m_createdVarobjs)
    BY <1>3
  <2> QED BY <2>1, <2>2 DEF Each
<1>5. Plain("list", r) \in Messages /\ Plain("list", r).kind = "list" /\ "list" \in Loose
  BY MsgType DEF Bare, Loose
<1>6. ASSUME NEW q \in Ranks
      PROVE  /\ toGdb[q] \o deletions(q) \in Seq(Messages)
             /\ Life(toGdb[q] \o deletions(q), fromGdb[q], varobjs[q], m_updateCounter)
  <2>1. Life(toGdb[q], fromGdb[q], varobjs[q], m_updateCounter)
    BY DEF Living
  <2>2. CASE q # s
    <3>1. toGdb[q] \o <<>> = toGdb[q]
      BY <1>1
    <3> QED BY <1>1, <2>1, <2>2, <3>1
  <2>3. CASE q = s
    <3>1. Rooted(toGdb[q], fromGdb[q], varobjs[q], nodes, m_createdVarobjs)
      BY <2>3 DEF Shown
    <3> DEFINE q0 == Each("delete", q, m_createdVarobjs)
    <3>2. q0 \in Seq(Messages) /\ deletions(q) = q0
      BY <1>4, <2>3
    <3>3. Life(toGdb[q] \o q0, fromGdb[q], varobjs[q], m_updateCounter)
      BY <1>1, <1>3, <2>1, <3>1, <3>2, LifeDeletes
    <3> HIDE DEF q0, deletions
    <3> QED BY <1>1, <3>2, <3>3
  <2> QED BY <2>2, <2>3
<1> HIDE DEF deletions
<1>7. ASSUME NEW q \in Ranks, q # r
      PROVE  /\ toGdb'[q] \in Seq(Messages)
             /\ Life(toGdb'[q], fromGdb[q], varobjs[q], m_updateCounter)
  <2>1. toGdb'[q] = toGdb[q] \o deletions(q) \o <<>>
    BY <1>2, <1>7
  <2>2. toGdb'[q] = toGdb[q] \o deletions(q)
    BY <1>6, <2>1
  <2> QED BY <1>6, <2>2
<1>8. /\ toGdb'[r] \in Seq(Messages)
      /\ Life(toGdb'[r], fromGdb[r], varobjs[r], m_updateCounter)
      /\ \E ref : Has(toGdb'[r], "list", ref)
  <2>1. toGdb'[r] = toGdb[r] \o deletions(r) \o <<Plain("list", r)>>
    BY <1>2
  <2>2. PICK p \in Seq(Messages) : p = toGdb[r] \o deletions(r)
    BY <1>6
  <2>3. PICK m \in Messages : m = Plain("list", r)
    BY <1>5
  <2>4. toGdb'[r] = Append(p, m) /\ Append(p, m) \in Seq(Messages)
    BY <2>1, <2>2, <2>3
  <2>5. Life(p, fromGdb[r], varobjs[r], m_updateCounter)
    BY <1>6, <2>2
  <2>6. Life(Append(p, m), fromGdb[r], varobjs[r], m_updateCounter)
    BY <1>1, <1>5, <2>3, <2>5, LifeAppend
  <2>7. Has(Append(p, m), "list", m.ref)
    BY <1>5, <2>3, PipeAppended
  <2> QED BY <2>4, <2>6, <2>7
<1> QED BY <1>7, <1>8

(* What a variable contains is not in the scope, and of its generation.    *)
LEMMA PartsApart ==
  ASSUME NEW ref, ref.name \in DOMAIN Fields, ref.name \in Scope
  PROVE  \A part \in Range(Parts(ref)) : part.name \notin Scope /\ part.gen = ref.gen
<1>1. ref.name # Locals
  BY TreeAssumption DEF Scope
<1>2. Range(Fields[ref.name]) \cap Scope = {}
  BY <1>1, TreeAssumption DEF Scope
<1>3. \A i \in DOMAIN Parts(ref) : /\ Parts(ref)[i].name = Fields[ref.name][i]
                                   /\ Parts(ref)[i].gen = ref.gen
                                   /\ i \in DOMAIN Fields[ref.name]
  BY DEF Parts, Ref
<1>4. \A i \in DOMAIN Fields[ref.name] : Fields[ref.name][i] \in Range(Fields[ref.name])
  BY DEF Range
<1>5. \A part \in Range(Parts(ref)) : \E i \in DOMAIN Parts(ref) : part = Parts(ref)[i]
  BY DEF Range
<1> QED BY <1>2, <1>3, <1>4, <1>5

(* What is on its way stays so when nothing is taken that counts.          *)
LEMMA WayKept ==
  ASSUME NEW r, NEW to, NEW from, NEW objs, NEW tree, NEW to1, NEW from1, NEW objs1, NEW tree1,
         \A kind \in {"stopped", "list"} : \A ref : Has(from, kind, ref) => Has(from1, kind, ref),
         \A kind \in {"continue", "list"} : \A ref : Has(to, kind, ref) => Has(to1, kind, ref),
         \A gen \in Nat, name \in Scope :
           Coming(to, from, objs, tree, Ref(r, gen, name))
             => Coming(to1, from1, objs1, tree1, Ref(r, gen, name)),
         OnItsWay(r, to, from, objs, tree)
  PROVE  OnItsWay(r, to1, from1, objs1, tree1)
BY DEF OnItsWay

(* A gdb reads a command: what this does to the life of its objects, to a  *)
(* tree that is backed by them, to what is on its way and to what the dock *)
(* is to note.                                                             *)
ReadWell(r) ==
  /\ Life(toGdb'[r], fromGdb'[r], varobjs'[r], m_updateCounter)
  /\ \A tree, created :
       Rooted(toGdb[r], fromGdb[r], varobjs[r], tree, created)
         => Rooted(toGdb'[r], fromGdb'[r], varobjs'[r], tree, created)
  /\ \A tree :
       /\ halted'[r]
       /\ OnItsWay(r, toGdb[r], fromGdb[r], varobjs[r], tree)
       => OnItsWay(r, toGdb'[r], fromGdb'[r], varobjs'[r], tree)
  /\ \A a : Leads(a, fromGdb[r], IF halted[r] THEN "stopped" ELSE "running")
              => Leads(a, fromGdb'[r], IF halted'[r] THEN "stopped" ELSE "running")
  /\ halted'[r] => halted[r]

(* Reading a command does all of this well. *)
LEMMA GdbReadsWell == ASSUME Shape, Living, NEW r \in Ranks, GdbReads(r) PROVE ReadWell(r)
<1> DEFINE n == m_updateCounter
<1>1. PICK to \in Seq(Messages) : to = toGdb[r]
  BY DEF Shape
<1>2. PICK from \in Seq(Messages) : from = fromGdb[r]
  BY DEF Shape
<1>3. PICK objs : objs = varobjs[r]
  OBVIOUS
<1>4. Life(to, from, objs, n) /\ n \in Nat
  BY <1>1, <1>2, <1>3 DEF Living, Shape
<1>5. to # <<>> /\ toGdb'[r] = Tail(to)
  BY <1>1 DEF GdbReads, Shape
<1>6. PICK cmd \in Messages : cmd = Head(to)
  BY <1>5
<1>7. GdbAnswers(r, cmd) \/ GdbDeletes(r, cmd) \/ GdbResumes(r, cmd) \/ GdbRefuses(r, cmd)
  BY <1>1, <1>6 DEF GdbReads
<1>8. /\ varobjs \in [Ranks -> SUBSET Refs] /\ halted \in [Ranks -> BOOLEAN]
      /\ fromGdb \in [Ranks -> Seq(Messages)]
  BY DEF Shape
<1>9. /\ \A kind, ref : Has(to, kind, ref) <=>
           (cmd.kind = kind /\ cmd.ref = ref) \/ Has(Tail(to), kind, ref)
  BY <1>5, <1>6, HasTail
<1>10. \A m \in Messages : \A kind, ref :
         Has(Append(from, m), kind, ref) <=> Has(from, kind, ref) \/ (m.kind = kind /\ m.ref = ref)
  BY PipeAppended
<1>11. ASSUME NEW b \in BOOLEAN, NEW m \in Messages, m.kind \notin States, NEW a,
              Leads(a, from, IF b THEN "stopped" ELSE "running")
       PROVE  Leads(a, Append(from, m), IF b THEN "stopped" ELSE "running")
  <2>1. Moves(IF b THEN "stopped" ELSE "running", m, IF b THEN "stopped" ELSE "running")
    BY <1>11 DEF Moves, States
  <2>2. (IF b THEN "stopped" ELSE "running") \in States
    BY DEF States
  <2> QED BY <1>11, <2>1, <2>2, LeadsAppend
<1> HIDE DEF n
<1>12. CASE GdbAnswers(r, cmd) /\ cmd.kind = "list"
  <2>1. /\ fromGdb'[r] = Append(from, cmd) /\ varobjs'[r] = objs /\ halted'[r] = halted[r]
        /\ halted[r] \in BOOLEAN
    BY <1>2, <1>3, <1>8, <1>12 DEF GdbAnswers
  <2>2. Life(Tail(to), from, objs, n) /\ Tail(to) \in Seq(Messages)
    BY <1>4, <1>5, LifeTail
  <2>3. Life(Tail(to), Append(from, cmd), objs, n)
    BY <1>4, <1>12, <2>2, LifeAppend DEF Loose
  <2>4. \A tree, created : Rooted(to, from, objs, tree, created)
                             => Rooted(Tail(to), Append(from, cmd), objs, tree, created)
    BY <1>4, <1>5, <1>12, <2>2, LifeTail, LifeAppend DEF Loose
  <2>5. \A tree : OnItsWay(r, Tail(to), Append(from, cmd), objs, tree)
    BY <1>10, <1>12 DEF OnItsWay
  <2>6. \A a : Leads(a, from, IF halted[r] THEN "stopped" ELSE "running")
                 => Leads(a, Append(from, cmd), IF halted[r] THEN "stopped" ELSE "running")
    BY <1>11, <1>12, <2>1 DEF States
  <2> QED BY <1>1, <1>2, <1>3, <1>5, <2>1, <2>3, <2>4, <2>5, <2>6 DEF ReadWell, n
<1>13. CASE GdbAnswers(r, cmd) /\ cmd.kind = "create"
  <2>1. /\ fromGdb'[r] = Append(from, cmd) /\ varobjs'[r] = objs \cup {cmd.ref}
        /\ halted'[r] = halted[r] /\ cmd.ref \notin objs /\ halted[r] \in BOOLEAN
    BY <1>2, <1>3, <1>8, <1>13 DEF GdbAnswers
  <2>2. /\ Life(Tail(to), Append(from, cmd), objs \cup {cmd.ref}, n)
        /\ \A tree, created : Rooted(to, from, objs, tree, created) =>
             Rooted(Tail(to), Append(from, cmd), objs \cup {cmd.ref}, tree, created)
    BY <1>4, <1>5, <1>6, <1>13, <2>1, LifeCreate
  <2>3. ASSUME NEW tree, OnItsWay(r, to, from, objs, tree)
        PROVE  OnItsWay(r, Tail(to), Append(from, cmd), objs \cup {cmd.ref}, tree)
    <3>1. \A kind \in {"stopped", "list"} : \A ref :
            Has(from, kind, ref) => Has(Append(from, cmd), kind, ref)
      BY <1>10
    <3>2. \A kind \in {"continue", "list"} : \A ref : Has(to, kind, ref) => Has(Tail(to), kind, ref)
      BY <1>9, <1>13
    <3>3. \A ref : Coming(to, from, objs, tree, ref) =>
            Coming(Tail(to), Append(from, cmd), objs \cup {cmd.ref}, tree, ref)
      BY <1>9, <1>10, <1>13 DEF Coming
    <3> QED BY <2>3, <3>1, <3>2, <3>3, WayKept
  <2>4. \A a : Leads(a, from, IF halted[r] THEN "stopped" ELSE "running")
                 => Leads(a, Append(from, cmd), IF halted[r] THEN "stopped" ELSE "running")
    BY <1>11, <1>13, <2>1 DEF States
  <2> DEFINE now == objs \cup {cmd.ref}
  <2> HIDE DEF now
  <2>5. /\ toGdb'[r] = Tail(to) /\ fromGdb'[r] = Append(from, cmd) /\ varobjs'[r] = now
        /\ halted'[r] = halted[r]
    BY <1>5, <2>1 DEF now
  <2>6. /\ Life(Tail(to), Append(from, cmd), now, n)
        /\ \A tree, created : Rooted(to, from, objs, tree, created) =>
             Rooted(Tail(to), Append(from, cmd), now, tree, created)
        /\ \A tree : OnItsWay(r, to, from, objs, tree)
                       => OnItsWay(r, Tail(to), Append(from, cmd), now, tree)
    BY <2>2, <2>3 DEF now
  <2> QED BY <1>1, <1>2, <1>3, <2>4, <2>5, <2>6 DEF ReadWell, n
<1>14. CASE GdbAnswers(r, cmd) /\ cmd.kind = "children"
  <2> DEFINE more == Range(Parts(cmd.ref))
  <2>1. /\ fromGdb'[r] = Append(from, cmd) /\ varobjs'[r] = objs \cup more
        /\ halted'[r] = halted[r] /\ halted[r] \in BOOLEAN
    BY <1>2, <1>3, <1>8, <1>14 DEF GdbAnswers
  <2>2. cmd.ref.name \in DOMAIN Fields
    BY <1>14 DEF Messages, Containers, Bare
  <2>3. Local(cmd.ref, n)
    BY <1>4, <1>9, <1>14 DEF Life, Asked
  <2>4. \A part \in more : part.name \notin Scope /\ part.gen \in 0..n
    BY <2>2, <2>3, PartsApart DEF Local
  <2> HIDE DEF more
  <2>5. /\ Life(Tail(to), Append(from, cmd), objs \cup more, n)
        /\ \A tree, created : Rooted(to, from, objs, tree, created) =>
             Rooted(Tail(to), Append(from, cmd), objs \cup more, tree, created)
    BY <1>4, <1>5, <1>6, <1>14, <2>4, LifeChildren
  <2>6. ASSUME NEW tree, OnItsWay(r, to, from, objs, tree)
        PROVE  OnItsWay(r, Tail(to), Append(from, cmd), objs \cup more, tree)
    <3>1. \A kind \in {"stopped", "list"} : \A ref :
            Has(from, kind, ref) => Has(Append(from, cmd), kind, ref)
      BY <1>10
    <3>2. \A kind \in {"continue", "list"} : \A ref : Has(to, kind, ref) => Has(Tail(to), kind, ref)
      BY <1>9, <1>14
    <3>3. \A ref : ref.name \in Scope /\ Coming(to, from, objs, tree, ref) =>
            Coming(Tail(to), Append(from, cmd), objs \cup more, tree, ref)
      BY <1>9, <1>10, <1>14, <2>4 DEF Coming
    <3>4. \A gen, name : Ref(r, gen, name).name = name
      BY DEF Ref
    <3> QED BY <2>6, <3>1, <3>2, <3>3, <3>4, WayKept
  <2>7. \A a : Leads(a, from, IF halted[r] THEN "stopped" ELSE "running")
                 => Leads(a, Append(from, cmd), IF halted[r] THEN "stopped" ELSE "running")
    BY <1>11, <1>14, <2>1 DEF States
  <2> QED BY <1>1, <1>2, <1>3, <1>5, <2>1, <2>5, <2>6, <2>7 DEF ReadWell, n
<1>15. CASE GdbDeletes(r, cmd)
  <2> DEFINE less == IF Expandable(cmd) THEN Range(Parts(cmd.ref)) ELSE {}
             left == objs \ ({cmd.ref} \cup less)
  <2>1. /\ fromGdb'[r] = from /\ varobjs'[r] = left /\ halted'[r] = halted[r]
        /\ cmd.kind = "delete"
    BY <1>2, <1>3, <1>8, <1>15 DEF GdbDeletes
  <2>2. Local(cmd.ref, n)
    BY <1>4, <1>9, <2>1 DEF Life
  <2>3. \A ref \in less : ref.name \notin Scope
    BY <2>2, PartsApart DEF Local, Expandable
  <2> HIDE DEF less
  <2>4. /\ Life(Tail(to), from, left, n)
        /\ \A tree, created : Rooted(to, from, objs, tree, created) =>
             Rooted(Tail(to), from, left, tree, created)
    BY <1>4, <1>5, <1>6, <2>1, <2>3, LifeDelete
  <2>5. ASSUME NEW tree, OnItsWay(r, to, from, objs, tree)
        PROVE  OnItsWay(r, Tail(to), from, left, tree)
    <3>1. \A kind \in {"continue", "list"} : \A ref : Has(to, kind, ref) => Has(Tail(to), kind, ref)
      BY <1>9, <2>1
    <3>2. \A ref : Coming(to, from, objs, tree, ref) => Coming(Tail(to), from, left, tree, ref)
      BY <1>9, <2>1 DEF Coming
    <3> HIDE DEF left
    <3> QED BY <2>5, <3>1, <3>2, WayKept
  <2> HIDE DEF left
  <2> QED BY <1>1, <1>2, <1>3, <1>5, <2>1, <2>4, <2>5 DEF ReadWell, n
<1>16. CASE GdbResumes(r, cmd)
  <2>1. PICK m \in Messages : m = Plain("running", r)
    BY MsgType DEF Bare
  <2>2. m.kind = "running"
    BY <2>1, MsgType DEF Bare
  <2>3. /\ fromGdb'[r] = Append(from, m) /\ varobjs'[r] = objs /\ halted[r] /\ ~ halted'[r]
    BY <1>2, <1>3, <1>8, <1>16, <2>1 DEF GdbResumes
  <2>4. Life(Tail(to), from, objs, n) /\ Tail(to) \in Seq(Messages)
    BY <1>4, <1>5, LifeTail
  <2>5. Life(Tail(to), Append(from, m), objs, n)
    BY <1>4, <2>2, <2>4, LifeAppend DEF Loose
  <2>6. \A tree, created : Rooted(to, from, objs, tree, created)
                             => Rooted(Tail(to), Append(from, m), objs, tree, created)
    BY <1>4, <1>5, <2>2, <2>4, LifeTail, LifeAppend DEF Loose
  <2>7. \A a : Leads(a, from, "stopped") => Leads(a, Append(from, m), "running")
    <3>1. Moves("stopped", m, "running") /\ "running" \in States
      BY <2>2 DEF Moves, States
    <3> QED BY <3>1, LeadsAppend
  <2>8. \A a : Leads(a, from, IF halted[r] THEN "stopped" ELSE "running")
                 => Leads(a, Append(from, m), IF halted'[r] THEN "stopped" ELSE "running")
    BY <2>3, <2>7
  <2> QED BY <1>1, <1>2, <1>3, <1>5, <2>3, <2>5, <2>6, <2>8 DEF ReadWell, n
<1>17. CASE GdbRefuses(r, cmd)
  <2>1. fromGdb'[r] = from /\ varobjs'[r] = objs /\ halted'[r] = halted[r]
    BY <1>2, <1>3, <1>17 DEF GdbRefuses
  <2>2. /\ Life(Tail(to), from, objs, n)
        /\ \A tree, created : Rooted(to, from, objs, tree, created) =>
             Rooted(Tail(to), from, objs, tree, created)
    BY <1>4, <1>5, LifeTail
  <2>3. ASSUME NEW tree, OnItsWay(r, to, from, objs, tree), halted[r]
        PROVE  OnItsWay(r, Tail(to), from, objs, tree)
    <3>1. \/ cmd.kind = "create" /\ cmd.ref \in objs
          \/ cmd.kind = "children"
      BY <1>3, <1>17, <2>3 DEF GdbRefuses
    <3>2. \A kind \in {"continue", "list"} : \A ref : Has(to, kind, ref) => Has(Tail(to), kind, ref)
      BY <1>9, <3>1
    <3>3. \A ref : Coming(to, from, objs, tree, ref) => Coming(Tail(to), from, objs, tree, ref)
      BY <1>9, <3>1 DEF Coming
    <3> QED BY <2>3, <3>2, <3>3, WayKept
  <2> QED BY <1>1, <1>2, <1>3, <1>5, <2>1, <2>2, <2>3 DEF ReadWell, n
<1> QED BY <1>7, <1>12, <1>13, <1>14, <1>15, <1>16, <1>17 DEF GdbAnswers

(* What is small about life: later generations, and an empty tree. *)
LEMMA LifeLater ==
  ASSUME NEW to, NEW from, NEW objs, NEW n \in Nat, Life(to, from, objs, n)
  PROVE  Life(to, from, objs, n + 1)
<1>1. \A gen : gen \in 0..n => gen \in 0..(n + 1)
  OBVIOUS
<1>2. \A ref : Local(ref, n) => Local(ref, n + 1)
  BY <1>1 DEF Local
<1> QED BY <1>1, <1>2 DEF Life

(* An empty tree is backed by any objects. *)
LEMMA RootedEmpty == \A to, from, objs : Rooted(to, from, objs, {}, <<>>)
<1>1. Listed(<<>>) = {} /\ Different(<<>>)
  BY DEF Listed, Different
<1> QED BY <1>1 DEF Rooted

(* Selecting a rank. *)
LEMMA SelectRankBacked ==
  ASSUME Shape, Backed, backend = "gdb", NEW r \in Ranks, SelectRank(r)
  PROVE  Backed'
<1>1. LoadFromGdb(r) /\ selected' = r
  BY DEF SelectRank, LoadFromDap
<1>2. /\ UNCHANGED <<backend, m_updateCounter, m_lastRankStates, pool, fromGdb, varobjs,
                     halted, toAdapter>>
      /\ m_currentRankId' = r /\ nodes' = {} /\ m_createdVarobjs' = <<>>
  BY <1>1 DEF SelectRank, LoadFromGdb, Clear, targetVars
<1>3. Still /\ Noted /\ Living /\ Shown
  BY DEF Backed
<1>4. /\ \A q \in Ranks : Life(toGdb'[q], fromGdb[q], varobjs[q], m_updateCounter)
      /\ \E ref : Has(toGdb'[r], "list", ref)
  BY <1>1, <1>3, LoadLiving
<1>5. Still' /\ Noted'
  BY <1>1, <1>2, <1>3 DEF Still, Noted
<1>6. Living'
  BY <1>2, <1>4 DEF Living
<1>7. Shown'
  BY <1>2, RootedEmpty DEF Shown
<1>8. Filled'
  BY <1>1, <1>4 DEF Filled, OnItsWay
<1> QED BY <1>5, <1>6, <1>7, <1>8 DEF Backed

(* Expanding a row. *)
LEMMA FetchMoreBacked ==
  ASSUME Shape, Backed, backend = "gdb", NEW node \in nodes, FetchMore(node)
  PROVE  Backed'
<1> DEFINE s == m_currentRankId
           loaded == [node EXCEPT !.loaded = TRUE]
<1>1. /\ toGdb' = [toGdb EXCEPT ![s] = Append(@, Msg("children", s, node.ref))]
      /\ nodes' = (nodes \ {node}) \cup {loaded}
      /\ ~ node.loaded /\ Expandable(node)
      /\ UNCHANGED <<backend, m_currentRankId, m_createdVarobjs, m_updateCounter, selected,
                     m_lastRankStates, pool, fromGdb, varobjs, halted, toAdapter>>
  BY DEF FetchMore, dockVars, targetVars
<1>2. Still /\ Noted /\ Living /\ Shown /\ Filled
  BY DEF Backed
<1>3. /\ s \in Ranks /\ m_updateCounter \in Nat /\ node \in NodesOf(s)
      /\ \A q \in Ranks : toGdb[q] \in Seq(Messages) /\ fromGdb[q] \in Seq(Messages)
      /\ toGdb \in [Ranks -> Seq(Messages)]
  BY DEF Shape
<1>4. loaded.ref = node.ref /\ loaded.nested = node.nested /\ loaded.loaded = TRUE
  BY <1>3 DEF NodesOf
<1>5. node.ref \in Containers
  BY <1>1, <1>3 DEF NodesOf, Refs, Containers, Expandable
<1> HIDE DEF loaded
<1>6. PICK to \in Seq(Messages) : to = toGdb[s]
  BY <1>3
<1>7. PICK m \in Messages : m = Msg("children", s, node.ref)
  BY <1>3, <1>5, MsgType DEF Filling
<1>8. m.kind = "children" /\ m.ref = node.ref
  BY <1>7, MsgType
<1>9. Rooted(to, fromGdb[s], varobjs[s], nodes, m_createdVarobjs)
  BY <1>2, <1>6 DEF Shown
<1>10. Life(to, fromGdb[s], varobjs[s], m_updateCounter)
  BY <1>2, <1>3, <1>6 DEF Living
<1>11. ~ node.nested
  BY <1>9 DEF Rooted
<1>12. /\ Life(Append(to, m), fromGdb[s], varobjs[s], m_updateCounter)
       /\ Rooted(Append(to, m), fromGdb[s], varobjs[s], nodes', m_createdVarobjs)
  BY <1>1, <1>3, <1>4, <1>8, <1>9, <1>10, <1>11, LifeAsks
<1>13. /\ toGdb'[s] = Append(to, m)
       /\ \A q \in Ranks : q # s => toGdb'[q] = toGdb[q]
  BY <1>1, <1>3, <1>6, <1>7
<1>14. Still' /\ Noted'
  BY <1>1, <1>2 DEF Still, Noted
<1>15. Living'
  <2> SUFFICES ASSUME NEW q \in Ranks
               PROVE  Life(toGdb'[q], fromGdb[q], varobjs[q], m_updateCounter)
    BY <1>1 DEF Living
  <2> QED BY <1>2, <1>12, <1>13 DEF Living
<1>16. Shown'
  BY <1>1, <1>12, <1>13 DEF Shown
<1>17. Filled'
  <2> SUFFICES ASSUME halted[s]
               PROVE  OnItsWay(s, Append(to, m), fromGdb[s], varobjs[s], nodes')
    BY <1>1, <1>2, <1>13 DEF Filled, Still
  <2>1. OnItsWay(s, to, fromGdb[s], varobjs[s], nodes)
    BY <1>2, <1>6 DEF Filled, Still
  <2>2. \A kind, ref : Has(to, kind, ref) => Has(Append(to, m), kind, ref)
    BY PipeAppended
  <2>3. \A ref : Coming(to, fromGdb[s], varobjs[s], nodes, ref)
                   => Coming(Append(to, m), fromGdb[s], varobjs[s], nodes', ref)
    <3>1. \A x \in nodes : \E y \in nodes' : y.ref = x.ref /\ y.nested = x.nested
      BY <1>1, <1>4
    <3> QED BY <2>2, <3>1 DEF Coming
  <2> QED BY <2>1, <2>2, <2>3, WayKept
<1> QED BY <1>14, <1>15, <1>16, <1>17 DEF Backed

(* A step or continue. *)
LEMMA ResumeBacked ==
  ASSUME Shape, Backed, backend = "gdb", NEW r \in Ranks, Resume(r)
  PROVE  Backed'
<1> DEFINE s == m_currentRankId
<1>1. /\ toGdb' = [toGdb EXCEPT ![r] = Append(@, Plain("continue", r))]
      /\ UNCHANGED <<backend, m_currentRankId, nodes, m_createdVarobjs, m_updateCounter,
                     selected, m_lastRankStates, pool, fromGdb, varobjs, halted, toAdapter>>
  BY DEF Resume, modelVars, treeVars, dockVars, targetVars
<1>2. Still /\ Noted /\ Living /\ Shown /\ Filled
  BY DEF Backed
<1>3. /\ s \in Ranks /\ m_updateCounter \in Nat
      /\ \A q \in Ranks : toGdb[q] \in Seq(Messages) /\ fromGdb[q] \in Seq(Messages)
      /\ toGdb \in [Ranks -> Seq(Messages)]
  BY DEF Shape
<1>4. PICK m \in Messages : m = Plain("continue", r) /\ m.kind \in Loose
  BY MsgType DEF Bare, Loose
<1>5. /\ toGdb'[r] = Append(toGdb[r], m)
      /\ \A q \in Ranks : q # r => toGdb'[q] = toGdb[q]
  BY <1>1, <1>3, <1>4
<1>6. ASSUME NEW q \in Ranks
      PROVE  /\ Life(toGdb'[q], fromGdb[q], varobjs[q], m_updateCounter)
             /\ \A tree, created : Rooted(toGdb[q], fromGdb[q], varobjs[q], tree, created)
                  => Rooted(toGdb'[q], fromGdb[q], varobjs[q], tree, created)
             /\ \A kind, ref : Has(toGdb[q], kind, ref) => Has(toGdb'[q], kind, ref)
  <2>1. Life(toGdb[q], fromGdb[q], varobjs[q], m_updateCounter)
    BY <1>2 DEF Living
  <2>2. CASE q # r
    BY <1>5, <2>1, <2>2
  <2>3. CASE q = r
    <3>1. \A kind, ref : Has(toGdb[q], kind, ref) => Has(Append(toGdb[q], m), kind, ref)
      BY <1>3, PipeAppended
    <3>2. /\ Life(Append(toGdb[q], m), fromGdb[q], varobjs[q], m_updateCounter)
          /\ \A tree, created : Rooted(toGdb[q], fromGdb[q], varobjs[q], tree, created)
               => Rooted(Append(toGdb[q], m), fromGdb[q], varobjs[q], tree, created)
      BY <1>3, <1>4, <2>1, LifeAppend
    <3> QED BY <1>5, <2>3, <3>1, <3>2
  <2> QED BY <2>2, <2>3
<1>7. Still' /\ Noted'
  BY <1>1, <1>2 DEF Still, Noted
<1>8. Living'
  BY <1>1, <1>6 DEF Living
<1>9. Shown'
  BY <1>1, <1>2, <1>3, <1>6 DEF Shown
<1>10. Filled'
  <2> SUFFICES ASSUME halted[s]
               PROVE  OnItsWay(s, toGdb'[s], fromGdb[s], varobjs[s], nodes)
    BY <1>1, <1>2 DEF Filled, Still
  <2>1. OnItsWay(s, toGdb[s], fromGdb[s], varobjs[s], nodes)
    BY <1>2 DEF Filled, Still
  <2>2. \A kind, ref : Has(toGdb[s], kind, ref) => Has(toGdb'[s], kind, ref)
    BY <1>3, <1>6
  <2>3. \A ref : Coming(toGdb[s], fromGdb[s], varobjs[s], nodes, ref)
                   => Coming(toGdb'[s], fromGdb[s], varobjs[s], nodes, ref)
    BY <2>2 DEF Coming
  <2> QED BY <2>1, <2>2, <2>3, WayKept
<1> QED BY <1>7, <1>8, <1>9, <1>10 DEF Backed

(* A target stops. *)
LEMMA TargetStopsBacked ==
  ASSUME Shape, Backed, backend = "gdb", NEW r \in Ranks, TargetStops(r)
  PROVE  Backed'
<1> DEFINE s == m_currentRankId
<1>1. /\ fromGdb' = [fromGdb EXCEPT ![r] = Append(@, Plain("stopped", r))]
      /\ halted' = [halted EXCEPT ![r] = TRUE] /\ ~ halted[r]
      /\ UNCHANGED <<backend, m_currentRankId, nodes, m_createdVarobjs, m_updateCounter,
                     selected, m_lastRankStates, pool, toGdb, varobjs, toAdapter>>
  BY DEF TargetStops, modelVars, treeVars, dockVars
<1>2. Still /\ Noted /\ Living /\ Shown /\ Filled
  BY DEF Backed
<1>3. /\ s \in Ranks /\ m_updateCounter \in Nat
      /\ \A q \in Ranks : toGdb[q] \in Seq(Messages) /\ fromGdb[q] \in Seq(Messages)
      /\ fromGdb \in [Ranks -> Seq(Messages)] /\ halted \in [Ranks -> BOOLEAN]
  BY DEF Shape
<1>4. PICK m \in Messages : m = Plain("stopped", r) /\ m.kind = "stopped"
  BY MsgType DEF Bare
<1>5. /\ fromGdb'[r] = Append(fromGdb[r], m) /\ halted'[r]
      /\ \A q \in Ranks : q # r => fromGdb'[q] = fromGdb[q] /\ halted'[q] = halted[q]
  BY <1>1, <1>3, <1>4
<1>6. ASSUME NEW q \in Ranks
      PROVE  /\ Life(toGdb[q], fromGdb'[q], varobjs[q], m_updateCounter)
             /\ \A tree, created : Rooted(toGdb[q], fromGdb[q], varobjs[q], tree, created)
                  => Rooted(toGdb[q], fromGdb'[q], varobjs[q], tree, created)
  <2>1. Life(toGdb[q], fromGdb[q], varobjs[q], m_updateCounter)
    BY <1>2 DEF Living
  <2>2. CASE q # r
    BY <1>5, <2>1, <2>2
  <2>3. CASE q = r
    <3>1. /\ Life(toGdb[q], Append(fromGdb[q], m), varobjs[q], m_updateCounter)
          /\ \A tree, created : Rooted(toGdb[q], fromGdb[q], varobjs[q], tree, created)
               => Rooted(toGdb[q], Append(fromGdb[q], m), varobjs[q], tree, created)
      BY <1>3, <1>4, <2>1, LifeAppend DEF Loose
    <3> QED BY <1>5, <2>3, <3>1
  <2> QED BY <2>2, <2>3
<1>7. Still'
  BY <1>1, <1>2 DEF Still
<1>8. Noted'
  <2> SUFFICES ASSUME NEW q \in Ranks
               PROVE  Leads(m_lastRankStates[q], fromGdb'[q],
                            IF halted'[q] THEN "stopped" ELSE "running")
    BY <1>1 DEF Noted
  <2>1. Leads(m_lastRankStates[q], fromGdb[q], IF halted[q] THEN "stopped" ELSE "running")
    BY <1>2 DEF Noted
  <2>2. CASE q # r
    BY <1>5, <2>1, <2>2
  <2>3. CASE q = r
    <3>1. Moves("running", m, "stopped") /\ "stopped" \in States
      BY <1>4 DEF Moves, States
    <3>2. Leads(m_lastRankStates[q], fromGdb[q], "running")
      BY <1>1, <2>1, <2>3
    <3>3. Leads(m_lastRankStates[q], Append(fromGdb[q], m), "stopped")
      BY <1>3, <3>1, <3>2, LeadsAppend
    <3> QED BY <1>5, <2>3, <3>3
  <2> QED BY <2>2, <2>3
<1>9. Living'
  BY <1>1, <1>6 DEF Living
<1>10. Shown'
  BY <1>1, <1>2, <1>3, <1>6 DEF Shown
<1>11. Filled'
  <2> SUFFICES ASSUME halted'[s]
               PROVE  OnItsWay(s, toGdb[s], fromGdb'[s], varobjs[s], nodes)
    BY <1>1, <1>2 DEF Filled, Still
  <2>1. CASE s = r
    <3>1. Has(Append(fromGdb[r], m), "stopped", m.ref)
      BY <1>3, <1>4, PipeAppended
    <3>2. Has(fromGdb'[s], "stopped", m.ref)
      BY <1>5, <2>1, <3>1
    <3> QED BY <3>2 DEF OnItsWay
  <2>2. CASE s # r
    <3>1. OnItsWay(s, toGdb[s], fromGdb[s], varobjs[s], nodes)
      BY <1>2, <1>3, <1>5, <2>2 DEF Filled, Still
    <3> QED BY <1>3, <1>5, <2>2, <3>1
  <2> QED BY <2>1, <2>2
<1> QED BY <1>7, <1>8, <1>9, <1>10, <1>11 DEF Backed

(* A gdb reads a command. *)
LEMMA GdbReadsBacked ==
  ASSUME Shape, Backed, backend = "gdb", NEW r \in Ranks, GdbReads(r)
  PROVE  Backed'
<1> DEFINE s == m_currentRankId
<1>1. UNCHANGED <<backend, m_currentRankId, nodes, m_createdVarobjs, m_updateCounter,
                  selected, m_lastRankStates, pool, toAdapter>>
  BY DEF GdbReads, modelVars, treeVars, dockVars, dapVars
<1>2. Still /\ Noted /\ Living /\ Shown /\ Filled
  BY DEF Backed
<1>3. ReadWell(r)
  BY <1>2, GdbReadsWell
<1>4. /\ toGdb \in [Ranks -> Seq(Messages)] /\ fromGdb \in [Ranks -> Seq(Messages)]
      /\ varobjs \in [Ranks -> SUBSET Refs] /\ halted \in [Ranks -> BOOLEAN]
      /\ s \in Ranks
  BY DEF Shape
<1>5. \A q \in Ranks : q # r => /\ toGdb'[q] = toGdb[q] /\ fromGdb'[q] = fromGdb[q]
                                /\ varobjs'[q] = varobjs[q] /\ halted'[q] = halted[q]
  BY <1>4 DEF GdbReads, GdbAnswers, GdbDeletes, GdbResumes, GdbRefuses
<1>6. Still'
  BY <1>1, <1>2 DEF Still
<1>7. Noted'
  <2> SUFFICES ASSUME NEW q \in Ranks
               PROVE  Leads(m_lastRankStates[q], fromGdb'[q],
                            IF halted'[q] THEN "stopped" ELSE "running")
    BY <1>1 DEF Noted
  <2>1. Leads(m_lastRankStates[q], fromGdb[q], IF halted[q] THEN "stopped" ELSE "running")
    BY <1>2 DEF Noted
  <2> QED BY <1>3, <1>5, <2>1 DEF ReadWell
<1>8. Living'
  <2> SUFFICES ASSUME NEW q \in Ranks
               PROVE  Life(toGdb'[q], fromGdb'[q], varobjs'[q], m_updateCounter)
    BY <1>1 DEF Living
  <2>1. Life(toGdb[q], fromGdb[q], varobjs[q], m_updateCounter)
    BY <1>2 DEF Living
  <2> QED BY <1>3, <1>5, <2>1 DEF ReadWell
<1>9. Rooted(toGdb'[s], fromGdb'[s], varobjs'[s], nodes, m_createdVarobjs)
  <2>1. Rooted(toGdb[s], fromGdb[s], varobjs[s], nodes, m_createdVarobjs)
    BY <1>2 DEF Shown
  <2> QED BY <1>3, <1>4, <1>5, <2>1 DEF ReadWell
<1>10. Shown'
  BY <1>1, <1>9 DEF Shown
<1>11. ASSUME halted'[s]
       PROVE  OnItsWay(s, toGdb'[s], fromGdb'[s], varobjs'[s], nodes)
  <2>1. halted[s] => OnItsWay(s, toGdb[s], fromGdb[s], varobjs[s], nodes)
    BY <1>2 DEF Filled, Still
  <2> QED BY <1>3, <1>4, <1>5, <1>11, <2>1 DEF ReadWell
<1>12. Filled'
  BY <1>1, <1>2, <1>11 DEF Filled, Still
<1> QED BY <1>6, <1>7, <1>8, <1>10, <1>12 DEF Backed

(* A record that changes neither the tree nor the pipe to the gdb leaves   *)
(* the objects and the tree as they were.                                  *)
LEMMA RecordTaken ==
  ASSUME Shape, Living, NEW r \in Ranks, fromGdb[r] # <<>>
  PROVE  /\ Life(toGdb[r], Tail(fromGdb[r]), varobjs[r], m_updateCounter)
         /\ \A tree, created : Rooted(toGdb[r], fromGdb[r], varobjs[r], tree, created)
              => Rooted(toGdb[r], Tail(fromGdb[r]), varobjs[r], tree, created)
<1>1. /\ toGdb[r] \in Seq(Messages) /\ fromGdb[r] \in Seq(Messages) /\ m_updateCounter \in Nat
  BY DEF Shape
<1>2. Life(toGdb[r], fromGdb[r], varobjs[r], m_updateCounter)
  BY DEF Living
<1> QED BY <1>1, <1>2, LifeTail

(* The names of a new generation.                                          *)
LEMMA NewGeneration ==
  ASSUME NEW r \in Ranks, NEW gen \in Nat
  PROVE  /\ Parts(Ref(r, gen, Locals)) \in Seq(Refs)
         /\ \A ref \in Listed(Parts(Ref(r, gen, Locals))) : ref.name \in Scope /\ ref.gen = gen
         /\ \A name \in Scope : Ref(r, gen, name) \in Listed(Parts(Ref(r, gen, Locals)))
         /\ Each("create", r, Parts(Ref(r, gen, Locals))) \in Seq(Messages)
<1> DEFINE parts == Parts(Ref(r, gen, Locals))
<1>1. Ref(r, gen, Locals) \in Containers
  BY NamesType DEF Ref, Containers
<1>2. parts \in Seq(Refs)
  BY <1>1, PartsType
<1>3. /\ DOMAIN parts = DOMAIN Fields[Locals]
      /\ \A i \in DOMAIN parts : parts[i] = Ref(r, gen, Fields[Locals][i])
  BY DEF Parts, Ref
<1>4. /\ \A i \in DOMAIN Fields[Locals] : Fields[Locals][i] \in Scope
      /\ \A name \in Scope : \E i \in DOMAIN Fields[Locals] : Fields[Locals][i] = name
  BY DEF Scope, Range
<1> HIDE DEF parts
<1>5. \A ref \in Listed(parts) : ref.name \in Scope /\ ref.gen = gen
  <2>1. \A name : Ref(r, gen, name).name = name /\ Ref(r, gen, name).gen = gen
    BY DEF Ref
  <2>2. \A i \in DOMAIN parts : parts[i].name \in Scope /\ parts[i].gen = gen
    BY <1>3, <1>4, <2>1
  <2> QED BY <2>2 DEF Listed
<1>6. \A name \in Scope : Ref(r, gen, name) \in Listed(parts)
  BY <1>3, <1>4 DEF Listed
<1>7. Each("create", r, parts) \in Seq(Messages)
  <2>1. Len(parts) \in Nat /\ DOMAIN parts = 1..Len(parts) /\ \A i \in DOMAIN parts : parts[i] \in Refs
    BY <1>2
  <2>2. \A i \in DOMAIN parts : Msg("create", r, parts[i]) \in Messages
    BY <2>1, MsgType DEF Bare
  <2> QED BY <2>1, <2>2 DEF Each
<1> QED BY <1>2, <1>5, <1>6, <1>7 DEF parts

(* What a record that tells of variables does to the pipes and the tree.   *)
LEMMA OutputBacked ==
  ASSUME Shape, Living, Shown, backend = "gdb", NEW r \in Ranks, fromGdb[r] # <<>>,
         HandleOutput(r, Head(fromGdb[r]))
  PROVE  /\ \A q \in Ranks :
              Life(toGdb'[q], IF q = r THEN Tail(fromGdb[q]) ELSE fromGdb[q], varobjs[q],
                   m_updateCounter')
         /\ Rooted(toGdb'[m_currentRankId],
                   IF m_currentRankId = r THEN Tail(fromGdb[r]) ELSE fromGdb[m_currentRankId],
                   varobjs[m_currentRankId], nodes', m_createdVarobjs')
         /\ OnItsWay(m_currentRankId, toGdb[m_currentRankId], fromGdb[m_currentRankId],
                     varobjs[m_currentRankId], nodes)
            => OnItsWay(m_currentRankId, toGdb'[m_currentRankId],
                   IF m_currentRankId = r THEN Tail(fromGdb[r]) ELSE fromGdb[m_currentRankId],
                   varobjs[m_currentRankId], nodes')
<1> DEFINE s == m_currentRankId
           n == m_updateCounter
<1>1. /\ s \in Ranks /\ n \in Nat
      /\ \A q \in Ranks : toGdb[q] \in Seq(Messages) /\ fromGdb[q] \in Seq(Messages)
      /\ toGdb \in [Ranks -> Seq(Messages)]
      /\ m_createdVarobjs \in Seq(Refs)
  BY DEF Shape, RefsOf
<1>2. PICK to \in Seq(Messages) : to = toGdb[r]
  BY <1>1
<1>3. PICK from \in Seq(Messages) : from = fromGdb[r] /\ from # <<>>
  BY <1>1
<1>4. PICK objs : objs = varobjs[r]
  OBVIOUS
<1>5. PICK rec \in Messages : rec = Head(from)
  BY <1>3
<1>6. Life(to, from, objs, n) /\ Life(to, Tail(from), objs, n)
  BY <1>1, <1>2, <1>3, <1>4, RecordTaken DEF Living
<1>7. \A kind, ref : Has(from, kind, ref) <=>
        (rec.kind = kind /\ rec.ref = ref) \/ Has(Tail(from), kind, ref)
  BY <1>3, <1>5, HasTail
<1>8. Tail(from) \in Seq(Messages)
  BY <1>3
<1>9. s = r => Rooted(to, from, objs, nodes, m_createdVarobjs)
  BY <1>2, <1>3, <1>4 DEF Shown
<1>10. s = r => Rooted(to, Tail(from), objs, nodes, m_createdVarobjs)
  BY <1>1, <1>2, <1>3, <1>4, <1>9, RecordTaken
<1> DEFINE Done(to1, n1) ==
      /\ Life(to1, Tail(from), objs, n1)
      /\ Rooted(to1, Tail(from), objs, nodes', m_createdVarobjs')
      /\ OnItsWay(r, to, from, objs, nodes) => OnItsWay(r, to1, Tail(from), objs, nodes')
<1>11. CASE s # r
  <2>1. UNCHANGED <<nodes, m_createdVarobjs, m_updateCounter, toGdb>>
    BY <1>11 DEF HandleOutput
  <2>2. \A q \in Ranks : Life(toGdb[q], fromGdb[q], varobjs[q], n)
    BY DEF Living
  <2> QED BY <1>2, <1>3, <1>4, <1>6, <1>11, <2>1, <2>2 DEF Shown
<1>12. ASSUME s = r, NEW to1, toGdb'[r] = to1, Done(to1, m_updateCounter'),
              m_updateCounter' \in {n, n + 1},
              \A q \in Ranks \ {r} : toGdb'[q] = toGdb[q]
       PROVE  /\ \A q \in Ranks :
                   Life(toGdb'[q], IF q = r THEN Tail(fromGdb[q]) ELSE fromGdb[q], varobjs[q],
                        m_updateCounter')
              /\ Rooted(toGdb'[s], IF s = r THEN Tail(fromGdb[r]) ELSE fromGdb[s],
                        varobjs[s], nodes', m_createdVarobjs')
              /\ OnItsWay(s, toGdb[s], fromGdb[s], varobjs[s], nodes)
                 => OnItsWay(s, toGdb'[s], IF s = r THEN Tail(fromGdb[r]) ELSE fromGdb[s],
                             varobjs[s], nodes')
  <2>1. \A q \in Ranks \ {r} : Life(toGdb'[q], fromGdb[q], varobjs[q], m_updateCounter')
    <3>1. \A q \in Ranks : Life(toGdb[q], fromGdb[q], varobjs[q], n)
      BY DEF Living
    <3>2. \A q \in Ranks : Life(toGdb[q], fromGdb[q], varobjs[q], n + 1)
      BY <1>1, <3>1, LifeLater
    <3> QED BY <1>12, <3>1, <3>2
  <2> QED BY <1>2, <1>3, <1>4, <1>12, <2>1
<1> HIDE DEF Done
<1>13. CASE r = s /\ rec.kind = "list" /\ ParseListVariables(r)
  <2> DEFINE refs == Parts(Ref(r, n + 1, Locals))
             to1 == to \o Each("create", r, refs)
  <2>1. /\ refs \in Seq(Refs) /\ Each("create", r, refs) \in Seq(Messages)
        /\ \A ref \in Listed(refs) : ref.name \in Scope /\ ref.gen = n + 1
        /\ \A name \in Scope : Ref(r, n + 1, name) \in Listed(refs)
    <3>1. n + 1 \in Nat
      BY <1>1
    <3> QED BY <3>1, NewGeneration
  <2>2. /\ m_updateCounter' = n + 1 /\ nodes' = nodes /\ m_createdVarobjs' = m_createdVarobjs
        /\ toGdb' = [toGdb EXCEPT ![r] = @ \o Each("create", r, refs)]
    BY <1>13 DEF ParseListVariables, Each
  <2> HIDE DEF refs
  <2>3. toGdb'[r] = to1 /\ \A q \in Ranks \ {r} : toGdb'[q] = toGdb[q]
    BY <1>1, <1>2, <2>2
  <2>4. Life(to1, Tail(from), objs, n + 1)
    BY <1>1, <1>6, <1>8, <2>1, LifeCreates
  <2>5. Rooted(to1, Tail(from), objs, nodes, m_createdVarobjs)
    BY <1>1, <1>6, <1>8, <1>10, <1>13, <2>1, LifeCreates
  <2>6. \A ref : Has(to1, "create", ref) <=> Has(to, "create", ref) \/ ref \in Listed(refs)
    <3>1. \A ref : Has(Each("create", r, refs), "create", ref) <=> ref \in Listed(refs)
      BY <2>1, EachHas
    <3> QED BY <2>1, <3>1, HasConcat
  <2>7. \A ref \in Listed(refs) : ref \notin objs
    <3>1. \A ref \in objs : ref.gen \in 0..n
      BY <1>6 DEF Life
    <3>2. n + 1 \notin 0..n
      BY <1>1
    <3> QED BY <2>1, <3>1, <3>2
  <2> HIDE DEF to1
  <2>8. OnItsWay(r, to1, Tail(from), objs, nodes)
    <3>1. \A name \in Scope : Coming(to1, Tail(from), objs, nodes, Ref(r, n + 1, name))
      BY <2>1, <2>6, <2>7 DEF Coming
    <3>2. n + 1 \in Nat
      BY <1>1
    <3> QED BY <3>1, <3>2 DEF OnItsWay
  <2>9. Done(to1, m_updateCounter')
    BY <2>2, <2>4, <2>5, <2>8 DEF Done
  <2> QED BY <1>12, <1>13, <2>2, <2>3, <2>9
<1>14. CASE r = s /\ rec.kind = "create" /\ ParseVarCreate(rec.ref)
  <2>1. /\ UNCHANGED <<m_updateCounter, toGdb>>
        /\ nodes' = nodes \cup {Node(rec.ref, FALSE)}
        /\ m_createdVarobjs' = Append(m_createdVarobjs, rec.ref)
    BY <1>14 DEF ParseVarCreate
  <2>2. rec.ref \in Refs
    BY ContainersType DEF Messages
  <2>3. Rooted(to, Tail(from), objs, nodes', m_createdVarobjs')
    BY <1>1, <1>3, <1>5, <1>6, <1>9, <1>14, <2>1, <2>2, RootedCreate
  <2>4. ASSUME OnItsWay(r, to, from, objs, nodes)
        PROVE  OnItsWay(r, to, Tail(from), objs, nodes')
    <3>1. Node(rec.ref, FALSE).ref = rec.ref /\ ~ Node(rec.ref, FALSE).nested
      BY DEF Node
    <3>2. \A kind \in {"stopped", "list"} : \A ref : Has(from, kind, ref) => Has(Tail(from), kind, ref)
      BY <1>7, <1>14
    <3>3. \A ref : Coming(to, from, objs, nodes, ref) => Coming(to, Tail(from), objs, nodes', ref)
      BY <1>7, <1>14, <2>1, <3>1 DEF Coming
    <3> QED BY <2>4, <3>2, <3>3, WayKept
  <2>5. Done(to, m_updateCounter')
    BY <1>6, <2>1, <2>3, <2>4 DEF Done
  <2> QED BY <1>2, <1>12, <1>14, <2>1, <2>5
<1>15. CASE r = s /\ rec.kind = "children" /\ ParseVarListChildren(rec.ref)
  <2>1. UNCHANGED <<m_updateCounter, toGdb>>
    BY <1>15 DEF ParseVarListChildren
  <2>2. Asked(to, from, rec.ref)
    BY <1>7, <1>15 DEF Asked
  <2>3. {x \in nodes : x.ref = rec.ref /\ ~ x.loaded} = {}
    BY <1>9, <1>15, <2>2 DEF Rooted
  <2>4. UNCHANGED <<nodes, m_createdVarobjs>>
    BY <1>15, <2>3 DEF ParseVarListChildren
  <2>5. ASSUME OnItsWay(r, to, from, objs, nodes)
        PROVE  OnItsWay(r, to, Tail(from), objs, nodes)
    <3>1. \A kind \in {"stopped", "list"} : \A ref : Has(from, kind, ref) => Has(Tail(from), kind, ref)
      BY <1>7, <1>15
    <3>2. \A ref : Coming(to, from, objs, nodes, ref) => Coming(to, Tail(from), objs, nodes, ref)
      BY <1>7, <1>15 DEF Coming
    <3> QED BY <2>5, <3>1, <3>2, WayKept
  <2>6. Done(to, m_updateCounter')
    BY <1>6, <1>10, <1>15, <2>1, <2>4, <2>5 DEF Done
  <2> QED BY <1>2, <1>12, <1>15, <2>1, <2>6
<1>16. \/ s # r
       \/ r = s /\ rec.kind = "list" /\ ParseListVariables(r)
       \/ r = s /\ rec.kind = "create" /\ ParseVarCreate(rec.ref)
       \/ r = s /\ rec.kind = "children" /\ ParseVarListChildren(rec.ref)
  BY <1>3, <1>5 DEF HandleOutput
<1> QED BY <1>11, <1>13, <1>14, <1>15, <1>16

(* A record is handled: an answer about variables, or a change of state. *)
LEMMA HandleRecordBacked ==
  ASSUME Shape, Backed, backend = "gdb", NEW r \in Ranks, HandleRecord(r)
  PROVE  Backed'
<1> DEFINE s == m_currentRankId
           rec == Head(fromGdb[r])
<1>1. /\ fromGdb' = [fromGdb EXCEPT ![r] = Tail(@)] /\ fromGdb[r] # <<>>
      /\ UNCHANGED <<backend, selected, pool, varobjs, halted>>
  BY DEF HandleRecord, targetVars
<1>2. Still /\ Noted /\ Living /\ Shown /\ Filled
  BY DEF Backed
<1>3. /\ s \in Ranks /\ m_updateCounter \in Nat
      /\ \A q \in Ranks : toGdb[q] \in Seq(Messages) /\ fromGdb[q] \in Seq(Messages)
      /\ fromGdb \in [Ranks -> Seq(Messages)]
      /\ m_lastRankStates \in [Ranks -> {"running", "stopped"}]
  BY DEF Shape
<1>4. /\ fromGdb'[r] = Tail(fromGdb[r])
      /\ \A q \in Ranks : q # r => fromGdb'[q] = fromGdb[q]
  BY <1>1, <1>3
<1>5. rec \in Messages
  BY <1>1, <1>3
<1>6. \/ /\ HandleOutput(r, rec)
         /\ UNCHANGED <<m_currentRankId, m_lastRankStates, toAdapter>>
      \/ rec.kind \in {"running", "stopped"} /\ RankStateChanged(r, rec.kind)
  BY DEF HandleRecord
<1> HIDE DEF rec
<1>7. PICK c \in States : /\ m_lastRankStates[r] \in States
                          /\ Moves(m_lastRankStates[r], rec, c)
                          /\ Leads(c, fromGdb'[r], IF halted[r] THEN "stopped" ELSE "running")
  <2>1. Leads(m_lastRankStates[r], fromGdb[r], IF halted[r] THEN "stopped" ELSE "running")
    BY <1>2 DEF Noted
  <2> QED BY <1>1, <1>3, <1>4, <2>1, LeadsTail DEF rec
<1>8. ASSUME m_lastRankStates'[r] = c,
             \A q \in Ranks : q # r => m_lastRankStates'[q] = m_lastRankStates[q]
      PROVE  Noted'
  <2> SUFFICES ASSUME NEW q \in Ranks
               PROVE  Leads(m_lastRankStates'[q], fromGdb'[q],
                            IF halted[q] THEN "stopped" ELSE "running")
    BY <1>1 DEF Noted
  <2>1. Leads(m_lastRankStates[q], fromGdb[q], IF halted[q] THEN "stopped" ELSE "running")
    BY <1>2 DEF Noted
  <2> QED BY <1>4, <1>7, <1>8, <2>1
<1>9. CASE /\ HandleOutput(r, rec)
           /\ UNCHANGED <<m_currentRankId, m_lastRankStates, toAdapter>>
  <2>1. /\ \A q \in Ranks : Life(toGdb'[q], fromGdb'[q], varobjs[q], m_updateCounter')
        /\ Rooted(toGdb'[s], fromGdb'[s], varobjs[s], nodes', m_createdVarobjs')
        /\ OnItsWay(s, toGdb[s], fromGdb[s], varobjs[s], nodes)
             => OnItsWay(s, toGdb'[s], fromGdb'[s], varobjs[s], nodes')
    <3>1. \A q \in Ranks : fromGdb'[q] = IF q = r THEN Tail(fromGdb[q]) ELSE fromGdb[q]
      BY <1>4
    <3>2. fromGdb'[s] = IF s = r THEN Tail(fromGdb[r]) ELSE fromGdb[s]
      BY <1>3, <3>1
    <3>3. HandleOutput(r, Head(fromGdb[r]))
      BY <1>9 DEF rec
    <3>4. /\ \A q \in Ranks :
              Life(toGdb'[q], IF q = r THEN Tail(fromGdb[q]) ELSE fromGdb[q], varobjs[q],
                   m_updateCounter')
          /\ Rooted(toGdb'[s], IF s = r THEN Tail(fromGdb[r]) ELSE fromGdb[s],
                    varobjs[s], nodes', m_createdVarobjs')
          /\ OnItsWay(s, toGdb[s], fromGdb[s], varobjs[s], nodes)
             => OnItsWay(s, toGdb'[s], IF s = r THEN Tail(fromGdb[r]) ELSE fromGdb[s],
                         varobjs[s], nodes')
      BY <1>1, <1>2, <3>3, OutputBacked
    <3> QED BY <3>1, <3>2, <3>4
  <2>2. rec.kind \notin States
    BY <1>9 DEF HandleOutput, States
  <2>3. c = m_lastRankStates[r]
    BY <1>7, <2>2 DEF Moves
  <2>4. Noted'
    BY <1>8, <1>9, <2>3
  <2>5. Still'
    BY <1>1, <1>2, <1>9 DEF Still
  <2>6. Living'
    BY <1>1, <2>1 DEF Living
  <2>7. Shown'
    BY <1>1, <1>9, <2>1 DEF Shown
  <2>8. Filled'
    BY <1>1, <1>2, <1>9, <2>1 DEF Filled, Still
  <2> QED BY <2>4, <2>5, <2>6, <2>7, <2>8 DEF Backed
<1>10. CASE rec.kind \in {"running", "stopped"} /\ RankStateChanged(r, rec.kind)
  <2>1. c = rec.kind /\ (rec.kind = "stopped" => m_lastRankStates[r] # "stopped")
    BY <1>7, <1>10 DEF Moves
  <2>2. /\ m_lastRankStates' = [m_lastRankStates EXCEPT ![r] = rec.kind]
        /\ UNCHANGED m_updateCounter
    BY <1>10 DEF RankStateChanged
  <2>3. Noted'
    BY <1>3, <1>8, <2>1, <2>2
  <2>4. CASE rec.kind = "stopped" /\ r = selected
    <3>1. LoadFromGdb(r)
      BY <1>10, <2>1, <2>4 DEF RankStateChanged
    <3>2. /\ \A q \in Ranks : /\ toGdb'[q] \in Seq(Messages)
                              /\ Life(toGdb'[q], fromGdb[q], varobjs[q], m_updateCounter)
          /\ \E ref : Has(toGdb'[r], "list", ref)
      BY <1>2, <3>1, LoadLiving
    <3>3. /\ m_currentRankId' = r /\ nodes' = {} /\ m_createdVarobjs' = <<>>
          /\ UNCHANGED toAdapter
      BY <3>1 DEF LoadFromGdb, Clear
    <3>4. ASSUME NEW q \in Ranks
          PROVE  Life(toGdb'[q], fromGdb'[q], varobjs[q], m_updateCounter)
      <4>1. CASE q # r
        BY <1>4, <3>2, <4>1
      <4>2. CASE q = r
        <5>1. PICK to \in Seq(Messages) : to = toGdb'[r]
          BY <3>2
        <5>2. Life(to, fromGdb[r], varobjs[r], m_updateCounter)
          BY <3>2, <5>1
        <5>3. Life(to, Tail(fromGdb[r]), varobjs[r], m_updateCounter)
          BY <1>1, <1>3, <5>2, LifeTail
        <5> QED BY <1>4, <4>2, <5>1, <5>3
      <4> QED BY <4>1, <4>2
    <3>5. Still'
      BY <1>1, <1>2, <2>4, <3>3 DEF Still
    <3>6. Living'
      BY <1>1, <2>2, <3>4 DEF Living
    <3>7. Shown'
      BY <3>3, RootedEmpty DEF Shown
    <3>8. Filled'
      BY <1>1, <2>4, <3>2 DEF Filled, OnItsWay
    <3> QED BY <2>3, <3>5, <3>6, <3>7, <3>8 DEF Backed
  <2>5. CASE ~ (rec.kind = "stopped" /\ r = selected)
    <3>1. UNCHANGED <<m_currentRankId, nodes, m_createdVarobjs, toGdb, toAdapter>>
      BY <1>10, <2>5 DEF RankStateChanged, treeVars
    <3>2. /\ Life(toGdb[r], fromGdb'[r], varobjs[r], m_updateCounter)
          /\ \A tree, created : Rooted(toGdb[r], fromGdb[r], varobjs[r], tree, created)
               => Rooted(toGdb[r], fromGdb'[r], varobjs[r], tree, created)
      BY <1>1, <1>2, <1>4, RecordTaken
    <3>3. \A q \in Ranks : Life(toGdb[q], fromGdb'[q], varobjs[q], m_updateCounter)
      BY <1>2, <1>4, <3>2 DEF Living
    <3>4. Rooted(toGdb[s], fromGdb'[s], varobjs[s], nodes, m_createdVarobjs)
      <4>1. Rooted(toGdb[s], fromGdb[s], varobjs[s], nodes, m_createdVarobjs)
        BY <1>2 DEF Shown
      <4> QED BY <1>3, <1>4, <3>2, <4>1
    <3>5. ASSUME halted[s]
          PROVE  OnItsWay(s, toGdb[s], fromGdb'[s], varobjs[s], nodes)
      <4>1. OnItsWay(s, toGdb[s], fromGdb[s], varobjs[s], nodes)
        BY <1>2, <3>5 DEF Filled, Still
      <4>2. CASE s # r
        BY <1>3, <1>4, <4>1, <4>2
      <4>3. CASE s = r
        <5>1. rec.kind = "running"
          BY <1>2, <1>10, <2>5, <4>3 DEF Still
        <5>2. \A kind, ref : Has(fromGdb[r], kind, ref) <=>
                (rec.kind = kind /\ rec.ref = ref) \/ Has(Tail(fromGdb[r]), kind, ref)
          BY <1>1, <1>3, HasTail DEF rec
        <5>3. \A kind \in {"stopped", "list", "create"} : \A ref :
                Has(fromGdb[s], kind, ref) => Has(fromGdb'[s], kind, ref)
          BY <1>4, <4>3, <5>1, <5>2
        <5>4. \A ref : Coming(toGdb[s], fromGdb[s], varobjs[s], nodes, ref)
                         => Coming(toGdb[s], fromGdb'[s], varobjs[s], nodes, ref)
          BY <5>3 DEF Coming
        <5> QED BY <4>1, <5>3, <5>4, WayKept
      <4> QED BY <4>2, <4>3
    <3>6. Still'
      BY <1>1, <1>2, <3>1 DEF Still
    <3>7. Living'
      BY <1>1, <2>2, <3>1, <3>3 DEF Living
    <3>8. Shown'
      BY <1>1, <3>1, <3>4 DEF Shown
    <3>9. Filled'
      BY <1>1, <1>2, <3>1, <3>5 DEF Filled, Still
    <3> QED BY <2>3, <3>6, <3>7, <3>8, <3>9 DEF Backed
  <2> QED BY <2>4, <2>5
<1> QED BY <1>6, <1>9, <1>10

-----------------------------------------------------------------------------
(* Initially there are no objects and nothing has stopped. *)
LEMMA InitBacked == Init => Backed
<1> SUFFICES ASSUME Init, backend = "gdb" PROVE Backed
  BY DEF Backed
<1>1. /\ m_currentRankId = 0 /\ selected = 0 /\ pool = {} /\ toAdapter = <<>>
      /\ nodes = {} /\ m_createdVarobjs = <<>> /\ m_updateCounter = 0 /\ 0 \in Ranks
      /\ \A r \in Ranks : /\ m_lastRankStates[r] = "running" /\ ~ halted[r]
                          /\ toGdb[r] = <<>> /\ fromGdb[r] = <<>> /\ varobjs[r] = {}
  BY TreeAssumption DEF Init
<1>2. \A kind, ref : ~ Has(<<>>, kind, ref)
  BY DEF Has
<1>3. \A first, then : Apart(<<>>, first, then)
  BY DEF Apart
<1>4. Life(<<>>, <<>>, {}, 0)
  BY <1>2, <1>3 DEF Life, Asked
<1>5. Still /\ Living /\ Shown /\ Filled
  BY <1>1, <1>4, RootedEmpty DEF Still, Living, Shown, Filled
<1>6. Noted
  BY <1>1, LeadsNowhere DEF Noted
<1> QED BY <1>5, <1>6 DEF Backed

(* Every step keeps the tree backed. *)
LEMMA NextBacked == Shape /\ Backed /\ [Next]_vars => Backed'
<1> SUFFICES ASSUME Shape, Backed, [Next]_vars PROVE Backed'
  OBVIOUS
<1>1. UNCHANGED backend
  <2>1. ASSUME NEW r \in Ranks, SelectRank(r) \/ Resume(r) PROVE UNCHANGED backend
    BY <2>1 DEF SelectRank, Resume
  <2>2. ASSUME NEW x \in nodes, FetchMore(x) PROVE UNCHANGED backend
    BY <2>2 DEF FetchMore
  <2>3. ASSUME NEW r \in Ranks, TargetStops(r) PROVE UNCHANGED backend
    BY <2>3 DEF TargetStops
  <2>4. CASE AdapterReads
    BY <2>4 DEF AdapterReads
  <2>5. ASSUME NEW m \in pool, HandleMessage(m) PROVE UNCHANGED backend
    BY <2>5 DEF HandleMessage
  <2>6. ASSUME NEW r \in Ranks, GdbReads(r) \/ HandleRecord(r) PROVE UNCHANGED backend
    BY <2>6 DEF GdbReads, HandleRecord
  <2>7. CASE UNCHANGED vars
    BY <2>7 DEF vars
  <2> QED BY <2>1, <2>2, <2>3, <2>4, <2>5, <2>6, <2>7 DEF Next
<1> SUFFICES ASSUME backend = "gdb" PROVE Backed'
  BY <1>1 DEF Backed
<1>2. ASSUME NEW r \in Ranks, SelectRank(r) \/ Resume(r) PROVE Backed'
  BY <1>2, SelectRankBacked, ResumeBacked
<1>3. ASSUME NEW node \in nodes, FetchMore(node) PROVE Backed'
  BY <1>3, FetchMoreBacked
<1>4. ASSUME NEW r \in Ranks, TargetStops(r) PROVE Backed'
  BY <1>4, TargetStopsBacked
<1>5. ~ AdapterReads /\ pool = {}
  BY DEF Backed, Still, AdapterReads
<1>6. ASSUME NEW r \in Ranks, GdbReads(r) \/ HandleRecord(r) PROVE Backed'
  BY <1>6, GdbReadsBacked, HandleRecordBacked
<1>7. CASE UNCHANGED vars
  BY <1>7 DEF vars, modelVars, treeVars, dockVars, dapVars, gdbVars, targetVars, Backed,
              Still, Noted, Living, Shown, Filled
<1> QED BY <1>2, <1>3, <1>4, <1>5, <1>6, <1>7 DEF Next

(* So it is in every reachable state. *)
LEMMA BackedHolds == Spec => []Backed
<1>1. (Shape /\ Backed) /\ [Next]_vars => (Shape /\ Backed)'
  BY NextShape, NextBacked
<1>2. Init => Shape /\ Backed
  BY InitShape, InitBacked
<1> QED BY <1>1, <1>2, PTL DEF Spec

(* Every row of a gdb session can be expanded: its variable object exists  *)
(* and nothing on its way deletes it, whichever ranks the user selects and *)
(* whatever answers of earlier generations arrive.                         *)
THEOREM RowsAliveHolds == Spec => []RowsAlive
<1>1. Shape /\ Backed => RowsAlive
  <2> SUFFICES ASSUME Shape, Backed, backend = "gdb", NEW x \in nodes
               PROVE  /\ x.ref \in varobjs[m_currentRankId]
                      /\ \A i \in DOMAIN toGdb[m_currentRankId] :
                           toGdb[m_currentRankId][i] # Msg("delete", m_currentRankId, x.ref)
    BY DEF RowsAlive
  <2>1. /\ x.ref \in varobjs[m_currentRankId]
        /\ ~ Has(toGdb[m_currentRankId], "delete", x.ref)
    BY DEF Backed, Shown, Rooted
  <2> QED BY <2>1 DEF Has, Msg
<1> QED BY ShapeHolds, BackedHolds, <1>1, PTL

(* Once a gdb session has nothing left to read, the tree of a stopped rank *)
(* lacks no local variable: whatever was selected, resumed or stopped in   *)
(* between, the last stop is followed by a load whose answers are taken.   *)
THEOREM LocalsCompleteHolds == Spec => []LocalsComplete
<1>1. Shape /\ Backed => LocalsComplete
  <2> SUFFICES ASSUME Shape, Backed, Quiet, backend = "gdb", halted[selected]
               PROVE  Scope \subseteq {x.ref.name : x \in {y \in nodes : ~ y.nested}}
    BY DEF LocalsComplete, Scope
  <2>1. OnItsWay(selected, <<>>, <<>>, varobjs[selected], nodes)
    BY DEF Backed, Filled, Quiet, Shape
  <2>2. \A kind, ref : ~ Has(<<>>, kind, ref)
    BY DEF Has
  <2>3. PICK gen \in Nat : \A name \in Scope :
          Coming(<<>>, <<>>, varobjs[selected], nodes, Ref(selected, gen, name))
    BY <2>1, <2>2 DEF OnItsWay
  <2>4. \A name \in Scope : \E x \in nodes : x.ref = Ref(selected, gen, name) /\ ~ x.nested
    BY <2>2, <2>3 DEF Coming
  <2>5. \A name : Ref(selected, gen, name).name = name
    BY DEF Ref
  <2> QED BY <2>4, <2>5
<1> QED BY ShapeHolds, BackedHolds, <1>1, PTL
=============================================================================
