-------------------------- MODULE StopQueries_proofs --------------------------
(***************************************************************************)
(* That the answers a rank's gdb gives at a stop end up where they belong: *)
(* no variable object is forgotten, the grid shows values of this stop and *)
(* the alert is about this stop, for any watches, stops, sessions and      *)
(* commands of the user, in any order of questions and answers.            *)
(*                                                                         *)
(* The records printed and not handled yet lead from what the coordinator  *)
(* knows of the rank to what is true of it (Leads): each one moves the     *)
(* status, the stop, the value of the variables and the number of objects  *)
(* on.  What gdb says was true when it said it, and the invariant relates  *)
(* what the coordinator keeps to where on that way it stands.              *)
(***************************************************************************)
EXTENDS StopQueries, WellFoundedInduction, TLAPS

-----------------------------------------------------------------------------
(* Numbers and sequences.                                                  *)

(* A set of numbers has a least element. *)
LEMMA SmallestNumber ==
  ASSUME NEW T, T \subseteq Nat, T # {}
  PROVE  \E x \in T : \A y \in T : x <= y
<1> DEFINE Less == {ss \in Nat \X Nat : ss[1] < ss[2]}
<1>1. IsWellFoundedOn(Less, Nat)
  BY NatLessThanWellFounded, SMT DEF OpToRel
<1>2. PICK x \in T : \A y \in T : ~ (<<y, x>> \in Less)
  BY <1>1, WFMin
<1>3. ASSUME NEW y \in T PROVE x <= y
  <2>1. x \in Nat /\ y \in Nat /\ <<y, x>> \notin Less
    BY <1>2
  <2>2. ~ (y < x)
    BY <2>1
  <2> QED BY <2>1, <2>2
<1> QED BY <1>3

Elements(q) == {q[i] : i \in DOMAIN q}

LEMMA ElementsAppend ==
  ASSUME NEW S, NEW q \in Seq(S), NEW e \in S
  PROVE  Append(q, e) \in Seq(S) /\ Elements(Append(q, e)) = Elements(q) \cup {e}
<1>1. /\ DOMAIN q = 1..Len(q) /\ Len(q) \in Nat
      /\ DOMAIN Append(q, e) = 1..(Len(q) + 1)
      /\ \A i \in 1..Len(q) : Append(q, e)[i] = q[i]
      /\ Append(q, e)[Len(q) + 1] = e
  OBVIOUS
<1>2. 1..(Len(q) + 1) = 1..Len(q) \cup {Len(q) + 1}
  BY <1>1
<1> QED BY <1>1, <1>2 DEF Elements

LEMMA ElementsConcat ==
  ASSUME NEW S, NEW q \in Seq(S), NEW p \in Seq(S)
  PROVE  q \o p \in Seq(S) /\ Elements(q \o p) = Elements(q) \cup Elements(p)
<1>1. /\ DOMAIN q = 1..Len(q) /\ Len(q) \in Nat /\ DOMAIN p = 1..Len(p) /\ Len(p) \in Nat
      /\ DOMAIN (q \o p) = 1..(Len(q) + Len(p))
      /\ \A i \in 1..(Len(q) + Len(p)) :
           (q \o p)[i] = IF i <= Len(q) THEN q[i] ELSE p[i - Len(q)]
  OBVIOUS
<1>2. \A i \in DOMAIN q : i \in DOMAIN (q \o p) /\ (q \o p)[i] = q[i]
  BY <1>1
<1>3. \A i \in DOMAIN p : i + Len(q) \in DOMAIN (q \o p) /\ (q \o p)[i + Len(q)] = p[i]
  BY <1>1
<1>4. \A i \in DOMAIN (q \o p) : (q \o p)[i] \in Elements(q) \cup Elements(p)
  BY <1>1 DEF Elements
<1>5. q \o p \in Seq(S)
  OBVIOUS
<1>6. Elements(q) \cup Elements(p) \subseteq Elements(q \o p)
  BY <1>2, <1>3 DEF Elements
<1>7. Elements(q \o p) \subseteq Elements(q) \cup Elements(p)
  BY <1>4 DEF Elements
<1> QED BY <1>5, <1>6, <1>7

LEMMA ElementsTail ==
  ASSUME NEW S, NEW q \in Seq(S), q # <<>>
  PROVE  /\ Head(q) \in S /\ Tail(q) \in Seq(S)
         /\ Elements(q) = {Head(q)} \cup Elements(Tail(q))
<1>1. /\ DOMAIN q = 1..Len(q) /\ Len(q) \in Nat \ {0} /\ Head(q) = q[1]
      /\ DOMAIN Tail(q) = 1..(Len(q) - 1)
      /\ \A i \in 1..(Len(q) - 1) : Tail(q)[i] = q[i + 1]
  OBVIOUS
<1>2. \A i \in DOMAIN q : i = 1 \/ (i - 1 \in DOMAIN Tail(q) /\ Tail(q)[i - 1] = q[i])
  BY <1>1
<1>3. \A i \in DOMAIN Tail(q) : i + 1 \in DOMAIN q
  BY <1>1
<1>4. Head(q) \in S /\ Tail(q) \in Seq(S)
  OBVIOUS
<1>5. 1 \in DOMAIN q
  BY <1>1
<1>6. Elements(q) \subseteq {Head(q)} \cup Elements(Tail(q))
  BY <1>1, <1>2 DEF Elements
<1>7. {Head(q)} \cup Elements(Tail(q)) \subseteq Elements(q)
  BY <1>1, <1>3, <1>5 DEF Elements
<1> QED BY <1>4, <1>6, <1>7

LEMMA ElementsFew ==
  /\ Elements(<<>>) = {}
  /\ \A S : <<>> \in Seq(S)
  /\ \A S : \A e \in S : <<e>> \in Seq(S) /\ Elements(<<e>>) = {e}
  /\ \A S : \A e, f \in S : <<e, f>> \in Seq(S) /\ Elements(<<e, f>>) = {e, f}
<1>1. Elements(<<>>) = {}
  BY DEF Elements
<1>2. ASSUME NEW S PROVE <<>> \in Seq(S)
  OBVIOUS
<1>3. ASSUME NEW S, NEW e \in S PROVE <<e>> \in Seq(S) /\ Elements(<<e>>) = {e}
  <2>1. DOMAIN <<e>> = {1} /\ <<e>>[1] = e
    OBVIOUS
  <2> QED BY <2>1 DEF Elements
<1>4. ASSUME NEW S, NEW e \in S, NEW f \in S
      PROVE  <<e, f>> \in Seq(S) /\ Elements(<<e, f>>) = {e, f}
  <2>1. DOMAIN <<e, f>> = {1, 2} /\ <<e, f>>[1] = e /\ <<e, f>>[2] = f
    OBVIOUS
  <2> QED BY <2>1 DEF Elements
<1> QED BY <1>1, <1>2, <1>3, <1>4

-----------------------------------------------------------------------------
(* Commands and records.                                                   *)

Commands ==
  {c \in [name : Names, watch : Watches \cup {NoWatch}, numbers : SUBSET Nat] :
     /\ c.name = "create" => c.watch \in Watches
     /\ c.name # "delete" => c.numbers = {}}

Records ==
  {r \in [kind : Kinds, watch : Watches \cup {NoWatch}, number : Nat, value : Values,
          list : SUBSET [number : Nat, alive : BOOLEAN, value : Values], mapped : BOOLEAN] :
     /\ r.kind \in {"created", "uncreated"} => r.watch \in Watches
     /\ r.kind \in {"stopped", "stack"} => r.number \in Values}

LEMMA CommandsType ==
  /\ \A name \in Names \ {"create", "delete"} : Ask(name) \in Commands
  /\ \A w \in Watches : Create(w) \in Commands
  /\ \A ns \in SUBSET Nat : Delete(ns) \in Commands
BY DEF Commands, Names, Ask, Create, Delete, Command

LEMMA RecordsType ==
  /\ \A kind \in {"running", "exited", "registers", "error", "disassembly", "inserted"} :
       Plain(kind) \in Records
  /\ \A n \in Values : Stack(n) \in Records
  /\ \A n \in Values, m \in BOOLEAN :
       /\ Stopped(n, m) \in Records
       /\ Stopped(n, m).kind = "stopped" /\ Stopped(n, m).number = n
  /\ \A w \in Watches, n \in Nat, v \in Values : Record("created", w, n, v) \in Records
  /\ \A w \in Watches : Record("uncreated", w, 0, 0) \in Records
  /\ \A list \in SUBSET [number : Nat, alive : BOOLEAN, value : Values] :
       /\ Changes(list) \in Records
       /\ Changes(list).kind = "changes" /\ Changes(list).list = list
<1>1. 0 \in Values
  BY QueriesAssumption DEF Values
<1>2. Values \subseteq Nat
  BY QueriesAssumption DEF Values
<1> QED BY <1>1, <1>2 DEF Records, Kinds, Plain, Record, Stopped, Stack, Changes

Written == Elements(toGdb)
Printed == Elements(fromGdb)

LEMMA AnalyzerAsksType ==
  ASSUME NEW s
  PROVE  /\ AnalyzerAsks(s) \in Seq(Commands)
         /\ Elements(AnalyzerAsks(s)) = IF s = "stopped" THEN {Ask("stack")} ELSE {}
<1>1. Ask("stack") \in Commands
  BY CommandsType DEF Names
<1> QED BY <1>1, ElementsFew DEF AnalyzerAsks

(* The commands of HandleStopped exist: the list is recursive, and there   *)
(* is no least length without one.                                         *)
LEMMA CreatesType ==
  ASSUME watched \in Seq(Watches)
  PROVE  Creates \in Seq(Commands)
<1> DEFINE n == Len(watched)
           Body(f, i) == IF i = 0 THEN <<>>
                         ELSE IF Missing(watched[i]) THEN Append(f[i - 1], Create(watched[i]))
                         ELSE f[i - 1]
           Lists(f, k) == f \in [0..k -> Seq(Commands)] /\ \A i \in 0..k : f[i] = Body(f, i)
           Without == {k \in 0..n : ~ \E f : Lists(f, k)}
<1>1. n \in Nat /\ \A i \in 1..n : Create(watched[i]) \in Commands
  BY CommandsType
<1>2. ASSUME NEW f, NEW i \in 0..n, i = 0 \/ f[i - 1] \in Seq(Commands)
      PROVE  Body(f, i) \in Seq(Commands)
  BY <1>1, <1>2
<1> HIDE DEF n
<1>3. Without = {}
  <2> SUFFICES ASSUME Without # {} PROVE FALSE
    OBVIOUS
  <2>1. PICK k \in Without : \A j \in Without : k <= j
    <3>1. Without \subseteq Nat
      BY <1>1
    <3> QED BY <3>1, SmallestNumber
  <2>2. CASE k = 0
    <3>1. Lists([i \in 0..0 |-> <<>>], 0)
      OBVIOUS
    <3> QED BY <2>1, <2>2, <3>1
  <2>3. CASE k # 0
    <3>1. k \in Nat /\ k - 1 \in 0..n /\ k - 1 \notin Without
      <4>1. k \in Nat /\ k - 1 \in 0..n /\ ~ (k <= k - 1)
        BY <1>1, <2>1, <2>3
      <4> HIDE DEF Without
      <4> QED BY <2>1, <4>1
    <3>2. PICK f : Lists(f, k - 1)
      BY <3>1
    <3> DEFINE g == [i \in 0..k |-> IF i = k THEN Body(f, k) ELSE f[i]]
    <3>3. f[k - 1] \in Seq(Commands)
      BY <3>1, <3>2
    <3>4. Body(f, k) \in Seq(Commands)
      BY <1>2, <2>1, <3>3
    <3>5. g \in [0..k -> Seq(Commands)]
      <4> HIDE DEF Body
      <4> QED BY <3>1, <3>2, <3>4
    <3>6. ASSUME NEW i \in 0..k PROVE g[i] = Body(g, i)
      <4>1. CASE i = k
        <5>1. g[i] = Body(f, k) /\ g[i - 1] = f[i - 1]
          <6> HIDE DEF Body
          <6> QED BY <3>1, <4>1
        <5> HIDE DEF g
        <5> QED BY <4>1, <5>1
      <4>2. CASE i # k
        <5>1. i \in 0..(k - 1) /\ g[i] = f[i] /\ (i # 0 => g[i - 1] = f[i - 1])
          <6> HIDE DEF Body
          <6> QED BY <3>1, <4>2
        <5>2. f[i] = Body(f, i)
          BY <3>2, <5>1
        <5> HIDE DEF g
        <5> QED BY <5>1, <5>2
      <4> QED BY <4>1, <4>2
    <3> HIDE DEF g, Body
    <3>7. Lists(g, k)
      BY <3>5, <3>6
    <3> QED BY <2>1, <3>7
  <2> QED BY <2>2, <2>3
<1>4. PICK f : Lists(f, n)
  <2>1. n \in 0..n
    BY <1>1
  <2> HIDE DEF Lists
  <2> QED BY <1>3, <2>1
<1> HIDE DEF Body
<1>5. f = [i \in 0..n |-> Body(f, i)]
  BY <1>4
<1> DEFINE upTo == CHOOSE h : h = [i \in 0..n |-> Body(h, i)]
<1>6. upTo = [i \in 0..n |-> Body(upTo, i)]
  BY <1>5
<1>7. Creates = upTo[n]
  BY DEF Creates, Body, n
<1> HIDE DEF upTo
<1>8. {i \in 0..n : upTo[i] \notin Seq(Commands)} = {}
  <2> DEFINE Bad == {i \in 0..n : upTo[i] \notin Seq(Commands)}
  <2> SUFFICES ASSUME Bad # {} PROVE FALSE
    OBVIOUS
  <2>1. PICK i \in Bad : \A j \in Bad : i <= j
    <3>1. Bad \subseteq Nat
      BY <1>1
    <3> QED BY <3>1, SmallestNumber
  <2>2. upTo[i] = Body(upTo, i)
    BY <1>6
  <2>3. i = 0 \/ upTo[i - 1] \in Seq(Commands)
    BY <1>1, <2>1
  <2> QED BY <1>2, <2>1, <2>2, <2>3
<1> QED BY <1>1, <1>7, <1>8

-----------------------------------------------------------------------------
(* Types.                                                                  *)
States == {"none", "launching", "sync_flushing", "running", "stopped", "exited"}
Objects == [number : Nat, watch : Watches, frame : Values, told : Values]

Types ==
  /\ state \in States /\ synced \in BOOLEAN /\ located \in BOOLEAN
  /\ pending \in Nat /\ (state = "sync_flushing" => pending > 0)
  /\ watched \in Seq(Watches) /\ objectOf \in [Watches -> Nat]
  /\ watchOf \in [DOMAIN watchOf -> Watches] /\ DOMAIN watchOf \subseteq Nat
  /\ cells \in [Watches -> Values \cup {Unknown, Gone}]
  /\ asked \in BOOLEAN /\ alert \in Values
  /\ toGdb \in Seq(Commands) /\ fromGdb \in Seq(Records)
  /\ \A r \in Printed : r.kind = "stopped" => r.number \in 1..stops
  /\ target \in [status : {"none", "unattached", "running", "stopped", "over"},
                 frame : Values, blocked : BOOLEAN]
  /\ stops \in Values /\ changed \in 0..stops /\ at \in 0..stops
  /\ target.status = "unattached" => stops > 0
  /\ objects \subseteq Objects
  /\ \A o \in objects : o.number \in 1..nextObject - 1 /\ o.told <= changed
  /\ nextObject \in Nat \ {0}

LEMMA TypesTypeOK ==
  ASSUME Types
  PROVE  TypeOK
<1>1. \A i \in DOMAIN fromGdb : fromGdb[i] \in Records
  BY DEF Types
<1>2. toGdb \in Seq([name : Names, watch : Watches \cup {NoWatch}, numbers : SUBSET Nat])
  <2>1. Commands \subseteq [name : Names, watch : Watches \cup {NoWatch}, numbers : SUBSET Nat]
    BY DEF Commands
  <2>2. toGdb \in Seq(Commands)
    BY DEF Types
  <2> DEFINE All == [name : Names, watch : Watches \cup {NoWatch}, numbers : SUBSET Nat]
  <2> HIDE DEF All
  <2>3. Commands \subseteq All
    BY <2>1 DEF All
  <2>4. toGdb \in Seq(All)
    BY <2>2, <2>3
  <2> QED BY <2>4 DEF All
<1>3. objects \subseteq [number : 1..nextObject - 1, watch : Watches, frame : Values,
                         told : Values]
  BY DEF Types, Objects
<1> QED BY <1>1, <1>2, <1>3 DEF Types, TypeOK, States, Records

LEMMA Bounded == Values \subseteq Nat /\ MaxStops \in Nat /\ 0 \in Values
BY QueriesAssumption DEF Values

(* What the four ways of moving commands and records leave. *)
LEMMA TakeFacts ==
  ASSUME Types, NEW kind, Take(kind)
  PROVE  /\ Head(fromGdb) \in Records /\ Head(fromGdb).kind = kind
         /\ fromGdb # <<>> /\ fromGdb' = Tail(fromGdb)
         /\ fromGdb' \in Seq(Records) /\ Printed = {Head(fromGdb)} \cup Printed'
BY ElementsTail DEF Types, Take, Printed

LEMMA ReadFacts ==
  ASSUME Types, NEW names, Reads(names)
  PROVE  /\ Head(toGdb) \in Commands /\ Head(toGdb).name \in names
         /\ toGdb' \in Seq(Commands) /\ Written = {Head(toGdb)} \cup Written'
BY ElementsTail DEF Types, Reads, Written

LEMMA TellFacts ==
  ASSUME Types, NEW r \in Records, Tell(r)
  PROVE  fromGdb' \in Seq(Records) /\ Printed' = Printed \cup {r}
BY ElementsAppend DEF Types, Tell, Printed

LEMMA AskFacts ==
  ASSUME Types, NEW more \in Seq(Commands), toGdb' = toGdb \o more
  PROVE  toGdb' \in Seq(Commands) /\ Written' = Written \cup Elements(more)
BY ElementsConcat DEF Types, Written

LEMMA AskOneFacts ==
  ASSUME Types, NEW c \in Commands, toGdb' = Append(toGdb, c)
  PROVE  toGdb' \in Seq(Commands) /\ Written' = Written \cup {c}
BY ElementsAppend DEF Types, Written

LEMMA AnnounceType ==
  ASSUME Types, NEW s, Announce(s)
  PROVE  asked' \in BOOLEAN /\ alert' \in Values
BY Bounded DEF Types, Announce

(* What each handler asks. *)
LEMMA StopQuestionsType ==
  /\ StopQuestions \in Seq(Commands)
  /\ Elements(StopQuestions) = {Ask("disassembly"), Ask("registers")}
<1>1. Ask("disassembly") \in Commands /\ Ask("registers") \in Commands
  BY CommandsType DEF Names
<1> QED BY <1>1, ElementsFew DEF StopQuestions

LEMMA StopAsks ==
  ASSUME Types, NEW more \in Seq(Commands), NEW all, all = toGdb \o StopQuestions \o more
  PROVE  /\ all \in Seq(Commands) /\ Written \subseteq Elements(all)
         /\ Ask("disassembly") \in Elements(all) /\ Elements(more) \subseteq Elements(all)
<1> DEFINE first == toGdb \o StopQuestions
<1>1. /\ first \in Seq(Commands)
      /\ Elements(first) = Written \cup {Ask("disassembly"), Ask("registers")}
  BY StopQuestionsType, ElementsConcat DEF Types, Written
<1>2. all = first \o more
  OBVIOUS
<1> HIDE DEF first
<1>3. all \in Seq(Commands) /\ Elements(all) = Elements(first) \cup Elements(more)
  BY <1>1, <1>2, ElementsConcat
<1> QED BY <1>1, <1>3

LEMMA StoppedAsks ==
  ASSUME Types, HandleStopped
  PROVE  /\ toGdb' \in Seq(Commands) /\ Written \subseteq Written'
         /\ {Ask("disassembly"), Ask("stack")} \subseteq Written'
<1> DEFINE all == toGdb \o StopQuestions \o Creates
<1>1. Creates \in Seq(Commands)
  BY CreatesType DEF Types
<1>2. toGdb' = all \o AnalyzerAsks("stopped")
  BY DEF HandleStopped
<1>3. /\ AnalyzerAsks("stopped") \in Seq(Commands)
      /\ Elements(AnalyzerAsks("stopped")) = {Ask("stack")}
  BY AnalyzerAsksType
<1>4. /\ all \in Seq(Commands) /\ Written \subseteq Elements(all)
      /\ Ask("disassembly") \in Elements(all)
  BY <1>1, StopAsks
<1> HIDE DEF all
<1>5. toGdb' \in Seq(Commands) /\ Elements(toGdb') = Elements(all) \cup {Ask("stack")}
  BY <1>2, <1>3, <1>4, ElementsConcat
<1> QED BY <1>4, <1>5 DEF Written

(* The insertions of a flush. *)
LEMMA InsertsType ==
  ASSUME NEW n \in Nat
  PROVE  [i \in 1..n |-> Ask("insert")] \in Seq(Commands)
<1>1. Ask("insert") \in Commands
  BY CommandsType DEF Names
<1> QED BY <1>1

(* A stop that is handled, shown or not. *)
LEMMA StopFacts ==
  ASSUME Types, Stop
  PROVE  /\ Take("stopped") /\ Head(fromGdb) \in Records /\ Head(fromGdb).kind = "stopped"
         /\ fromGdb' \in Seq(Records) /\ Printed = {Head(fromGdb)} \cup Printed'
         /\ Head(fromGdb).number \in 1..stops /\ at' = Head(fromGdb).number
         /\ located' \in BOOLEAN /\ UNCHANGED <<coordinator, gdb, spent>>
<1>1. /\ Take("stopped") /\ at' = Head(fromGdb).number
      /\ located' = (located \/ Head(fromGdb).mapped) /\ UNCHANGED <<coordinator, gdb, spent>>
  BY DEF Stop
<1>2. /\ Head(fromGdb) \in Records /\ Head(fromGdb).kind = "stopped"
      /\ fromGdb' \in Seq(Records) /\ Printed = {Head(fromGdb)} \cup Printed'
  BY <1>1, TakeFacts
<1>3. Head(fromGdb).number \in 1..stops
  BY <1>2 DEF Types
<1>4. located' \in BOOLEAN
  BY <1>1, <1>2 DEF Types, Records
<1> QED BY <1>1, <1>2, <1>3, <1>4

(* The first stop of a session and one in code without a file. *)
Silent == HandleFirstStop \/ HandleUnmappedStop

LEMMA SilentFacts ==
  ASSUME Types, Silent
  PROVE  /\ Stop /\ UNCHANGED analyzer /\ synced' = TRUE /\ pending' \in Nat
         /\ toGdb' \in Seq(Commands) /\ Written \subseteq Written'
         /\ \/ state' = "running" /\ Ask("continue") \in Written'
            \/ state' = "sync_flushing" /\ pending' > 0
<1> DEFINE resume == <<Ask("continue")>>
<1>1. Stop /\ UNCHANGED analyzer /\ synced' = TRUE
  BY DEF Silent, HandleFirstStop, HandleUnmappedStop, Types
<1>2. CASE state' = "running" /\ toGdb' = toGdb \o StopQuestions \o resume /\ UNCHANGED pending
  <2>1. resume \in Seq(Commands) /\ Elements(resume) = {Ask("continue")}
    <3>1. Ask("continue") \in Commands
      BY CommandsType DEF Names
    <3> QED BY <3>1, ElementsFew
  <2> HIDE DEF resume
  <2>2. toGdb' \in Seq(Commands) /\ Written \subseteq Written' /\ Ask("continue") \in Written'
    BY <1>2, <2>1, StopAsks DEF Written
  <2> QED BY <1>1, <1>2, <2>2 DEF Types
<1>3. CASE /\ state' = "sync_flushing" /\ pending' \in 1..MaxBreakpoints
           /\ toGdb' = toGdb \o StopQuestions \o [i \in 1..pending' |-> Ask("insert")]
  <2>1. pending' \in Nat /\ pending' > 0
    BY <1>3, QueriesAssumption
  <2>2. PICK n : n = pending'
    OBVIOUS
  <2> DEFINE inserts == [i \in 1..n |-> Ask("insert")]
  <2>3. inserts \in Seq(Commands) /\ toGdb' = toGdb \o StopQuestions \o inserts
    BY <1>3, <2>1, <2>2, InsertsType
  <2> HIDE DEF inserts
  <2>4. toGdb' \in Seq(Commands) /\ Written \subseteq Written'
    BY <2>3, StopAsks DEF Written
  <2> QED BY <1>1, <1>3, <2>1, <2>4
<1> QED BY <1>2, <1>3 DEF Silent, HandleFirstStop, HandleUnmappedStop

LEMMA AnswerAsks ==
  ASSUME Types, toGdb' = toGdb \o AnalyzerAsks(state)
  PROVE  /\ toGdb' \in Seq(Commands)
         /\ Written' = Written \cup (IF state = "stopped" THEN {Ask("stack")} ELSE {})
BY AnalyzerAsksType, AskFacts

LEMMA ConcatCommands ==
  ASSUME NEW q \in Seq(Commands), NEW p \in Seq(Commands)
  PROVE  q \o p \in Seq(Commands) /\ Elements(q \o p) = Elements(q) \cup Elements(p)
BY ElementsConcat

LEMMA DisassemblyAsks ==
  ASSUME Types, toGdb' = toGdb \o AnalyzerAsks(state) \o <<Ask("update")>>
  PROVE  /\ toGdb' \in Seq(Commands)
         /\ Written' = Written \cup (IF state = "stopped" THEN {Ask("stack")} ELSE {})
                               \cup {Ask("update")}
<1> DEFINE asks == toGdb \o AnalyzerAsks(state)
<1>1. /\ asks \in Seq(Commands)
      /\ Elements(asks) = Written \cup (IF state = "stopped" THEN {Ask("stack")} ELSE {})
  BY AnalyzerAsksType, ElementsConcat DEF Types, Written
<1>2. <<Ask("update")>> \in Seq(Commands) /\ Elements(<<Ask("update")>>) = {Ask("update")}
  <2>1. Ask("update") \in Commands
    BY CommandsType DEF Names
  <2> QED BY <2>1, ElementsFew
<1>3. toGdb' = asks \o <<Ask("update")>>
  OBVIOUS
<1> DEFINE update == <<Ask("update")>>
<1>4. toGdb' = asks \o update /\ update \in Seq(Commands) /\ Elements(update) = {Ask("update")}
  BY <1>2, <1>3
<1> HIDE DEF asks, update
<1>5. asks \o update \in Seq(Commands) /\ Elements(asks \o update) = Elements(asks) \cup Elements(update)
  BY <1>1, <1>4, ConcatCommands
<1> QED BY <1>1, <1>4, <1>5 DEF Written

LEMMA InsertedFacts ==
  ASSUME Types, HandleInserted
  PROVE  /\ Take("inserted") /\ toGdb' \in Seq(Commands) /\ Written \subseteq Written'
         /\ asked' \in BOOLEAN /\ alert' \in Values /\ pending' \in Nat
         /\ state' = "sync_flushing" => pending' > 0
         /\ UNCHANGED <<synced, located, coordinator, gdb, at, spent>>
         /\ \/ /\ state = "sync_flushing" /\ UNCHANGED analyzer
               /\ state' = state \/ (state' = "running" /\ Ask("continue") \in Written')
            \/ state' = state /\ Announce(state) /\ toGdb' = toGdb \o AnalyzerAsks(state)
<1>1. Take("inserted") /\ UNCHANGED <<synced, located, coordinator, gdb, at, spent>>
  BY DEF HandleInserted
<1>2. CASE state = "sync_flushing" /\ UNCHANGED analyzer /\ pending' = pending - 1
  <2>1. pending' \in Nat /\ asked' \in BOOLEAN /\ alert' \in Values
    BY <1>2 DEF Types, analyzer
  <2>2. CASE pending' > 0 /\ UNCHANGED <<state, toGdb>>
    BY <1>1, <1>2, <2>1, <2>2 DEF Types, Written
  <2>3. CASE state' = "running" /\ toGdb' = Append(toGdb, Ask("continue"))
    <3>1. Ask("continue") \in Commands
      BY CommandsType DEF Names
    <3>2. toGdb' \in Seq(Commands) /\ Written' = Written \cup {Ask("continue")}
      BY <2>3, <3>1, AskOneFacts
    <3> QED BY <1>1, <1>2, <2>1, <2>3, <3>2
  <2> QED BY <1>2, <2>2, <2>3 DEF HandleInserted
<1>3. CASE /\ state # "sync_flushing" /\ Announce(state) /\ UNCHANGED <<state, pending>>
           /\ toGdb' = toGdb \o AnalyzerAsks(state)
  <2>1. toGdb' \in Seq(Commands) /\ Written \subseteq Written'
    BY <1>3, AnswerAsks
  <2>2. asked' \in BOOLEAN /\ alert' \in Values
    BY <1>3, AnnounceType
  <2> QED BY <1>1, <1>3, <2>1, <2>2 DEF Types
<1> QED BY <1>2, <1>3 DEF HandleInserted

LEMMA ChangesAsks ==
  ASSUME Types, NEW dead \in SUBSET Nat,
         toGdb' = toGdb \o (IF dead = {} THEN <<>> ELSE <<Delete(dead)>>) \o AnalyzerAsks(state)
  PROVE  /\ toGdb' \in Seq(Commands)
         /\ Written' = Written \cup (IF dead = {} THEN {} ELSE {Delete(dead)})
                               \cup (IF state = "stopped" THEN {Ask("stack")} ELSE {})
<1> DEFINE deletes == IF dead = {} THEN <<>> ELSE <<Delete(dead)>>
           asks == toGdb \o deletes
<1>1. /\ deletes \in Seq(Commands)
      /\ Elements(deletes) = IF dead = {} THEN {} ELSE {Delete(dead)}
  BY CommandsType, ElementsFew
<1>2. toGdb' = asks \o AnalyzerAsks(state)
  OBVIOUS
<1> HIDE DEF deletes
<1>3. asks \in Seq(Commands) /\ Elements(asks) = Written \cup Elements(deletes)
  BY <1>1, ElementsConcat DEF Types, Written
<1> HIDE DEF asks
<1> DEFINE more == AnalyzerAsks(state)
<1>4. /\ toGdb' = asks \o more /\ more \in Seq(Commands)
      /\ Elements(more) = IF state = "stopped" THEN {Ask("stack")} ELSE {}
  BY <1>2, AnalyzerAsksType
<1> HIDE DEF more
<1>5. asks \o more \in Seq(Commands) /\ Elements(asks \o more) = Elements(asks) \cup Elements(more)
  BY <1>3, <1>4, ConcatCommands
<1> QED BY <1>1, <1>3, <1>4, <1>5 DEF Written

(* The row of the grid and the tables of a changelist. *)
LEMMA ChangesType ==
  ASSUME Types, HandleChanges
  PROVE  LET known == {c \in Head(fromGdb).list : c.number \in DOMAIN watchOf}
             dead == {c.number : c \in {d \in known : ~ d.alive}}
         IN /\ cells' \in [Watches -> Values \cup {Unknown, Gone}]
            /\ objectOf' \in [Watches -> Nat]
            /\ DOMAIN watchOf' = DOMAIN watchOf \ dead
            /\ \A n \in DOMAIN watchOf' : watchOf'[n] = watchOf[n]
            /\ dead \in SUBSET Nat
            /\ asked' \in BOOLEAN /\ alert' \in Values
            /\ toGdb' \in Seq(Commands)
<1> DEFINE known == {c \in Head(fromGdb).list : c.number \in DOMAIN watchOf}
           about(w) == {c \in known : watchOf[c.number] = w}
           dead == {c.number : c \in {d \in known : ~ d.alive}}
<1>1. Head(fromGdb) \in Records /\ Take("changes")
  BY TakeFacts DEF HandleChanges
<1>2. \A c \in known : c.number \in Nat /\ c.alive \in BOOLEAN /\ c.value \in Values
  BY <1>1 DEF Records
<1>3. PICK last \in [Watches -> known \cup {Plain("none")}] :
        /\ \A w \in Watches : IF about(w) = {} THEN last[w] = Plain("none")
                             ELSE last[w] \in about(w)
        /\ cells' = [w \in Watches |->
                       IF about(w) = {} THEN cells[w]
                       ELSE IF last[w].alive THEN last[w].value ELSE Gone]
  BY DEF HandleChanges
<1>4. cells' \in [Watches -> Values \cup {Unknown, Gone}]
  BY <1>2, <1>3 DEF Types
<1>5. objectOf' \in [Watches -> Nat]
  BY DEF HandleChanges, Types
<1>6. watchOf' = [n \in DOMAIN watchOf \ dead |-> watchOf[n]]
  BY DEF HandleChanges
<1>7. dead \in SUBSET Nat
  BY <1>2
<1>8. IF known = {} THEN UNCHANGED <<analyzer, toGdb>>
      ELSE /\ Announce(state)
           /\ toGdb' = toGdb \o (IF dead = {} THEN <<>> ELSE <<Delete(dead)>>)
                             \o AnalyzerAsks(state)
  BY DEF HandleChanges
<1> HIDE DEF known, dead
<1>9. asked' \in BOOLEAN /\ alert' \in Values /\ toGdb' \in Seq(Commands)
  <2>1. CASE known = {}
    BY <1>8, <2>1 DEF analyzer, Types
  <2>2. CASE known # {}
    BY <1>7, <1>8, <2>2, ChangesAsks, AnnounceType
  <2> QED BY <2>1, <2>2
<1> QED BY <1>4, <1>5, <1>6, <1>7, <1>9 DEF known, dead

LEMMA TypesHandled ==
  ASSUME Types, Handle
  PROVE  Types'
<1> USE Bounded DEF slot
<1>0. ASSUME Stop, state' \in States, synced' \in BOOLEAN, pending' \in Nat,
             state' = "sync_flushing" => pending' > 0,
             asked' \in BOOLEAN, alert' \in Values, toGdb' \in Seq(Commands)
      PROVE  Types'
  <2>1. /\ fromGdb' \in Seq(Records) /\ Printed' \subseteq Printed
        /\ at' \in 0..stops /\ located' \in BOOLEAN /\ UNCHANGED <<coordinator, gdb, spent>>
    BY <1>0, StopFacts
  <2>2. \A q \in Printed' : q.kind = "stopped" => q.number \in 1..stops
    BY <2>1 DEF Types
  <2> QED BY <1>0, <2>1, <2>2 DEF Types, coordinator, gdb
<1>1. CASE HandleStopped
  <2>1. /\ Stop /\ Announce("stopped") /\ state' = "stopped" /\ UNCHANGED <<synced, pending>>
    BY <1>1 DEF HandleStopped
  <2>2. toGdb' \in Seq(Commands) /\ asked' \in BOOLEAN /\ alert' \in Values
    BY <1>1, <2>1, StoppedAsks, AnnounceType
  <2>3. state' \in States /\ synced' \in BOOLEAN /\ pending' \in Nat
    BY <2>1 DEF Types, States
  <2> QED BY <1>0, <2>1, <2>2, <2>3
<1>11. CASE Silent
  <2>1. asked' \in BOOLEAN /\ alert' \in Values
    BY <1>11, SilentFacts DEF Types, analyzer
  <2>2. state' \in States
    BY <1>11, SilentFacts DEF States
  <2> QED BY <1>0, <1>11, <2>1, <2>2, SilentFacts
<1>12. CASE HandleInserted
  <2>1. /\ fromGdb' \in Seq(Records) /\ Printed' \subseteq Printed
    BY <1>12, InsertedFacts, TakeFacts
  <2>2. state' \in States
    BY <1>12, InsertedFacts DEF Types, States
  <2>3. \A q \in Printed' : q.kind = "stopped" => q.number \in 1..stops
    BY <2>1 DEF Types
  <2>4. /\ toGdb' \in Seq(Commands) /\ asked' \in BOOLEAN /\ alert' \in Values
        /\ pending' \in Nat /\ (state' = "sync_flushing" => pending' > 0)
        /\ UNCHANGED <<synced, located, coordinator, gdb, at>>
    BY <1>12, InsertedFacts
  <2> QED BY <2>1, <2>2, <2>3, <2>4 DEF Types, coordinator, gdb
<1>2. CASE HandleRunning
  <2>1. Take("running") /\ Announce("running")
    BY <1>2 DEF HandleRunning
  <2> QED BY <1>2, <2>1, TakeFacts, AnnounceType
          DEF HandleRunning, Types, States, coordinator, gdb
<1>3. CASE HandleExited
  <2>1. Take("exited") /\ Announce("exited")
    BY <1>3 DEF HandleExited
  <2> QED BY <1>3, <2>1, TakeFacts, AnnounceType
          DEF HandleExited, Types, States, coordinator, gdb
<1>4. CASE HandleText
  <2>1. /\ Take("registers") \/ Take("error")
        /\ Announce(state) /\ toGdb' = toGdb \o AnalyzerAsks(state)
    BY <1>4 DEF HandleText
  <2>2. fromGdb' \in Seq(Records) /\ Printed' \subseteq Printed
    BY <2>1, TakeFacts
  <2>3. toGdb' \in Seq(Commands)
    BY <2>1, AnswerAsks
  <2> QED BY <1>4, <2>1, <2>2, <2>3, AnnounceType
          DEF HandleText, Types, coordinator, gdb
<1>5. CASE HandleDisassembly
  <2>1. /\ Take("disassembly") /\ Announce(state)
        /\ toGdb' = toGdb \o AnalyzerAsks(state) \o <<Ask("update")>>
    BY <1>5 DEF HandleDisassembly
  <2>2. fromGdb' \in Seq(Records) /\ Printed' \subseteq Printed
    BY <2>1, TakeFacts
  <2>3. toGdb' \in Seq(Commands)
    BY <2>1, DisassemblyAsks
  <2> QED BY <1>5, <2>1, <2>2, <2>3, AnnounceType
          DEF HandleDisassembly, Types, coordinator, gdb
<1>6. CASE HandleCreated
  <2> DEFINE m == Head(fromGdb)
  <2>1. /\ Take("created") /\ Announce(state) /\ toGdb' = toGdb \o AnalyzerAsks(state)
    BY <1>6 DEF HandleCreated
  <2>2. /\ fromGdb' \in Seq(Records) /\ Printed' \subseteq Printed
        /\ m \in Records /\ m.kind = "created"
    BY <2>1, TakeFacts
  <2>3. toGdb' \in Seq(Commands)
    BY <2>1, AnswerAsks
  <2>4. m.watch \in Watches /\ m.number \in Nat /\ m.value \in Values
    BY <2>2 DEF Records
  <2>5. /\ objectOf' = [objectOf EXCEPT ![m.watch] = m.number]
        /\ watchOf' = [n \in DOMAIN watchOf \cup {m.number} |->
                         IF n = m.number THEN m.watch ELSE watchOf[n]]
        /\ cells' = [cells EXCEPT ![m.watch] = m.value]
        /\ UNCHANGED <<slot, watched, gdb, at, spent>>
    BY <1>6 DEF HandleCreated
  <2> HIDE DEF m
  <2>6. /\ objectOf' \in [Watches -> Nat]
        /\ cells' \in [Watches -> Values \cup {Unknown, Gone}]
    BY <2>4, <2>5 DEF Types
  <2>7. watchOf' \in [DOMAIN watchOf' -> Watches] /\ DOMAIN watchOf' \subseteq Nat
    BY <2>4, <2>5 DEF Types
  <2> QED BY <2>1, <2>2, <2>3, <2>5, <2>6, <2>7, AnnounceType DEF Types, gdb
<1>7. CASE HandleUncreated
  <2> DEFINE w == Head(fromGdb).watch
  <2>1. /\ Take("uncreated") /\ Announce(state) /\ toGdb' = toGdb \o AnalyzerAsks(state)
    BY <1>7 DEF HandleUncreated
  <2>2. /\ fromGdb' \in Seq(Records) /\ Printed' \subseteq Printed
        /\ Head(fromGdb) \in Records /\ Head(fromGdb).kind = "uncreated"
    BY <2>1, TakeFacts
  <2>3. toGdb' \in Seq(Commands)
    BY <2>1, AnswerAsks
  <2>4. w \in Watches
    BY <2>2 DEF Records
  <2>5. /\ objectOf' = [objectOf EXCEPT ![w] = 0]
        /\ cells' = [cells EXCEPT ![w] = Gone]
        /\ UNCHANGED <<slot, watched, watchOf, gdb, at, spent>>
    BY <1>7 DEF HandleUncreated
  <2> HIDE DEF w
  <2>6. /\ objectOf' \in [Watches -> Nat]
        /\ cells' \in [Watches -> Values \cup {Unknown, Gone}]
    BY <2>4, <2>5 DEF Types
  <2> QED BY <2>1, <2>2, <2>3, <2>5, <2>6, AnnounceType DEF Types, gdb
<1>8. CASE HandleChanges
  <2>1. fromGdb' \in Seq(Records) /\ Printed' \subseteq Printed
    <3>1. Take("changes")
      BY <1>8 DEF HandleChanges
    <3> QED BY <3>1, TakeFacts
  <2>2. UNCHANGED <<slot, watched, gdb, at, spent>>
    BY <1>8 DEF HandleChanges
  <2>3. /\ cells' \in [Watches -> Values \cup {Unknown, Gone}]
        /\ objectOf' \in [Watches -> Nat]
        /\ DOMAIN watchOf' \subseteq DOMAIN watchOf
        /\ \A n \in DOMAIN watchOf' : watchOf'[n] = watchOf[n]
        /\ asked' \in BOOLEAN /\ alert' \in Values
        /\ toGdb' \in Seq(Commands)
    BY <1>8, ChangesType
  <2>4. \E S : watchOf' = [n \in S |-> watchOf[n]]
    BY <1>8 DEF HandleChanges
  <2>5. watchOf' \in [DOMAIN watchOf' -> Watches]
    BY <2>3, <2>4 DEF Types
  <2> QED BY <2>1, <2>2, <2>3, <2>5 DEF Types, gdb
<1>9. CASE HandleStack
  <2>1. Take("stack")
    BY <1>9 DEF HandleStack
  <2>2. /\ fromGdb' \in Seq(Records) /\ Printed' \subseteq Printed
        /\ Head(fromGdb).number \in Values
    BY <2>1, TakeFacts DEF Records
  <2> QED BY <1>9, <2>2 DEF HandleStack, Types, coordinator, gdb
<1> QED BY <1>1, <1>2, <1>3, <1>4, <1>5, <1>6, <1>7, <1>8, <1>9, <1>11, <1>12 DEF Handle, Silent

LEMMA TypesUser ==
  ASSUME Types, User
  PROVE  Types'
<1> USE Bounded DEF slot
<1>1. ASSUME NEW w \in Watches, RegisterWatchVariable(w) PROVE Types'
  <2>1. toGdb' \in Seq(Commands)
    <3>1. toGdb' \in {toGdb, Append(toGdb, Create(w))}
      BY <1>1 DEF RegisterWatchVariable
    <3>2. CASE toGdb' = toGdb
      BY <3>2 DEF Types
    <3>3. CASE toGdb' = Append(toGdb, Create(w))
      BY <3>3, CommandsType, AskOneFacts
    <3> QED BY <3>1, <3>2, <3>3
  <2>2. watched' \in Seq(Watches)
    BY <1>1 DEF RegisterWatchVariable, Types
  <2> QED BY <1>1, <2>1, <2>2 DEF RegisterWatchVariable, Types, analyzer, gdb, Printed
<1>2. CASE Resume
  <2>1. toGdb' \in Seq(Commands)
    BY <1>2, CommandsType, AskOneFacts DEF Resume, Names
  <2> QED BY <1>2, <2>1 DEF Resume, Types, coordinator, analyzer, gdb, Printed
<1>7. CASE BroadcastBreakpoint
  <2>1. toGdb' \in Seq(Commands)
    BY <1>7, CommandsType, AskOneFacts DEF BroadcastBreakpoint, Names
  <2> QED BY <1>7, <2>1 DEF BroadcastBreakpoint, Types, coordinator, analyzer, gdb, Printed
<1>3. CASE RequestDisassemblyFallback
  <2>1. toGdb' \in Seq(Commands)
    BY <1>3, CommandsType, AskOneFacts DEF RequestDisassemblyFallback, Names
  <2> QED BY <1>3, <2>1 DEF RequestDisassemblyFallback, Types, coordinator, analyzer, gdb, Printed
<1>4. ASSUME NEW s \in {"none", "launching"}, NEW status \in {"none", "unattached"}, Fresh(s, status),
             UNCHANGED <<coordinator, analyzer, at>>, stops' \in Values, stops <= stops',
             changed' \in 0..stops', status = "unattached" => stops' > 0
      PROVE  Types'
  <2>1. Printed' = {} /\ toGdb' \in Seq(Commands) /\ fromGdb' \in Seq(Records)
    BY <1>4, ElementsFew DEF Fresh, Printed
  <2>2. at' \in 0..stops'
    BY <1>4 DEF Types
  <2>3. state' \in States /\ state' # "sync_flushing"
    BY <1>4 DEF Fresh, States
  <2>4. /\ target' \in [status : {"none", "unattached", "running", "stopped", "over"},
                         frame : Values, blocked : BOOLEAN]
        /\ target'.status = "unattached" => stops' > 0
    BY <1>4 DEF Fresh
  <2>5. objects' = {} /\ nextObject' = 1
    BY <1>4 DEF Fresh
  <2>6. /\ watched' \in Seq(Watches) /\ objectOf' \in [Watches -> Nat]
        /\ watchOf' \in [DOMAIN watchOf' -> Watches] /\ DOMAIN watchOf' \subseteq Nat
        /\ cells' \in [Watches -> Values \cup {Unknown, Gone}]
        /\ asked' \in BOOLEAN /\ alert' \in Values
    BY <1>4 DEF coordinator, analyzer, Types
  <2>7. /\ stops' \in Values /\ changed' \in 0..stops'
    BY <1>4
  <2>8. \A r \in Printed' : r.kind = "stopped" => r.number \in 1..stops'
    BY <2>1
  <2>9. /\ objects' \subseteq Objects /\ nextObject' \in Nat \ {0}
        /\ \A o \in objects' : o.number \in 1..nextObject' - 1 /\ o.told <= changed'
    BY <2>5
  <2>10. synced' \in BOOLEAN /\ located' \in BOOLEAN /\ pending' \in Nat
    BY <1>4 DEF Fresh
  <2> QED BY <2>1, <2>2, <2>3, <2>4, <2>6, <2>7, <2>8, <2>9, <2>10 DEF Types
<1>5. CASE LaunchParallelSession
  <2>1. /\ Fresh("launching", "unattached") /\ UNCHANGED <<coordinator, analyzer, at>>
        /\ stops < MaxStops /\ stops' = stops + 1 /\ changed' = stops'
    BY <1>5 DEF LaunchParallelSession
  <2>2. stops' \in Values /\ stops <= stops' /\ changed' \in 0..stops' /\ stops' > 0
    BY <2>1 DEF Types, Values
  <2> QED BY <1>4, <2>1, <2>2 DEF States
<1>6. CASE TerminateAllSessions
  <2>1. /\ Fresh("none", "none")
        /\ UNCHANGED <<coordinator, analyzer, at>> /\ UNCHANGED <<stops, changed>>
    BY <1>6 DEF TerminateAllSessions
  <2>2. stops' \in Values /\ stops <= stops' /\ changed' \in 0..stops'
    BY <2>1 DEF Types
  <2> QED BY <1>4, <2>1, <2>2 DEF States
<1> QED BY <1>1, <1>2, <1>3, <1>5, <1>6, <1>7 DEF User

(* What each step of gdb and of the target prints. *)
Answered ==
  LET name == Head(toGdb).name
  IN IF name = "disassembly" THEN Plain("disassembly")
     ELSE IF ~ Halted THEN Plain("error")
     ELSE IF name = "registers" THEN Plain("registers")
     ELSE Stack(IF target.blocked THEN stops ELSE 0)

Listed ==
  {[number |-> o.number, alive |-> Alive(o), value |-> changed] :
     o \in {p \in objects : ~ Alive(p) \/ p.told # changed}}

LEMMA ListedType ==
  ASSUME Types
  PROVE  Listed \in SUBSET [number : Nat, alive : BOOLEAN, value : Values]
<1>1. \A o \in objects : Alive(o) \in BOOLEAN
  BY DEF Alive, Halted
<1> QED BY <1>1, Bounded DEF Types, Listed, Objects, Values

LEMMA AnsweredType ==
  ASSUME Types
  PROVE  Answered \in Records
BY RecordsType, Bounded DEF Types, Answered

LEMMA TypesGdb ==
  ASSUME Types, Gdb
  PROVE  Types'
<1> USE Bounded DEF slot
<1>1. ASSUME NEW r \in Records, Tell(r), r.kind # "stopped" \/ r.number \in 1..stops
      PROVE  /\ fromGdb' \in Seq(Records)
             /\ \A q \in Printed' : q.kind = "stopped" => q.number \in 1..stops
  BY <1>1, TellFacts DEF Types
<1>2. CASE GdbConnects
  <2>1. stops \in Values /\ stops \in 1..stops
    BY <1>2 DEF GdbConnects, Types, Values
  <2>2. Stopped(stops, FALSE) \in Records /\ Stopped(stops, FALSE).number = stops
    BY <2>1, RecordsType
  <2>3. Tell(Stopped(stops, FALSE))
    BY <1>2 DEF GdbConnects
  <2>4. /\ fromGdb' \in Seq(Records)
        /\ \A q \in Printed' : q.kind = "stopped" => q.number \in 1..stops
    BY <1>1, <2>1, <2>2, <2>3
  <2> QED BY <1>2, <2>4 DEF GdbConnects, Types, coordinator, analyzer
<1>8. CASE GdbInserts
  <2>1. Reads({"insert"}) /\ (Tell(Plain("error")) \/ Tell(Plain("inserted")))
    BY <1>8 DEF GdbInserts
  <2>2. /\ fromGdb' \in Seq(Records)
        /\ \A q \in Printed' : q.kind = "stopped" => q.number \in 1..stops
    BY <1>1, <2>1, RecordsType DEF Plain, Record
  <2>3. toGdb' \in Seq(Commands)
    BY <2>1, ReadFacts
  <2> QED BY <1>8, <2>2, <2>3 DEF GdbInserts, Types, coordinator, analyzer, gdb
<1>3. CASE GdbContinues
  <2>1. Reads({"continue"}) /\ (Tell(Plain("running")) \/ Tell(Plain("error")))
    BY <1>3 DEF GdbContinues
  <2>2. /\ fromGdb' \in Seq(Records)
        /\ \A q \in Printed' : q.kind = "stopped" => q.number \in 1..stops
    BY <1>1, <2>1, RecordsType DEF Plain, Record
  <2>3. toGdb' \in Seq(Commands)
    BY <2>1, ReadFacts
  <2> QED BY <1>3, <2>2, <2>3 DEF GdbContinues, Types, coordinator, analyzer
<1>4. CASE GdbAnswers
  <2>1. Reads({"disassembly", "registers", "stack"}) /\ Tell(Answered)
    BY <1>4 DEF GdbAnswers, Answered
  <2>2. Answered.kind # "stopped"
    BY DEF Answered, Plain, Stack, Record
  <2>3. /\ fromGdb' \in Seq(Records)
        /\ \A q \in Printed' : q.kind = "stopped" => q.number \in 1..stops
    BY <1>1, <2>1, <2>2, AnsweredType
  <2>4. toGdb' \in Seq(Commands)
    BY <2>1, ReadFacts
  <2> QED BY <1>4, <2>3, <2>4 DEF GdbAnswers, Types, coordinator, analyzer, gdb
<1>5. CASE GdbCreates
  <2> DEFINE w == Head(toGdb).watch
             o == [number |-> nextObject, watch |-> w, frame |-> target.frame, told |-> changed]
  <2>1. Reads({"create"}) /\ UNCHANGED <<slot, coordinator, analyzer, target, stops, changed, at, spent>>
    BY <1>5 DEF GdbCreates
  <2>2. w \in Watches /\ toGdb' \in Seq(Commands)
    <3>1. /\ Head(toGdb) \in Commands /\ Head(toGdb).name = "create"
          /\ toGdb' \in Seq(Commands)
      BY <2>1, ReadFacts
    <3>2. Head(toGdb).watch \in Watches
      BY <3>1 DEF Commands
    <3> QED BY <3>1, <3>2
  <2>3. changed \in Values /\ nextObject \in Nat /\ target.frame \in Values
    BY DEF Types, Values
  <2>4. CASE Visible(w)
    <3>1. /\ Tell(Record("created", w, nextObject, changed)) /\ objects' = objects \cup {o}
          /\ nextObject' = nextObject + 1
      BY <1>5, <2>4 DEF GdbCreates
    <3>2. /\ fromGdb' \in Seq(Records)
          /\ \A q \in Printed' : q.kind = "stopped" => q.number \in 1..stops
      BY <1>1, <2>2, <2>3, <3>1, RecordsType DEF Record
    <3>3. o \in Objects
      BY <2>2, <2>3 DEF Objects
    <3>4. nextObject \in Nat \ {0} /\ nextObject' = nextObject + 1 /\ nextObject' \in Nat \ {0}
      BY <3>1 DEF Types
    <3>5. o.number = nextObject /\ o.told = changed
      OBVIOUS
    <3> HIDE DEF o
    <3>6. o.number \in 1..nextObject' - 1 /\ o.told <= changed
      BY <2>3, <3>4, <3>5 DEF Values
    <3>7. 1..nextObject - 1 \subseteq 1..nextObject' - 1
      BY <3>4
    <3>8. \A p \in objects : p.number \in 1..nextObject - 1 /\ p.told <= changed
      BY DEF Types
    <3>9. \A p \in objects' : p \in objects \/ p = o
      BY <3>1
    <3>10. \A p \in objects' : p.number \in 1..nextObject' - 1 /\ p.told <= changed
      BY <3>6, <3>7, <3>8, <3>9
    <3>11. objects' \subseteq Objects
      BY <3>3, <3>9 DEF Types
    <3> QED BY <2>1, <2>2, <3>2, <3>4, <3>10, <3>11 DEF Types, coordinator, analyzer
  <2>5. CASE ~ Visible(w)
    <3>1. Tell(Record("uncreated", w, 0, 0)) /\ UNCHANGED <<objects, nextObject>>
      BY <1>5, <2>5 DEF GdbCreates
    <3>2. /\ fromGdb' \in Seq(Records)
          /\ \A q \in Printed' : q.kind = "stopped" => q.number \in 1..stops
      BY <1>1, <2>2, <3>1, RecordsType DEF Record
    <3> QED BY <2>1, <2>2, <3>1, <3>2 DEF Types, coordinator, analyzer
  <2> QED BY <2>4, <2>5
<1>6. CASE GdbUpdates
  <2>1. /\ Reads({"update"})
        /\ UNCHANGED <<slot, coordinator, analyzer, target, stops, changed, nextObject, at, spent>>
    BY <1>6 DEF GdbUpdates
  <2>2. toGdb' \in Seq(Commands)
    BY <2>1, ReadFacts
  <2>3. \/ Tell(Plain("error")) /\ UNCHANGED objects
        \/ /\ Tell(Changes(Listed))
           /\ objects' = {IF Alive(o) THEN [o EXCEPT !.told = changed] ELSE o : o \in objects}
    BY <1>6 DEF GdbUpdates, Listed
  <2>4. /\ fromGdb' \in Seq(Records)
        /\ \A q \in Printed' : q.kind = "stopped" => q.number \in 1..stops
    BY <1>1, <2>3, RecordsType, ListedType DEF Plain, Record
  <2>5. objects' \subseteq Objects /\ \A o \in objects' : o.number \in 1..nextObject - 1 /\ o.told <= changed
    <3>1. changed \in Values /\ changed \in Nat
      BY DEF Types, Values
    <3>2. ASSUME NEW o \in objects
          PROVE  LET p == [o EXCEPT !.told = changed]
                 IN p \in Objects /\ p.number = o.number /\ p.told = changed
      <4>1. o \in Objects
        BY DEF Types
      <4> QED BY <3>1, <4>1 DEF Objects
    <3>3. \A q \in objects' : \E o \in objects : q = o \/ q = [o EXCEPT !.told = changed]
      BY <2>3
    <3>4. ASSUME NEW q \in objects'
          PROVE  q \in Objects /\ q.number \in 1..nextObject - 1 /\ q.told <= changed
      <4>1. PICK o \in objects : q = o \/ q = [o EXCEPT !.told = changed]
        BY <3>3
      <4>2. o \in Objects /\ o.number \in 1..nextObject - 1 /\ o.told <= changed
        BY DEF Types
      <4>3. CASE q = o
        BY <4>2, <4>3
      <4>4. CASE q = [o EXCEPT !.told = changed]
        <5>1. q \in Objects /\ q.number = o.number /\ q.told = changed
          BY <3>2, <4>4
        <5>2. q.told <= changed
          BY <3>1, <5>1
        <5> QED BY <4>2, <5>1, <5>2
      <4> QED BY <4>1, <4>3, <4>4
    <3> QED BY <3>4
  <2> QED BY <2>1, <2>2, <2>4, <2>5 DEF Types, coordinator, analyzer
<1>7. CASE GdbDeletes
  <2>1. /\ Reads({"delete"}) /\ objects' \subseteq objects
        /\ UNCHANGED <<slot, coordinator, analyzer, fromGdb, target, stops, changed, nextObject, at, spent>>
    BY <1>7 DEF GdbDeletes
  <2>2. toGdb' \in Seq(Commands)
    BY <2>1, ReadFacts
  <2> QED BY <2>1, <2>2 DEF Types, coordinator, analyzer, Printed
<1> QED BY <1>2, <1>3, <1>4, <1>5, <1>6, <1>7, <1>8 DEF Gdb

LEMMA TypesTarget ==
  ASSUME Types, Target
  PROVE  Types'
<1> USE Bounded DEF slot
<1>1. CASE TargetExits
  <2>1. fromGdb' \in Seq(Records) /\ Printed' = Printed \cup {Plain("exited")}
    BY <1>1, RecordsType, TellFacts DEF TargetExits
  <2>2. \A q \in Printed' : q.kind = "stopped" => q.number \in 1..stops
    BY <2>1 DEF Types, Plain, Record
  <2> QED BY <1>1, <2>1, <2>2 DEF TargetExits, Types, coordinator, analyzer
<1>2. ASSUME NEW changes \in BOOLEAN, NEW blocked \in BOOLEAN,
             NEW mapped \in BOOLEAN, TargetStops(changes, blocked, mapped)
      PROVE  Types'
  <2>1. /\ stops < MaxStops /\ stops' = stops + 1 /\ changed' \in {stops', changed}
        /\ UNCHANGED <<slot, coordinator, analyzer, toGdb, objects, nextObject, at, spent>>
        /\ Tell(Stopped(stops', mapped))
    BY <1>2 DEF TargetStops
  <2>2. PICK f \in {target.frame, 0, stops'} :
          target' = [status |-> "stopped", frame |-> f, blocked |-> blocked]
    BY <1>2 DEF TargetStops
  <2>3. /\ stops' \in Values /\ stops' \in 1..stops' /\ stops <= stops' /\ stops \in Nat
        /\ changed' \in 0..stops' /\ changed <= changed' /\ at \in 0..stops'
    BY <2>1 DEF Types, Values
  <2>4. fromGdb' \in Seq(Records) /\ Printed' = Printed \cup {Stopped(stops', mapped)}
    BY <2>1, <2>3, RecordsType, TellFacts
  <2>5. \A q \in Printed' : q.kind = "stopped" => q.number \in 1..stops'
    <3>1. Stopped(stops', mapped).number = stops'
      BY <2>3, RecordsType
    <3> QED BY <2>3, <2>4, <3>1 DEF Types
  <2>6. ASSUME NEW o \in objects
        PROVE  o.told <= changed'
    <3>1. o \in Objects /\ o.told <= changed
      BY DEF Types
    <3>2. o.told \in Nat
      BY <3>1 DEF Objects, Values
    <3>3. changed \in Nat /\ changed' \in Nat
      BY <2>3 DEF Types, Values
    <3> QED BY <2>3, <3>1, <3>2, <3>3
  <2>7. f \in Values
    BY <2>3 DEF Types
  <2> QED BY <2>1, <2>2, <2>3, <2>4, <2>5, <2>6, <2>7 DEF Types, coordinator, analyzer
<1> QED BY <1>1, <1>2 DEF Target

LEMMA TypesInit ==
  ASSUME Init
  PROVE  Types
<1>1. Printed = {} /\ toGdb \in Seq(Commands) /\ fromGdb \in Seq(Records)
  BY ElementsFew DEF Init, Printed
<1>2. watched \in Seq(Watches)
  BY DEF Init
<1>3. watchOf \in [DOMAIN watchOf -> Watches] /\ DOMAIN watchOf \subseteq Nat
  <2>1. <<>> \in Seq(Watches) /\ DOMAIN <<>> = {}
    OBVIOUS
  <2>2. <<>> = [n \in DOMAIN <<>> |-> <<>>[n]]
    BY <2>1
  <2> QED BY <2>1, <2>2 DEF Init
<1>4. /\ \A r \in Printed : r.kind = "stopped" => r.number \in 1..stops
      /\ stops \in Values /\ changed \in 0..stops /\ at \in 0..stops /\ alert \in Values
  BY <1>1, Bounded DEF Init
<1>5. /\ objectOf \in [Watches -> Nat]
      /\ cells \in [Watches -> Values \cup {Unknown, Gone}]
  BY DEF Init
<1>6. target \in [status : {"none", "unattached", "running", "stopped", "over"},
                 frame : Values, blocked : BOOLEAN]
  BY Bounded DEF Init
<1>7. objects = {} /\ nextObject \in Nat \ {0} /\ state \in States
  BY DEF Init, States
<1>8. /\ asked \in BOOLEAN /\ synced \in BOOLEAN /\ located \in BOOLEAN
      /\ pending \in Nat /\ state # "sync_flushing" /\ target.status # "unattached"
  BY DEF Init
<1> QED BY <1>1, <1>2, <1>3, <1>4, <1>5, <1>6, <1>7, <1>8 DEF Types

LEMMA TypesStep ==
  ASSUME Types, [Next]_vars
  PROVE  Types'
<1>1. CASE UNCHANGED vars
  BY <1>1 DEF Types, vars, slot, coordinator, analyzer, gdb, Printed
<1> QED BY <1>1, TypesHandled, TypesUser, TypesGdb, TypesTarget DEF Next

THEOREM AlwaysTypes == Spec => []Types
<1>1. Init => Types
  BY TypesInit
<1>2. Types /\ [Next]_vars => Types'
  BY TypesStep
<1> QED BY <1>1, <1>2, PTL DEF Spec

(* Members hold what they are declared for. *)
THEOREM TypeCorrect == Spec => []TypeOK
<1>1. Types => TypeOK
  BY TypesTypeOK
<1> QED BY <1>1, AlwaysTypes, PTL

-----------------------------------------------------------------------------
(* What the records lead through: the status of the target, its last stop  *)
(* and whether it is blocked in MPI there, the value of the variables and  *)
(* the number of the next object.                                          *)
Statuses == {"none", "launching", "running", "stopped", "exited"}

Nodes == [state : Statuses, at : Nat, blocked : BOOLEAN, value : Nat, next : Nat]

Moves(a, r, c) ==
  /\ r.kind = "running" => a.state = "stopped" /\ c = [a EXCEPT !.state = "running"]
  /\ r.kind = "exited" => a.state = "running" /\ c = [a EXCEPT !.state = "exited"]
  /\ r.kind = "stopped" =>
       /\ a.state \in {"launching", "running"} /\ c.state = "stopped"
       /\ c.at = r.number /\ a.value <= c.value /\ c.next = a.next
  /\ r.kind = "created" => /\ r.number = a.next /\ r.value = a.value
                           /\ c = [a EXCEPT !.next = a.next + 1]
  /\ r.kind = "stack" => /\ a.state = "stopped" /\ c = a
                         /\ r.number = IF a.blocked THEN a.at ELSE 0
  /\ r.kind = "changes" => /\ \A x \in r.list : x.number < a.next /\ x.value = a.value
                           /\ c = a
  /\ r.kind \in {"registers", "error", "disassembly", "uncreated", "inserted"} => c = a

Leads(a, q, b) ==
  \E h \in [0..Len(q) -> Nodes] :
    /\ h[0] = a /\ h[Len(q)] = b
    /\ \A i \in 1..Len(q) : Moves(h[i - 1], q[i], h[i])

LEMMA LeadsNowhere ==
  ASSUME NEW a \in Nodes
  PROVE  Leads(a, <<>>, a) /\ \A b : Leads(a, <<>>, b) => b = a
<1>1. Len(<<>>) = 0
  OBVIOUS
<1>2. Leads(a, <<>>, a)
  <2> DEFINE h == [i \in 0..0 |-> a]
  <2>1. h \in [0..0 -> Nodes] /\ h[0] = a
    OBVIOUS
  <2>2. \A i \in 1..0 : FALSE
    OBVIOUS
  <2> HIDE DEF h
  <2> QED BY <1>1, <2>1, <2>2 DEF Leads
<1> QED BY <1>1, <1>2 DEF Leads

LEMMA LeadsTail ==
  ASSUME NEW a, NEW b, NEW S, NEW q \in Seq(S), q # <<>>, Leads(a, q, b)
  PROVE  \E c \in Nodes : a \in Nodes /\ Moves(a, Head(q), c) /\ Leads(c, Tail(q), b)
<1>1. PICK h \in [0..Len(q) -> Nodes] :
        /\ h[0] = a /\ h[Len(q)] = b
        /\ \A i \in 1..Len(q) : Moves(h[i - 1], q[i], h[i])
  BY DEF Leads
<1>2. /\ Len(q) \in Nat \ {0} /\ Len(Tail(q)) = Len(q) - 1 /\ Head(q) = q[1]
      /\ \A i \in 1..(Len(q) - 1) : Tail(q)[i] = q[i + 1]
  OBVIOUS
<1> DEFINE g == [i \in 0..(Len(q) - 1) |-> h[i + 1]]
<1>3. g \in [0..Len(Tail(q)) -> Nodes]
  BY <1>1, <1>2
<1>4. g[0] = h[1] /\ g[Len(Tail(q))] = b
  BY <1>1, <1>2
<1>5. ASSUME NEW i \in 1..Len(Tail(q)) PROVE Moves(g[i - 1], Tail(q)[i], g[i])
  <2>1. i + 1 \in 1..Len(q) /\ i \in 0..(Len(q) - 1) /\ i - 1 \in 0..(Len(q) - 1) /\ (i + 1) - 1 = i
    BY <1>2
  <2>2. g[i - 1] = h[i] /\ g[i] = h[i + 1] /\ Tail(q)[i] = q[i + 1]
    BY <1>2, <2>1
  <2>3. Moves(h[(i + 1) - 1], q[i + 1], h[i + 1])
    BY <1>1, <2>1
  <2> HIDE DEF g
  <2> QED BY <2>1, <2>2, <2>3
<1> HIDE DEF g
<1>6. Leads(h[1], Tail(q), b)
  BY <1>3, <1>4, <1>5 DEF Leads
<1>7. h[0] \in Nodes /\ h[1] \in Nodes /\ Moves(h[0], q[1], h[1])
  <2>1. 1 \in 1..Len(q) /\ 0 \in 0..Len(q) /\ 1 \in 0..Len(q) /\ 1 - 1 = 0
    BY <1>2
  <2>2. Moves(h[1 - 1], q[1], h[1])
    BY <1>1, <2>1
  <2> QED BY <1>1, <2>1, <2>2
<1> QED BY <1>1, <1>2, <1>6, <1>7

LEMMA LeadsAppend ==
  ASSUME NEW a, NEW b, NEW c \in Nodes, NEW S, NEW q \in Seq(S), NEW r \in S,
         Leads(a, q, b), Moves(b, r, c)
  PROVE  Leads(a, Append(q, r), c)
<1>1. PICK h \in [0..Len(q) -> Nodes] :
        /\ h[0] = a /\ h[Len(q)] = b
        /\ \A i \in 1..Len(q) : Moves(h[i - 1], q[i], h[i])
  BY DEF Leads
<1> DEFINE p == Append(q, r)
<1>2. /\ Len(q) \in Nat /\ Len(p) = Len(q) + 1 /\ p[Len(q) + 1] = r
      /\ \A i \in 1..Len(q) : p[i] = q[i]
  OBVIOUS
<1> HIDE DEF p
<1> DEFINE g == [i \in 0..Len(p) |-> IF i = Len(p) THEN c ELSE h[i]]
<1>3. g \in [0..Len(p) -> Nodes] /\ g[0] = a /\ g[Len(p)] = c
  BY <1>1, <1>2
<1>4. ASSUME NEW i \in 1..Len(p) PROVE Moves(g[i - 1], p[i], g[i])
  <2>1. CASE i = Len(p)
    <3>1. g[i] = c /\ g[i - 1] = b /\ p[i] = r
      BY <1>1, <1>2, <2>1
    <3> HIDE DEF g
    <3> QED BY <3>1
  <2>2. CASE i # Len(p)
    <3>1. i \in 1..Len(q) /\ g[i] = h[i] /\ g[i - 1] = h[i - 1] /\ p[i] = q[i]
      BY <1>2, <2>2
    <3>2. Moves(h[i - 1], q[i], h[i])
      BY <1>1, <3>1
    <3> HIDE DEF g
    <3> QED BY <3>1, <3>2
  <2> QED BY <2>1, <2>2
<1> HIDE DEF g
<1> QED BY <1>3, <1>4 DEF Leads, p

(* The value of the variables never goes back. *)
LEMMA MovesValue ==
  ASSUME NEW a \in Nodes, NEW c \in Nodes, NEW r \in Records, Moves(a, r, c)
  PROVE  a.value <= c.value /\ a.next <= c.next
BY DEF Nodes, Records, Kinds, Moves

LEMMA LeadsValue ==
  ASSUME NEW a, NEW b, NEW q \in Seq(Records), Leads(a, q, b)
  PROVE  a \in Nodes /\ b \in Nodes /\ a.value <= b.value /\ a.next <= b.next
<1>1. PICK h \in [0..Len(q) -> Nodes] :
        /\ h[0] = a /\ h[Len(q)] = b
        /\ \A i \in 1..Len(q) : Moves(h[i - 1], q[i], h[i])
  BY DEF Leads
<1>2. Len(q) \in Nat /\ \A i \in 1..Len(q) : q[i] \in Records
  OBVIOUS
<1>3. a \in Nodes /\ b \in Nodes
  BY <1>1, <1>2
<1> DEFINE Low == {i \in 0..Len(q) : ~ (a.value <= h[i].value /\ a.next <= h[i].next)}
<1>4. Low = {}
  <2> SUFFICES ASSUME Low # {} PROVE FALSE
    OBVIOUS
  <2>1. PICK i \in Low : \A j \in Low : i <= j
    <3>1. Low \subseteq Nat
      BY <1>2
    <3> QED BY <3>1, SmallestNumber
  <2>2. i # 0
    BY <1>1, <1>3, <2>1 DEF Nodes
  <2>3. i \in 1..Len(q) /\ i - 1 \in 0..Len(q) /\ i - 1 \notin Low
    <3>1. i \in 1..Len(q) /\ i - 1 \in 0..Len(q) /\ ~ (i <= i - 1)
      BY <1>2, <2>1, <2>2
    <3> HIDE DEF Low
    <3> QED BY <2>1, <3>1
  <2>4. h[i - 1] \in Nodes /\ h[i] \in Nodes /\ h[i - 1].value <= h[i].value
        /\ h[i - 1].next <= h[i].next
    BY <1>1, <1>2, <2>3, MovesValue
  <2>5. a.value <= h[i - 1].value /\ a.next <= h[i - 1].next
    BY <2>3
  <2>6. a.value <= h[i].value /\ a.next <= h[i].next
    <3> DEFINE x == h[i - 1]  y == h[i]
    <3>1. x \in Nodes /\ y \in Nodes /\ x.value <= y.value /\ x.next <= y.next
      BY <2>4
    <3>2. a.value <= x.value /\ a.next <= x.next
      BY <2>5
    <3> HIDE DEF x, y
    <3>3. /\ {a.value, x.value, y.value} \subseteq Nat
          /\ {a.next, x.next, y.next} \subseteq Nat
      BY <1>3, <3>1 DEF Nodes
    <3>4. a.value <= y.value
      BY <3>1, <3>2, <3>3
    <3>5. a.next <= y.next
      BY <3>1, <3>2, <3>3
    <3> QED BY <3>4, <3>5 DEF y
  <2> QED BY <2>1, <2>6
<1>5. Len(q) \in 0..Len(q)
  BY <1>2
<1> QED BY <1>1, <1>3, <1>4, <1>5

(* A stop is left by running on only. *)
LEMMA LeadsRunning ==
  ASSUME NEW a, NEW b, NEW q \in Seq(Records), Leads(a, q, b),
         a.state = "stopped", b.state # "stopped"
  PROVE  \E r \in Elements(q) : r.kind = "running"
<1>1. PICK h \in [0..Len(q) -> Nodes] :
        /\ h[0] = a /\ h[Len(q)] = b
        /\ \A i \in 1..Len(q) : Moves(h[i - 1], q[i], h[i])
  BY DEF Leads
<1>2. Len(q) \in Nat /\ DOMAIN q = 1..Len(q) /\ \A i \in 1..Len(q) : q[i] \in Records
  OBVIOUS
<1> DEFINE Left == {i \in 0..Len(q) : h[i].state # "stopped"}
<1>3. Left \subseteq Nat /\ Left # {}
  BY <1>1, <1>2
<1>4. PICK i \in Left : \A j \in Left : i <= j
  BY <1>3, SmallestNumber
<1>5. i \in 1..Len(q) /\ i - 1 \in 0..Len(q) /\ i - 1 \notin Left
  <2>1. i # 0
    BY <1>1, <1>4
  <2>2. i \in 1..Len(q) /\ i - 1 \in 0..Len(q) /\ ~ (i <= i - 1)
    BY <1>2, <1>4, <2>1
  <2> HIDE DEF Left
  <2> QED BY <1>4, <2>2
<1>6. /\ h[i - 1] \in Nodes /\ h[i - 1].state = "stopped" /\ h[i].state # "stopped"
      /\ Moves(h[i - 1], q[i], h[i]) /\ q[i] \in Records
  BY <1>1, <1>2, <1>4, <1>5
<1>7. q[i].kind = "running"
  BY <1>6 DEF Moves, Records, Kinds, Nodes
<1> QED BY <1>2, <1>5, <1>7 DEF Elements

-----------------------------------------------------------------------------
(* Where the coordinator stands on the way the records lead, and where the *)
(* way ends: at what is true of gdb and of the target.  The coordinator    *)
(* may take a stopped target for running, or flush its breakpoints.        *)
Ends(last) ==
  /\ last.value = changed /\ last.next = nextObject
  /\ target.status = "none" => last.state = "none"
  /\ target.status = "unattached" => last.state = "launching"
  /\ target.status = "running" => last.state = "running"
  /\ target.status = "over" => last.state = "exited"
  /\ target.status = "stopped" =>
       last.state = "stopped" /\ last.at = stops /\ last.blocked = target.blocked

Way(now, last) ==
  /\ now \in Nodes /\ now.at = at
  /\ state = "stopped" => now.state = "stopped" /\ at # 0
  /\ state = "sync_flushing" => now.state = "stopped"
  /\ now.state = "launching" => ~ synced
  /\ last \in Nodes /\ Ends(last) /\ Leads(now, fromGdb, last)

LEMMA WayHandled ==
  ASSUME Types, NEW now, NEW last, Way(now, last), Handle
  PROVE  \E n2 \in Nodes : /\ fromGdb # <<>> /\ Head(fromGdb) \in Records
                           /\ Moves(now, Head(fromGdb), n2) /\ Way(n2, last)'
<1> DEFINE r == Head(fromGdb)
<1>1. PICK kind : Take(kind)
  BY DEF Handle, Stop, HandleFirstStop, HandleUnmappedStop, HandleStopped, HandleRunning,
         HandleExited, HandleText, HandleDisassembly, HandleCreated, HandleUncreated,
         HandleChanges, HandleStack, HandleInserted
<1>2. fromGdb # <<>> /\ r \in Records /\ fromGdb' = Tail(fromGdb)
  BY <1>1, TakeFacts
<1>3. fromGdb \in Seq(Records) /\ Leads(now, fromGdb, last)
  BY DEF Types, Way
<1>4. PICK n2 \in Nodes : Moves(now, r, n2) /\ Leads(n2, Tail(fromGdb), last)
  BY <1>2, <1>3, LeadsTail
<1>5. Ends(last)'
  <2>1. UNCHANGED gdb
    BY DEF Handle, Stop, HandleFirstStop, HandleUnmappedStop, HandleStopped, HandleRunning,
           HandleExited, HandleText, HandleDisassembly, HandleCreated, HandleUncreated,
           HandleChanges, HandleStack, HandleInserted
  <2> QED BY <2>1 DEF gdb, Way, Ends
<1>6. /\ n2.at = at' /\ (state' = "stopped" => n2.state = "stopped" /\ at' # 0)
      /\ state' = "sync_flushing" => n2.state = "stopped"
      /\ n2.state = "launching" => ~ synced'
  <2>0. /\ now \in Nodes /\ now.at = at /\ (state = "stopped" => now.state = "stopped" /\ at # 0)
        /\ state = "sync_flushing" => now.state = "stopped"
        /\ now.state = "launching" => ~ synced
    BY DEF Way
  <2>1. CASE Stop
    <3>1. r.kind = "stopped" /\ r.number \in 1..stops /\ at' = r.number
      BY <2>1, StopFacts
    <3>2. n2.state = "stopped" /\ n2.at = r.number
      BY <1>4, <3>1 DEF Moves
    <3> QED BY <3>1, <3>2
  <2>2. CASE HandleRunning
    <3>1. r.kind = "running" /\ state' = "running" /\ at' = at
      BY <2>2 DEF HandleRunning, Take
    <3> QED BY <1>4, <2>0, <3>1 DEF Moves, Nodes
  <2>3. CASE HandleExited
    <3>1. r.kind = "exited" /\ state' = "exited" /\ at' = at
      BY <2>3 DEF HandleExited, Take
    <3> QED BY <1>4, <2>0, <3>1 DEF Moves, Nodes
  <2>4. CASE /\ r.kind \in {"registers", "error", "disassembly", "uncreated", "created", "changes",
                            "stack", "inserted"}
             /\ state' = state \/ state' = "running"
             /\ at' = at /\ synced' = synced
    BY <1>4, <2>0, <2>4 DEF Moves, Nodes
  <2>5. CASE HandleText
    BY <2>4, <2>5 DEF HandleText, Take, slot
  <2>6. CASE HandleDisassembly
    BY <2>4, <2>6 DEF HandleDisassembly, Take, slot
  <2>7. CASE HandleCreated
    BY <2>4, <2>7 DEF HandleCreated, Take, slot
  <2>8. CASE HandleUncreated
    BY <2>4, <2>8 DEF HandleUncreated, Take, slot
  <2>9. CASE HandleChanges
    BY <2>4, <2>9 DEF HandleChanges, Take, slot
  <2>10. CASE HandleStack
    BY <2>4, <2>10 DEF HandleStack, Take, slot
  <2>11. CASE HandleInserted
    BY <2>4, <2>11, InsertedFacts DEF Take
  <2>12. HandleFirstStop \/ HandleUnmappedStop \/ HandleStopped => Stop
    BY DEF HandleFirstStop, HandleUnmappedStop, HandleStopped
  <2> QED BY <2>1, <2>2, <2>3, <2>5, <2>6, <2>7, <2>8, <2>9, <2>10, <2>11, <2>12 DEF Handle
<1> HIDE DEF r
<1>7. Way(n2, last)'
  BY <1>2, <1>4, <1>5, <1>6 DEF Way
<1> QED BY <1>2, <1>4, <1>7 DEF r

(* What gdb or the target prints leads on to what is true after it. *)
LEMMA WayTold ==
  ASSUME Types, NEW now, NEW last, Way(now, last), NEW r \in Records, Tell(r),
         NEW l2 \in Nodes, Moves(last, r, l2), Ends(l2)', UNCHANGED <<state, synced, at>>
  PROVE  Way(now, l2)'
<1>1. fromGdb \in Seq(Records) /\ Leads(now, fromGdb, last)
  BY DEF Types, Way
<1>2. Leads(now, Append(fromGdb, r), l2)
  BY <1>1, LeadsAppend
<1> QED BY <1>2 DEF Way, Tell

LEMMA WayGdb ==
  ASSUME Types, NEW now, NEW last, Way(now, last), Gdb
  PROVE  \E l2 \in Nodes : Way(now, l2)'
<1>0. /\ last \in Nodes /\ Ends(last) /\ UNCHANGED <<state, synced, at>>
      /\ changed \in Nat /\ nextObject \in Nat /\ stops \in Nat
  <2>1. UNCHANGED <<slot, at>>
    BY DEF Gdb, GdbConnects, GdbContinues, GdbInserts, GdbAnswers, GdbCreates, GdbUpdates,
           GdbDeletes
  <2>2. changed \in Nat /\ nextObject \in Nat /\ stops \in Nat
    BY Bounded DEF Types, Values
  <2> QED BY <2>1, <2>2 DEF Way, slot
<1>1. ASSUME NEW r \in Records, Tell(r), Moves(last, r, last), Ends(last)'
      PROVE  Way(now, last)'
  BY <1>0, <1>1, WayTold
<1>2. CASE GdbConnects
  <2>1. PICK n \in Nat, blocked \in BOOLEAN : n = stops /\ blocked = target.blocked
    BY <1>0 DEF Types
  <2> DEFINE l2 == [last EXCEPT !.state = "stopped", !.at = n, !.blocked = blocked]
             r == Stopped(n, FALSE)
  <2>2. /\ l2 \in Nodes /\ l2.state = "stopped" /\ l2.at = n /\ l2.blocked = blocked
        /\ l2.value = last.value /\ l2.next = last.next
    BY <1>0 DEF Nodes, Statuses
  <2>3. /\ Tell(r) /\ r \in Records /\ r.kind = "stopped" /\ r.number = n
    BY <1>2, <2>1, RecordsType DEF GdbConnects, Types
  <2>4. last.state = "launching" /\ last.value = changed /\ last.next = nextObject
    BY <1>0, <1>2 DEF GdbConnects, Ends
  <2>5. /\ target'.status = "stopped" /\ target'.blocked = target.blocked
        /\ UNCHANGED <<stops, changed, nextObject>>
    BY <1>2 DEF GdbConnects, Types
  <2> HIDE DEF l2, r
  <2>6. Ends(l2)'
    BY <2>1, <2>2, <2>4, <2>5 DEF Ends
  <2>7. last.value \in Nat
    BY <1>0 DEF Nodes
  <2>8. Moves(last, r, l2)
    BY <2>2, <2>3, <2>4, <2>7 DEF Moves
  <2> QED BY <1>0, <2>2, <2>3, <2>6, <2>8, WayTold
<1>8. CASE GdbInserts
  <2>1. Tell(Plain("error")) \/ Tell(Plain("inserted"))
    BY <1>8 DEF GdbInserts
  <2>2. \A kind \in {"error", "inserted"} : Plain(kind) \in Records /\ Moves(last, Plain(kind), last)
    BY RecordsType DEF Moves, Plain, Record
  <2>3. Ends(last)'
    BY <1>0, <1>8 DEF GdbInserts, gdb, Ends
  <2> QED BY <1>0, <1>1, <2>1, <2>2, <2>3
<1>3. CASE GdbContinues
  <2>1. CASE Halted
    <3> DEFINE l2 == [last EXCEPT !.state = "running"]
    <3>1. l2 \in Nodes
      BY <1>0 DEF Nodes, Statuses
    <3>2. Tell(Plain("running")) /\ Plain("running") \in Records
      BY <1>3, <2>1, RecordsType DEF GdbContinues
    <3>3. Moves(last, Plain("running"), l2)
      BY <1>0, <1>3, <2>1 DEF GdbContinues, Halted, Ends, Moves, Plain, Record
    <3>4. Ends(l2)'
      BY <1>0, <1>3, <2>1 DEF GdbContinues, Ends, Nodes, Types
    <3> QED BY <1>0, <3>1, <3>2, <3>3, <3>4, WayTold
  <2>2. CASE ~ Halted
    <3>1. Tell(Plain("error")) /\ Plain("error") \in Records
      BY <1>3, <2>2, RecordsType DEF GdbContinues
    <3>2. Moves(last, Plain("error"), last)
      BY DEF Moves, Plain, Record
    <3>3. Ends(last)'
      BY <1>0, <1>3, <2>2 DEF GdbContinues, Ends
    <3> QED BY <1>0, <1>1, <3>1, <3>2, <3>3
  <2> QED BY <2>1, <2>2
<1>4. CASE GdbAnswers
  <2>1. Tell(Answered) /\ Answered \in Records
    BY <1>4, AnsweredType DEF GdbAnswers, Answered
  <2>2. Ends(last)'
    BY <1>0, <1>4 DEF GdbAnswers, gdb, Ends
  <2>3. Moves(last, Answered, last)
    <3>1. \/ Answered \in {Plain("disassembly"), Plain("error"), Plain("registers")}
          \/ Halted /\ Answered = Stack(IF target.blocked THEN stops ELSE 0)
      BY DEF Answered
    <3>2. Halted => last.state = "stopped" /\ last.at = stops /\ last.blocked = target.blocked
      BY <1>0 DEF Halted, Ends
    <3> QED BY <3>1, <3>2 DEF Moves, Plain, Stack, Record
  <2> QED BY <1>0, <1>1, <2>1, <2>2, <2>3
<1>5. CASE GdbCreates
  <2> DEFINE w == Head(toGdb).watch
  <2>1. w \in Watches
    <3>1. Reads({"create"})
      BY <1>5 DEF GdbCreates
    <3>2. Head(toGdb) \in Commands /\ Head(toGdb).name = "create"
      BY <3>1, ReadFacts
    <3> QED BY <3>2 DEF Commands
  <2>2. CASE Visible(w)
    <3> DEFINE l2 == [last EXCEPT !.next = last.next + 1]
               r == Record("created", w, nextObject, changed)
    <3>1. l2 \in Nodes
      BY <1>0 DEF Nodes
    <3>2. Tell(r) /\ r \in Records
      <4>1. Tell(r)
        BY <1>5, <2>2 DEF GdbCreates
      <4>2. changed \in Values
        BY Bounded DEF Types, Values
      <4>3. r \in Records
        BY <1>0, <2>1, <4>2, RecordsType
      <4> QED BY <4>1, <4>3
    <3>3. Moves(last, r, l2)
      BY <1>0 DEF Ends, Moves, Record
    <3>4. Ends(l2)'
      BY <1>0, <1>5, <2>2 DEF GdbCreates, Ends, Nodes
    <3> QED BY <1>0, <3>1, <3>2, <3>3, <3>4, WayTold
  <2>3. CASE ~ Visible(w)
    <3> DEFINE r == Record("uncreated", w, 0, 0)
    <3>1. Tell(r) /\ r \in Records
      BY <1>5, <2>1, <2>3, RecordsType DEF GdbCreates
    <3>2. Moves(last, r, last)
      BY DEF Moves, Record
    <3>3. Ends(last)'
      BY <1>0, <1>5, <2>3 DEF GdbCreates, Ends
    <3> QED BY <1>0, <1>1, <3>1, <3>2, <3>3
  <2> QED BY <2>2, <2>3
<1>6. CASE GdbUpdates
  <2>1. Ends(last)'
    BY <1>0, <1>6 DEF GdbUpdates, Ends
  <2>2. Tell(Plain("error")) \/ Tell(Changes(Listed))
    BY <1>6 DEF GdbUpdates, Listed
  <2>3. Plain("error") \in Records /\ Moves(last, Plain("error"), last)
    BY RecordsType DEF Moves, Plain, Record
  <2>4. Changes(Listed) \in Records /\ Moves(last, Changes(Listed), last)
    <3>1. /\ Changes(Listed) \in Records
          /\ Changes(Listed).kind = "changes" /\ Changes(Listed).list = Listed
      BY ListedType, RecordsType
    <3>2. \A x \in Listed : x.number < last.next /\ x.value = last.value
      BY <1>0 DEF Listed, Types, Ends
    <3> QED BY <3>1, <3>2 DEF Moves
  <2> QED BY <1>0, <1>1, <2>1, <2>2, <2>3, <2>4
<1>7. CASE GdbDeletes
  BY <1>7 DEF GdbDeletes, Way, Ends, slot
<1> QED BY <1>2, <1>3, <1>4, <1>5, <1>6, <1>7, <1>8 DEF Gdb

LEMMA WayTarget ==
  ASSUME Types, NEW now, NEW last, Way(now, last), Target
  PROVE  \E l2 \in Nodes : Way(now, l2)'
<1>0. /\ last \in Nodes /\ Ends(last) /\ UNCHANGED <<state, synced, at>>
      /\ changed \in Nat /\ stops \in Nat
  BY Bounded DEF Way, Types, Target, TargetExits, TargetStops, Values, slot
<1>1. CASE TargetExits
  <2> DEFINE l2 == [last EXCEPT !.state = "exited"]
  <2>1. l2 \in Nodes
    BY <1>0 DEF Nodes, Statuses
  <2>2. Tell(Plain("exited")) /\ Plain("exited") \in Records
    BY <1>1, RecordsType DEF TargetExits
  <2>3. Moves(last, Plain("exited"), l2)
    BY <1>0, <1>1 DEF TargetExits, Ends, Moves, Plain, Record
  <2>4. Ends(l2)'
    BY <1>0, <1>1 DEF TargetExits, Ends, Nodes, Types
  <2> QED BY <1>0, <2>1, <2>2, <2>3, <2>4, WayTold
<1>2. ASSUME NEW changes \in BOOLEAN, NEW blocked \in BOOLEAN,
             NEW mapped \in BOOLEAN, TargetStops(changes, blocked, mapped)
      PROVE  \E l2 \in Nodes : Way(now, l2)'
  <2>1. /\ target.status = "running" /\ stops' = stops + 1 /\ stops < MaxStops
        /\ changed' \in {stops', changed} /\ nextObject' = nextObject
        /\ Tell(Stopped(stops', mapped))
        /\ target'.status = "stopped" /\ target'.blocked = blocked
    BY <1>2 DEF TargetStops
  <2>2. PICK n, v : n = stops' /\ v = changed'
    OBVIOUS
  <2>3. n \in Values /\ n \in Nat /\ v \in Nat /\ changed <= v
    <3>1. n = stops + 1 /\ v \in {n, changed} /\ stops < MaxStops /\ changed \in 0..stops
      BY <2>1, <2>2 DEF Types
    <3> QED BY <1>0, <3>1, Bounded DEF Values
  <2> DEFINE l2 == [state |-> "stopped", at |-> n, blocked |-> blocked, value |-> v,
                    next |-> last.next]
  <2>4. l2 \in Nodes
    BY <1>0, <2>3 DEF Nodes, Statuses
  <2>5. LET r == Stopped(n, mapped) IN r \in Records /\ r.kind = "stopped" /\ r.number = n
    BY <2>3, RecordsType
  <2>6. Moves(last, Stopped(n, mapped), l2)
    BY <1>0, <2>1, <2>3, <2>5 DEF Ends, Moves
  <2>7. Ends(l2)'
    BY <1>0, <2>1, <2>2 DEF Ends
  <2> QED BY <1>0, <2>1, <2>2, <2>4, <2>5, <2>6, <2>7, WayTold
<1> QED BY <1>1, <1>2 DEF Target

(* What handling a record leaves. *)
LEMMA HandleSteps ==
  ASSUME Types, Handle
  PROVE  /\ Head(fromGdb) \in Records /\ Printed = {Head(fromGdb)} \cup Printed'
         /\ Written \subseteq Written' /\ UNCHANGED gdb
         /\ \/ HandleCreated \/ HandleUncreated \/ HandleChanges
            \/ /\ UNCHANGED <<watchOf, cells>>
               /\ Head(fromGdb).kind \in {"stopped", "running", "exited", "registers", "error",
                                          "disassembly", "stack", "inserted"}
<1>1. CASE HandleStopped
  <2>1. Stop
    BY <1>1 DEF HandleStopped
  <2> QED BY <1>1, <2>1, StoppedAsks, StopFacts DEF coordinator
<1>11. CASE Silent
  BY <1>11, SilentFacts, StopFacts DEF coordinator
<1>12. CASE HandleInserted
  BY <1>12, InsertedFacts, TakeFacts DEF coordinator
<1>2. CASE HandleRunning
  BY <1>2, TakeFacts DEF HandleRunning, coordinator, Written
<1>3. CASE HandleExited
  BY <1>3, TakeFacts DEF HandleExited, coordinator, Written
<1>4. CASE HandleText
  BY <1>4, AnswerAsks, TakeFacts DEF HandleText, coordinator
<1>5. CASE HandleDisassembly
  BY <1>5, DisassemblyAsks, TakeFacts DEF HandleDisassembly, coordinator
<1>6. CASE HandleCreated
  BY <1>6, AnswerAsks, TakeFacts DEF HandleCreated
<1>7. CASE HandleUncreated
  BY <1>7, AnswerAsks, TakeFacts DEF HandleUncreated
<1>8. CASE HandleChanges
  <2> DEFINE known == {c \in Head(fromGdb).list : c.number \in DOMAIN watchOf}
             dead == {c.number : c \in {d \in known : ~ d.alive}}
  <2>1. dead \in SUBSET Nat
    BY <1>8, ChangesType
  <2>2. \/ UNCHANGED toGdb
        \/ toGdb' = toGdb \o (IF dead = {} THEN <<>> ELSE <<Delete(dead)>>)
                          \o AnalyzerAsks(state)
    BY <1>8 DEF HandleChanges
  <2> HIDE DEF known, dead
  <2>3. Written \subseteq Written'
    BY <2>1, <2>2, ChangesAsks DEF Written
  <2> QED BY <1>8, <2>3, TakeFacts DEF HandleChanges
<1>9. CASE HandleStack
  BY <1>9, TakeFacts DEF HandleStack, coordinator, Written
<1> QED BY <1>1, <1>2, <1>3, <1>4, <1>5, <1>6, <1>7, <1>8, <1>9,
          <1>11, <1>12 DEF Handle, Silent

-----------------------------------------------------------------------------
(* The alert.  It is what the last stack was about, unless another is      *)
(* asked for; that one is on its way, or the rank runs again.  There is    *)
(* none once the target was heard to run.                                  *)
Asks(name)   == \E c \in Written : c.name = name
Prints(kind) == \E r \in Printed : r.kind = kind

AlertKept(now) ==
  /\ now.state = "running" => ~ asked /\ alert = 0
  /\ state = "stopped" =>
       /\ alert \in {0, at}
       /\ asked \/ alert = (IF now.blocked THEN at ELSE 0)
       /\ asked => Asks("stack") \/ Prints("stack") \/ Prints("running")

(* An announcement of a stopped rank asks again. *)
LEMMA AlertAnnounced ==
  ASSUME NEW now, NEW n2, AlertKept(now), Announce(state), state' = state, at' = at,
         n2.state = now.state, state = "stopped" => now.state = "stopped",
         state = "stopped" => Ask("stack") \in Written'
  PROVE  AlertKept(n2)'
<1>1. Ask("stack").name = "stack"
  BY DEF Ask, Command
<1>2. state = "stopped" => Asks("stack")'
  BY <1>1 DEF Asks
<1> QED BY <1>2 DEF AlertKept, Announce

(* Which records leave the status as it is. *)
LEMMA MovesState ==
  ASSUME NEW now \in Nodes, NEW n2 \in Nodes, NEW r \in Records, Moves(now, r, n2),
         r.kind \notin {"stopped", "running", "exited"}
  PROVE  n2.state = now.state
BY DEF Moves, Nodes, Records, Kinds

LEMMA AlertHandled ==
  ASSUME Types, NEW now, NEW last, Way(now, last), AlertKept(now), Handle,
         NEW n2 \in Nodes, Moves(now, Head(fromGdb), n2)
  PROVE  AlertKept(n2)'
<1> DEFINE r == Head(fromGdb)
<1>0. /\ now \in Nodes /\ now.at = at /\ (state = "stopped" => now.state = "stopped")
      /\ now.state = "launching" => ~ synced
  BY DEF Way
<1>1. CASE HandleStopped
  <2>1. /\ r.kind = "stopped" /\ state' = "stopped" /\ Announce("stopped") /\ synced
    BY <1>1 DEF HandleStopped, Stop, Take
  <2>2. now.state = "running" /\ n2.state = "stopped"
    BY <1>0, <2>1 DEF Moves
  <2>3. Asks("stack")'
    <3>1. Ask("stack") \in Written' /\ Ask("stack").name = "stack"
      BY <1>1, StoppedAsks DEF Ask, Command
    <3> QED BY <3>1 DEF Asks
  <2>4. asked' = TRUE /\ alert' = alert /\ alert = 0
    BY <2>1, <2>2 DEF AlertKept, Announce
  <2> QED BY <2>1, <2>2, <2>3, <2>4 DEF AlertKept
<1>11. CASE Silent
  <2>1. r.kind = "stopped" /\ state' # "stopped"
    BY <1>11, SilentFacts, StopFacts
  <2>2. n2.state = "stopped"
    BY <2>1 DEF Moves
  <2> QED BY <2>1, <2>2 DEF AlertKept
<1>12. CASE HandleInserted
  <2>1. r.kind = "inserted" /\ at' = at
    BY <1>12, InsertedFacts DEF Take
  <2>2. n2 = now
    BY <1>0, <2>1 DEF Moves
  <2>3. CASE UNCHANGED analyzer /\ state' # "stopped"
    BY <2>2, <2>3 DEF AlertKept, analyzer
  <2>4. CASE state' = state /\ Announce(state) /\ toGdb' = toGdb \o AnalyzerAsks(state)
    BY <1>0, <2>1, <2>2, <2>4, AlertAnnounced, AnswerAsks
  <2> QED BY <1>12, <2>3, <2>4, InsertedFacts
<1>2. CASE HandleRunning
  BY <1>2 DEF HandleRunning, AlertKept, Announce
<1>3. CASE HandleExited
  <2>1. r.kind = "exited" /\ state' = "exited"
    BY <1>3 DEF HandleExited, Take
  <2>2. n2.state = "exited"
    BY <1>0, <2>1 DEF Moves, Nodes
  <2> QED BY <2>1, <2>2 DEF AlertKept
<1>10. r.kind \notin {"stopped", "running", "exited"} => n2.state = now.state
  BY <1>0, HandleSteps, MovesState
<1>4. CASE HandleText
  BY <1>0, <1>4, <1>10, AlertAnnounced, AnswerAsks DEF HandleText, Take, slot
<1>5. CASE HandleDisassembly
  BY <1>0, <1>5, <1>10, AlertAnnounced, DisassemblyAsks DEF HandleDisassembly, Take, slot
<1>6. CASE HandleCreated
  BY <1>0, <1>6, <1>10, AlertAnnounced, AnswerAsks DEF HandleCreated, Take, slot
<1>7. CASE HandleUncreated
  BY <1>0, <1>7, <1>10, AlertAnnounced, AnswerAsks DEF HandleUncreated, Take, slot
<1>8. CASE HandleChanges
  <2> DEFINE known == {c \in r.list : c.number \in DOMAIN watchOf}
             dead == {c.number : c \in {d \in known : ~ d.alive}}
  <2>1. Take("changes") /\ state' = state /\ at' = at
    BY <1>8 DEF HandleChanges, slot
  <2>2. IF known = {} THEN UNCHANGED <<analyzer, toGdb>>
        ELSE /\ Announce(state)
             /\ toGdb' = toGdb \o (IF dead = {} THEN <<>> ELSE <<Delete(dead)>>)
                               \o AnalyzerAsks(state)
    BY <1>8 DEF HandleChanges
  <2>3. dead \in SUBSET Nat
    BY <1>8, ChangesType
  <2>4. r.kind = "changes" /\ Printed = {r} \cup Printed'
    BY <2>1, TakeFacts
  <2>5. n2 = now
    BY <1>0, <2>4 DEF Moves
  <2> HIDE DEF known, dead, r
  <2>6. CASE known = {}
    <3>1. UNCHANGED <<asked, alert, Written>>
      BY <2>2, <2>6 DEF analyzer, Written
    <3>2. /\ Prints("stack") => Prints("stack")'
          /\ Prints("running") => Prints("running")'
      BY <2>4 DEF Prints
    <3>3. Asks("stack") => Asks("stack")'
      BY <3>1 DEF Asks
    <3>4. UNCHANGED <<state, at, analyzer>> /\ Printed' \subseteq Printed
      BY <2>1, <2>2, <2>4, <2>6
    <3>5. asked' = asked /\ alert' = alert /\ state' = state /\ at' = at
      BY <3>1, <3>4
    <3>6. n2.state = "running" => ~ asked' /\ alert' = 0
      BY <2>5, <3>5 DEF AlertKept
    <3>7. ASSUME state = "stopped"
          PROVE  /\ alert' \in {0, at'}
                 /\ asked' \/ alert' = (IF n2.blocked THEN at' ELSE 0)
                 /\ asked' => Asks("stack")' \/ Prints("stack")' \/ Prints("running")'
      <4>1. /\ alert' \in {0, at'}
            /\ asked' \/ alert' = (IF n2.blocked THEN at' ELSE 0)
        BY <2>5, <3>5, <3>7 DEF AlertKept
      <4>2. ~ asked \/ Asks("stack") \/ Prints("stack") \/ Prints("running")
        BY <3>7 DEF AlertKept
      <4>3. ~ asked' \/ Asks("stack")' \/ Prints("stack")' \/ Prints("running")'
        BY <3>2, <3>3, <3>5, <4>2
      <4> QED BY <4>1, <4>3
    <3> QED BY <3>5, <3>6, <3>7 DEF AlertKept, Asks, Prints
  <2>7. CASE known # {}
    <3>1. Announce(state)
      BY <2>2, <2>7
    <3>2. state = "stopped" => Ask("stack") \in Written'
      BY <2>2, <2>3, <2>7, ChangesAsks
    <3> QED BY <1>0, <2>1, <2>5, <3>1, <3>2, AlertAnnounced
  <2> QED BY <2>6, <2>7
<1>9. CASE HandleStack
  <2>1. /\ r.kind = "stack" /\ asked' = FALSE /\ alert' = (IF asked THEN r.number ELSE alert)
        /\ state' = state /\ at' = at
    BY <1>9 DEF HandleStack, Take, slot
  <2>2. n2 = now /\ now.state = "stopped" /\ r.number = IF now.blocked THEN at ELSE 0
    BY <1>0, <2>1 DEF Moves
  <2> QED BY <2>1, <2>2 DEF AlertKept
<1> QED BY <1>1, <1>2, <1>3, <1>4, <1>5, <1>6, <1>7, <1>8, <1>9,
          <1>11, <1>12 DEF Handle, Silent

(* Nothing else loses a question about the stack. *)
LEMMA AlertElse ==
  ASSUME NEW now, AlertKept(now), UNCHANGED <<state, at, analyzer>>, Printed \subseteq Printed',
         \/ Asks("stack") => Asks("stack")'
         \/ Prints("stack")'
         \/ state = "stopped" => Prints("running")'
  PROVE  AlertKept(now)'
<1>1. /\ Prints("stack") => Prints("stack")'
      /\ Prints("running") => Prints("running")'
  BY DEF Prints
<1>2. state' = state /\ at' = at /\ asked' = asked /\ alert' = alert
  BY DEF analyzer
<1>3. \/ ~ (Asks("stack") \/ Prints("stack") \/ Prints("running"))
      \/ state # "stopped"
      \/ Asks("stack")' \/ Prints("stack")' \/ Prints("running")'
  BY <1>1 DEF Asks, Prints
<1>4. now.state = "running" => ~ asked' /\ alert' = 0
  BY <1>2 DEF AlertKept
<1>5. ASSUME state = "stopped"
      PROVE  /\ alert' \in {0, at'}
             /\ asked' \/ alert' = (IF now.blocked THEN at' ELSE 0)
             /\ asked' => Asks("stack")' \/ Prints("stack")' \/ Prints("running")'
  BY <1>2, <1>3, <1>5 DEF AlertKept
<1> QED BY <1>2, <1>4, <1>5 DEF AlertKept

(* A target that was heard to stop and has not has printed that it runs. *)
LEMMA RunsAgain ==
  ASSUME Types, NEW now, NEW last, Way(now, last), now.state = "stopped", ~ Halted
  PROVE  Prints("running")
<1>1. last.state # "stopped"
  BY DEF Way, Ends, Halted, Types
<1>2. fromGdb \in Seq(Records)
  BY DEF Types
<1> QED BY <1>1, <1>2, LeadsRunning DEF Way, Prints, Printed

LEMMA AlertGdb ==
  ASSUME Types, NEW now, NEW last, Way(now, last), AlertKept(now), Gdb
  PROVE  AlertKept(now)'
<1>0. UNCHANGED <<state, at, analyzer>>
  BY DEF Gdb, GdbConnects, GdbContinues, GdbInserts, GdbAnswers, GdbCreates, GdbUpdates,
         GdbDeletes, slot
<1>1. CASE GdbConnects
  <2>1. Printed \subseteq Printed'
    <3>1. Stopped(stops, FALSE) \in Records
      BY RecordsType DEF Types
    <3> QED BY <1>1, <3>1, TellFacts DEF GdbConnects
  <2>2. UNCHANGED Written
    BY <1>1 DEF GdbConnects, Written
  <2> QED BY <1>0, <2>1, <2>2, AlertElse DEF Asks
<1>2. ASSUME NEW names, Reads(names), "stack" \notin names, Printed \subseteq Printed'
      PROVE  AlertKept(now)'
  <2>1. Head(toGdb).name # "stack" /\ Written = {Head(toGdb)} \cup Written'
    BY <1>2, ReadFacts
  <2>2. Asks("stack") => Asks("stack")'
    BY <2>1 DEF Asks
  <2> QED BY <1>0, <1>2, <2>2, AlertElse
<1>3. CASE GdbContinues
  <2>1. Reads({"continue"}) /\ (Tell(Plain("running")) \/ Tell(Plain("error")))
    BY <1>3 DEF GdbContinues
  <2>2. Printed \subseteq Printed'
    BY <2>1, RecordsType, TellFacts
  <2> QED BY <1>2, <2>1, <2>2
<1>8. CASE GdbInserts
  <2>1. Reads({"insert"}) /\ (Tell(Plain("error")) \/ Tell(Plain("inserted")))
    BY <1>8 DEF GdbInserts
  <2>2. Printed \subseteq Printed'
    BY <2>1, RecordsType, TellFacts
  <2> QED BY <1>2, <2>1, <2>2
<1>4. CASE GdbAnswers
  <2>1. Reads({"disassembly", "registers", "stack"}) /\ Tell(Answered)
    BY <1>4 DEF GdbAnswers, Answered
  <2>2. Printed' = Printed \cup {Answered}
    BY <2>1, AnsweredType, TellFacts
  <2>3. CASE Head(toGdb).name # "stack"
    <3>1. Asks("stack") => Asks("stack")'
      BY <2>1, <2>3, ReadFacts DEF Asks
    <3> QED BY <1>0, <2>2, <3>1, AlertElse
  <2>4. CASE Head(toGdb).name = "stack" /\ Halted
    <3>1. Answered.kind = "stack"
      BY <2>4 DEF Answered, Stack, Record
    <3>2. Prints("stack")'
      BY <2>2, <3>1 DEF Prints
    <3> QED BY <1>0, <2>2, <3>2, AlertElse
  <2>5. CASE ~ Halted
    <3>1. state = "stopped" => Prints("running")'
      BY <2>2, <2>5, RunsAgain DEF Prints, Way
    <3> QED BY <1>0, <2>2, <3>1, AlertElse
  <2> QED BY <2>3, <2>4, <2>5
<1>5. CASE GdbCreates
  <2> DEFINE w == Head(toGdb).watch
  <2>1. Reads({"create"})
    BY <1>5 DEF GdbCreates
  <2>2. Head(toGdb) \in Commands /\ Head(toGdb).name = "create"
    BY <2>1, ReadFacts
  <2>3. w \in Watches /\ changed \in Values /\ nextObject \in Nat
    BY <2>2, Bounded DEF Commands, Types, Values
  <2>4. \/ Tell(Record("created", w, nextObject, changed)) \/ Tell(Record("uncreated", w, 0, 0))
    BY <1>5 DEF GdbCreates
  <2>5. Printed \subseteq Printed'
    BY <2>3, <2>4, RecordsType, TellFacts
  <2> QED BY <1>2, <2>1, <2>5
<1>6. CASE GdbUpdates
  <2>1. Reads({"update"}) /\ (Tell(Plain("error")) \/ Tell(Changes(Listed)))
    BY <1>6 DEF GdbUpdates, Listed
  <2>2. Printed \subseteq Printed'
    BY <2>1, RecordsType, ListedType, TellFacts
  <2> QED BY <1>2, <2>1, <2>2
<1>7. CASE GdbDeletes
  <2>1. Reads({"delete"}) /\ Printed \subseteq Printed'
    BY <1>7 DEF GdbDeletes, Printed
  <2> QED BY <1>2, <2>1
<1> QED BY <1>1, <1>3, <1>4, <1>5, <1>6, <1>7, <1>8 DEF Gdb

(* A user's command is written behind the others, or the gdb is replaced. *)
LEMMA UserSteps ==
  ASSUME Types, User
  PROVE  \/ /\ UNCHANGED <<slot, objectOf, watchOf, cells, analyzer, fromGdb, gdb, at>>
            /\ Written \subseteq Written'
         \/ /\ at' = at /\ toGdb' = <<>> /\ fromGdb' = <<>> /\ objects' = {} /\ nextObject' = 1
            /\ synced' = FALSE
            /\ \/ state' = "none" /\ target'.status = "none"
               \/ state' = "launching" /\ target'.status = "unattached"
<1>1. CASE \E w \in Watches : RegisterWatchVariable(w)
  <2>1. PICK w \in Watches : RegisterWatchVariable(w)
    BY <1>1
  <2>2. toGdb' = toGdb \/ toGdb' = Append(toGdb, Create(w))
    BY <2>1 DEF RegisterWatchVariable
  <2>3. Written \subseteq Written'
    BY <2>2, CommandsType, AskOneFacts DEF Written
  <2> QED BY <2>1, <2>3 DEF RegisterWatchVariable
<1>2. CASE Resume
  BY <1>2, CommandsType, AskOneFacts DEF Resume, Names, coordinator
<1>3. CASE RequestDisassemblyFallback
  BY <1>3, CommandsType, AskOneFacts DEF RequestDisassemblyFallback, Names, coordinator
<1>4. CASE LaunchParallelSession
  BY <1>4 DEF LaunchParallelSession, Fresh
<1>5. CASE TerminateAllSessions
  BY <1>5 DEF TerminateAllSessions, Fresh
<1>6. CASE BroadcastBreakpoint
  BY <1>6, CommandsType, AskOneFacts DEF BroadcastBreakpoint, Names, coordinator
<1> QED BY <1>1, <1>2, <1>3, <1>4, <1>5, <1>6 DEF User

(* What the target does is printed, and nothing else of it is seen. *)
LEMMA TargetSteps ==
  ASSUME Types, Target
  PROVE  /\ UNCHANGED <<slot, coordinator, analyzer, toGdb, objects, nextObject, at>>
         /\ target.status = "running" /\ Printed \subseteq Printed'
         /\ \A r \in Printed' : r \in Printed \/ r.kind # "created"
         /\ changed' = changed \/ \A o \in objects : o.told < changed'
<1>1. CASE TargetExits
  <2>1. Tell(Plain("exited")) /\ Plain("exited") \in Records /\ Plain("exited").kind = "exited"
    BY <1>1, RecordsType DEF TargetExits, Plain, Record
  <2> QED BY <1>1, <2>1, TellFacts DEF TargetExits
<1>2. ASSUME NEW changes \in BOOLEAN, NEW blocked \in BOOLEAN,
             NEW mapped \in BOOLEAN, TargetStops(changes, blocked, mapped)
      PROVE  /\ UNCHANGED <<slot, coordinator, analyzer, toGdb, objects, nextObject, at>>
             /\ target.status = "running" /\ Printed \subseteq Printed'
             /\ \A r \in Printed' : r \in Printed \/ r.kind # "created"
             /\ changed' = changed \/ \A o \in objects : o.told < changed'
  <2>1. /\ Tell(Stopped(stops', mapped)) /\ stops' = stops + 1 /\ stops < MaxStops
        /\ changed' = IF changes THEN stops' ELSE changed
    BY <1>2 DEF TargetStops
  <2>2. stops' \in Values
    BY <2>1, Bounded DEF Types, Values
  <2>3. Stopped(stops', mapped) \in Records /\ Stopped(stops', mapped).kind = "stopped"
    BY <2>2, RecordsType
  <2>4. Printed' = Printed \cup {Stopped(stops', mapped)}
    BY <2>1, <2>3, TellFacts
  <2>5. \A o \in objects : o.told <= changed /\ o.told \in Nat
    BY Bounded DEF Types, Objects
  <2>6. changed <= stops /\ changed \in Nat /\ stops \in Nat
    BY Bounded DEF Types, Values
  <2>7. changed' = changed \/ \A o \in objects : o.told < changed'
    BY <2>1, <2>5, <2>6
  <2> QED BY <1>2, <2>3, <2>4, <2>7 DEF TargetStops
<1> QED BY <1>1, <1>2 DEF Target

-----------------------------------------------------------------------------
(* The release.  A rank taken for running was heard to run, or is about to *)
(* be: it is told to go on, whoever read its stop.                         *)
Released(now) ==
  state = "running" =>
    now.state = "running" \/ Prints("running") \/ (Halted /\ Asks("continue"))

LEMMA ReleasedElse ==
  ASSUME NEW now, Released(now), UNCHANGED state, Printed \subseteq Printed',
         \/ Halted => Halted' /\ (Asks("continue") => Asks("continue")')
         \/ Prints("running")'
  PROVE  Released(now)'
<1>1. Prints("running") => Prints("running")'
  BY DEF Prints
<1> QED BY <1>1 DEF Released

(* It is told to go on where the target stands, or has gone on already. *)
LEMMA ReleasedNow ==
  ASSUME Types', NEW n2, NEW last, Way(n2, last)', n2.state = "stopped",
         Ask("continue") \in Written'
  PROVE  Released(n2)'
<1>1. Ask("continue").name = "continue"
  BY DEF Ask, Command
<1>2. Asks("continue")'
  BY <1>1 DEF Asks
<1>3. ASSUME ~ Halted' PROVE Prints("running")'
  <2>1. last.state # "stopped"
    BY <1>3 DEF Way, Ends, Halted, Types
  <2>2. fromGdb' \in Seq(Records) /\ Leads(n2, fromGdb', last)
    BY DEF Types, Way
  <2>3. \E r \in Elements(fromGdb') : r.kind = "running"
    BY <2>1, <2>2, LeadsRunning
  <2> QED BY <2>3 DEF Prints, Printed
<1> QED BY <1>2, <1>3 DEF Released

LEMMA ReleasedHandled ==
  ASSUME Types, Types', NEW now, NEW last, Way(now, last), Released(now), Handle,
         NEW n2 \in Nodes, Moves(now, Head(fromGdb), n2), Way(n2, last)'
  PROVE  Released(n2)'
<1> DEFINE r == Head(fromGdb)
<1>0. /\ now \in Nodes /\ r \in Records /\ Printed = {r} \cup Printed'
      /\ Written \subseteq Written' /\ (Halted <=> Halted')
      /\ state = "sync_flushing" => now.state = "stopped"
  BY HandleSteps DEF Way, gdb, Halted
<1>1. CASE r.kind \notin {"stopped", "running", "exited"} /\ state' = state
  <2>1. n2.state = now.state
    BY <1>0, <1>1, MovesState
  <2>2. Prints("running") => Prints("running")'
    BY <1>0, <1>1 DEF Prints
  <2>3. Asks("continue") => Asks("continue")'
    BY <1>0 DEF Asks
  <2> QED BY <1>0, <1>1, <2>1, <2>2, <2>3 DEF Released
<1>2. CASE HandleStopped \/ HandleExited
  BY <1>2 DEF HandleStopped, HandleExited, Released
<1>3. CASE HandleRunning
  <2>1. r.kind = "running"
    BY <1>3 DEF HandleRunning, Take
  <2>2. n2.state = "running"
    BY <1>0, <2>1 DEF Moves, Nodes
  <2> QED BY <2>2 DEF Released
<1>4. CASE Silent
  <2>1. r.kind = "stopped"
    BY <1>4, SilentFacts, StopFacts
  <2>2. n2.state = "stopped"
    BY <2>1 DEF Moves
  <2>3. CASE Ask("continue") \in Written'
    BY <2>2, <2>3, ReleasedNow
  <2>4. CASE state' # "running"
    BY <2>4 DEF Released
  <2> QED BY <1>4, <2>3, <2>4, SilentFacts
<1>5. CASE HandleInserted
  <2>1. r.kind = "inserted"
    BY <1>5, InsertedFacts DEF Take
  <2>2. CASE state' = state
    BY <1>1, <2>1, <2>2
  <2>3. CASE state = "sync_flushing" /\ Ask("continue") \in Written'
    <3>1. n2.state = "stopped"
      BY <1>0, <2>1, <2>3, MovesState
    <3> QED BY <2>3, <3>1, ReleasedNow
  <2> QED BY <1>5, <2>2, <2>3, InsertedFacts
<1>6. HandleText \/ HandleDisassembly \/ HandleCreated \/ HandleUncreated \/ HandleChanges
      \/ HandleStack =>
        r.kind \notin {"stopped", "running", "exited"} /\ state' = state
  BY DEF HandleText, HandleDisassembly, HandleCreated, HandleUncreated, HandleChanges, HandleStack,
         Take, slot
<1> QED BY <1>1, <1>2, <1>3, <1>4, <1>5, <1>6 DEF Handle, Silent

LEMMA ReleasedGdb ==
  ASSUME Types, NEW now, Released(now), Gdb
  PROVE  Released(now)'
<1>0. UNCHANGED state
  BY DEF Gdb, GdbConnects, GdbContinues, GdbInserts, GdbAnswers, GdbCreates, GdbUpdates,
         GdbDeletes, slot
<1>1. Printed \subseteq Printed'
  <2>1. CASE GdbConnects
    <3>1. Stopped(stops, FALSE) \in Records
      BY RecordsType DEF Types
    <3> QED BY <2>1, <3>1, TellFacts DEF GdbConnects
  <2>2. CASE GdbContinues \/ GdbInserts
    BY <2>2, RecordsType, TellFacts DEF GdbContinues, GdbInserts
  <2>3. CASE GdbAnswers
    BY <2>3, AnsweredType, TellFacts DEF GdbAnswers, Answered
  <2>4. CASE GdbCreates
    <3>1. Reads({"create"})
      BY <2>4 DEF GdbCreates
    <3>2. Head(toGdb) \in Commands /\ Head(toGdb).name = "create"
      BY <3>1, ReadFacts
    <3>3. Head(toGdb).watch \in Watches /\ changed \in Values /\ nextObject \in Nat
      BY <3>2, Bounded DEF Commands, Types, Values
    <3>4. \/ Tell(Record("created", Head(toGdb).watch, nextObject, changed))
          \/ Tell(Record("uncreated", Head(toGdb).watch, 0, 0))
      BY <2>4 DEF GdbCreates
    <3> QED BY <3>3, <3>4, RecordsType, TellFacts
  <2>5. CASE GdbUpdates
    <3>1. Tell(Plain("error")) \/ Tell(Changes(Listed))
      BY <2>5 DEF GdbUpdates, Listed
    <3> QED BY <3>1, RecordsType, ListedType, TellFacts
  <2>6. CASE GdbDeletes
    BY <2>6 DEF GdbDeletes, Printed
  <2> QED BY <2>1, <2>2, <2>3, <2>4, <2>5, <2>6 DEF Gdb
<1>2. CASE GdbConnects
  <2>1. ~ Halted
    BY <1>2 DEF GdbConnects, Halted
  <2> QED BY <1>0, <1>1, <2>1, ReleasedElse
<1>3. CASE GdbContinues
  <2>1. CASE Halted
    <3>1. Tell(Plain("running")) /\ Plain("running") \in Records /\ Plain("running").kind = "running"
      BY <1>3, <2>1, RecordsType DEF GdbContinues, Plain, Record
    <3>2. Prints("running")'
      BY <3>1, TellFacts DEF Prints
    <3> QED BY <1>0, <1>1, <3>2, ReleasedElse
  <2>2. CASE ~ Halted
    BY <1>0, <1>1, <2>2, ReleasedElse
  <2> QED BY <2>1, <2>2
<1>4. ASSUME NEW names, Reads(names), "continue" \notin names, UNCHANGED target
      PROVE  Released(now)'
  <2>1. Asks("continue") => Asks("continue")'
    BY <1>4, ReadFacts DEF Asks
  <2>2. Halted => Halted'
    BY <1>4 DEF Halted
  <2> QED BY <1>0, <1>1, <2>1, <2>2, ReleasedElse
<1>5. CASE GdbInserts
  BY <1>4, <1>5 DEF GdbInserts, gdb
<1>6. CASE GdbAnswers
  BY <1>4, <1>6 DEF GdbAnswers, gdb
<1>7. CASE GdbCreates
  BY <1>4, <1>7 DEF GdbCreates
<1>8. CASE GdbUpdates
  BY <1>4, <1>8 DEF GdbUpdates
<1>9. CASE GdbDeletes
  BY <1>4, <1>9 DEF GdbDeletes
<1> QED BY <1>2, <1>3, <1>5, <1>6, <1>7, <1>8, <1>9 DEF Gdb

-----------------------------------------------------------------------------
(* The objects.  One whose answer is handled has a name or is about to be  *)
(* deleted, the answers of the others are on their way.                    *)
Forgotten(o, now) == o.number < now.next /\ o.number \notin DOMAIN watchOf

Known(now) ==
  /\ \A o \in objects :
       /\ o.number \in DOMAIN watchOf /\ o.number < now.next => watchOf[o.number] = o.watch
       /\ Forgotten(o, now) => \E c \in Written : o.number \in c.numbers
       /\ o.number < now.next \/ \E r \in Printed : r.kind = "created" /\ r.number = o.number
  /\ \A r \in Printed : r.kind = "created" =>
       /\ r.number < nextObject
       /\ \A o \in objects : o.number = r.number => o.watch = r.watch

LEMMA MovesElse ==
  ASSUME NEW now \in Nodes, NEW n2 \in Nodes, NEW r \in Records, Moves(now, r, n2)
  PROVE  /\ r.kind # "created" => n2.next = now.next
         /\ r.kind \notin {"created", "stopped"} => n2.value = now.value
BY DEF Moves, Nodes, Records, Kinds

LEMMA KnownElse ==
  ASSUME NEW now, Known(now), UNCHANGED <<watchOf, objects, nextObject>>,
         Printed \subseteq Printed', \A r \in Printed' : r \in Printed \/ r.kind # "created",
         \A c \in Written : c \in Written' \/ c.numbers = {}
  PROVE  Known(now)'
<1>1. ASSUME NEW o \in objects, Forgotten(o, now)
      PROVE  \E c \in Written' : o.number \in c.numbers
  BY <1>1 DEF Known
<1> QED BY <1>1 DEF Known, Forgotten

LEMMA KnownHandled ==
  ASSUME Types, NEW now, NEW last, Way(now, last), Known(now), Handle,
         NEW n2 \in Nodes, Moves(now, Head(fromGdb), n2)
  PROVE  Known(n2)'
<1> DEFINE r == Head(fromGdb)
<1>0. /\ now \in Nodes /\ now.next \in Nat /\ r \in Records
      /\ Printed = {r} \cup Printed' /\ Written \subseteq Written'
      /\ objects' = objects /\ nextObject' = nextObject
      /\ \A o \in objects : o.number \in Nat
  BY HandleSteps DEF Way, Nodes, gdb, Types, Objects
<1>1. \A p \in Printed' : p.kind = "created" =>
        /\ p.number < nextObject'
        /\ \A o \in objects' : o.number = p.number => o.watch = p.watch
  BY <1>0 DEF Known
<1>2. ASSUME r.kind # "created", NEW o \in objects
      PROVE  o.number < n2.next \/ \E p \in Printed' : p.kind = "created" /\ p.number = o.number
  BY <1>0, <1>2, MovesElse DEF Known
<1>3. CASE HandleCreated
  <2>1. r.kind = "created" /\ DOMAIN watchOf' = DOMAIN watchOf \cup {r.number}
    BY <1>3 DEF HandleCreated, Take
  <2>2. \A n \in DOMAIN watchOf' : watchOf'[n] = IF n = r.number THEN r.watch ELSE watchOf[n]
    BY <1>3, <2>1 DEF HandleCreated
  <2>3. r.number = now.next /\ n2.next = now.next + 1
    BY <1>0, <2>1 DEF Moves, Nodes
  <2> HIDE DEF r
  <2>4. ASSUME NEW o \in objects
        PROVE  /\ o.number \in DOMAIN watchOf' /\ o.number < n2.next => watchOf'[o.number] = o.watch
               /\ o.number < n2.next /\ o.number \notin DOMAIN watchOf' =>
                    \E c \in Written' : o.number \in c.numbers
               /\ \/ o.number < n2.next
                  \/ \E p \in Printed' : p.kind = "created" /\ p.number = o.number
    <3>1. o.number \in Nat /\ now.next \in Nat
      BY <1>0
    <3>2. CASE o.number = r.number
      <4>1. o.watch = r.watch /\ o.number \in DOMAIN watchOf' /\ o.number < n2.next
        BY <1>0, <2>1, <2>3, <3>2 DEF Known
      <4> QED BY <2>2, <3>2, <4>1
    <3>3. CASE o.number < r.number
      <4>1. o.number < now.next /\ o.number < n2.next /\ o.number # r.number
        BY <2>3, <3>1, <3>3
      <4>2. o.number \in DOMAIN watchOf' => o.number \in DOMAIN watchOf /\ watchOf'[o.number] = watchOf[o.number]
        BY <2>1, <2>2, <4>1
      <4>3. o.number \notin DOMAIN watchOf' => \E c \in Written' : o.number \in c.numbers
        BY <1>0, <2>1, <4>1 DEF Known, Forgotten
      <4> QED BY <4>1, <4>2, <4>3 DEF Known
    <3>4. CASE o.number > r.number
      <4>1. ~ (o.number < now.next) /\ ~ (o.number < n2.next) /\ o.number # r.number
        BY <2>3, <3>1, <3>4
      <4>2. PICK p \in Printed : p.kind = "created" /\ p.number = o.number
        BY <4>1 DEF Known
      <4> QED BY <1>0, <4>1, <4>2
    <3> QED BY <2>3, <3>1, <3>2, <3>3, <3>4
  <2> QED BY <1>0, <1>1, <2>4 DEF Known, Forgotten
<1>4. CASE UNCHANGED watchOf /\ r.kind # "created"
  <2>1. n2.next = now.next
    BY <1>0, <1>4, MovesElse
  <2> HIDE DEF r
  <2>2. \A o \in objects' : Forgotten(o, n2)' => \E c \in Written' : o.number \in c.numbers
    BY <1>0, <1>4, <2>1 DEF Known, Forgotten
  <2> QED BY <1>0, <1>1, <1>2, <1>4, <2>1, <2>2 DEF Known
<1>5. CASE HandleChanges
  <2> DEFINE known == {c \in r.list : c.number \in DOMAIN watchOf}
             dead == {c.number : c \in {d \in known : ~ d.alive}}
  <2>1. /\ DOMAIN watchOf' = DOMAIN watchOf \ dead /\ dead \in SUBSET Nat
        /\ \A n \in DOMAIN watchOf' : watchOf'[n] = watchOf[n]
    BY <1>5, ChangesType
  <2>2. r.kind = "changes"
    BY <1>5 DEF HandleChanges, Take
  <2>3. n2.next = now.next
    BY <1>0, <2>2, MovesElse
  <2>4. \A n \in dead : \E c \in Written' : n \in c.numbers
    <3> SUFFICES ASSUME dead # {} PROVE Delete(dead) \in Written' /\ Delete(dead).numbers = dead
      OBVIOUS
    <3>1. toGdb' = toGdb \o (IF dead = {} THEN <<>> ELSE <<Delete(dead)>>) \o AnalyzerAsks(state)
      BY <1>5 DEF HandleChanges
    <3> HIDE DEF dead
    <3>2. Delete(dead) \in Written'
      BY <2>1, <3>1, ChangesAsks
    <3> QED BY <3>2 DEF Delete, Command
  <2> HIDE DEF known, dead, r
  <2>5. \A o \in objects' : Forgotten(o, n2)' => \E c \in Written' : o.number \in c.numbers
    BY <1>0, <2>1, <2>3, <2>4 DEF Known, Forgotten
  <2>6. \A o \in objects' : o.number \in DOMAIN watchOf' /\ o.number < n2.next =>
          watchOf'[o.number] = o.watch
    BY <1>0, <2>1, <2>3 DEF Known
  <2> QED BY <1>0, <1>1, <1>2, <2>2, <2>5, <2>6 DEF Known
<1>6. HandleUncreated => UNCHANGED watchOf /\ r.kind # "created"
  BY DEF HandleUncreated, Take
<1> QED BY <1>3, <1>4, <1>5, <1>6, HandleSteps

LEMMA KnownGdb ==
  ASSUME Types, NEW now, NEW last, Way(now, last), Known(now), Gdb
  PROVE  Known(now)'
<1>0. /\ now \in Nodes /\ UNCHANGED watchOf /\ nextObject \in Nat /\ now.next \in Nat
      /\ \A o \in objects : o.number \in Nat /\ o.number < nextObject
  <2>1. now \in Nodes /\ nextObject \in Nat /\ \A o \in objects : o.number \in 1..nextObject - 1
    BY DEF Way, Types
  <2>2. UNCHANGED watchOf
    BY DEF Gdb, GdbConnects, GdbContinues, GdbInserts, GdbAnswers, GdbCreates, GdbUpdates,
           GdbDeletes, coordinator
  <2> QED BY <2>1, <2>2 DEF Nodes
<1>1. ASSUME NEW names, Reads(names), "delete" \notin names
      PROVE  \A c \in Written : c \in Written' \/ c.numbers = {}
  BY <1>1, ReadFacts DEF Commands
<1>2. ASSUME NEW r \in Records, Tell(r), r.kind # "created", UNCHANGED <<objects, nextObject>>,
             \A c \in Written : c \in Written' \/ c.numbers = {}
      PROVE  Known(now)'
  BY <1>0, <1>2, TellFacts, KnownElse
<1>3. CASE GdbConnects
  <2>1. Tell(Stopped(stops, FALSE)) /\ UNCHANGED <<toGdb, objects, nextObject>>
    BY <1>3 DEF GdbConnects
  <2>2. Stopped(stops, FALSE) \in Records /\ Stopped(stops, FALSE).kind # "created"
    BY RecordsType DEF Types
  <2>3. \A c \in Written : c \in Written'
    BY <2>1 DEF Written
  <2> QED BY <1>2, <2>1, <2>2, <2>3
<1>9. CASE GdbInserts
  <2>1. \A kind \in {"inserted", "error"} : Plain(kind) \in Records /\ Plain(kind).kind # "created"
    BY RecordsType DEF Plain, Record
  <2>2. /\ Tell(Plain("inserted")) \/ Tell(Plain("error"))
        /\ Reads({"insert"}) /\ UNCHANGED <<objects, nextObject>>
    BY <1>9 DEF GdbInserts, gdb
  <2>3. \A c \in Written : c \in Written' \/ c.numbers = {}
    BY <1>1, <2>2
  <2> QED BY <1>2, <2>1, <2>2, <2>3
<1>4. CASE GdbContinues
  <2>1. \A kind \in {"running", "error"} : Plain(kind) \in Records /\ Plain(kind).kind # "created"
    BY RecordsType DEF Plain, Record
  <2>2. /\ Tell(Plain("running")) \/ Tell(Plain("error"))
        /\ Reads({"continue"}) /\ UNCHANGED <<objects, nextObject>>
    BY <1>4 DEF GdbContinues
  <2>3. \A c \in Written : c \in Written' \/ c.numbers = {}
    BY <1>1, <2>2
  <2> QED BY <1>2, <2>1, <2>2, <2>3
<1>5. CASE GdbAnswers
  <2>1. Answered.kind # "created"
    BY DEF Answered, Plain, Stack, Record
  <2>2. /\ Tell(Answered) /\ UNCHANGED <<objects, nextObject>>
        /\ Reads({"disassembly", "registers", "stack"})
    BY <1>5 DEF GdbAnswers, Answered, gdb
  <2>3. \A c \in Written : c \in Written' \/ c.numbers = {}
    BY <1>1, <2>2
  <2> QED BY <1>2, <2>1, <2>2, <2>3, AnsweredType
<1>6. CASE GdbCreates
  <2> DEFINE w == Head(toGdb).watch
             o2 == [number |-> nextObject, watch |-> w, frame |-> target.frame, told |-> changed]
             r == Record("created", w, nextObject, changed)
             u == Record("uncreated", w, 0, 0)
  <2>1. Reads({"create"})
    BY <1>6 DEF GdbCreates
  <2>2. Head(toGdb) \in Commands /\ Head(toGdb).name = "create"
    BY <2>1, ReadFacts
  <2>3. w \in Watches /\ changed \in Values
    BY <2>2, Bounded DEF Commands, Types, Values
  <2>4. \A c \in Written : c \in Written' \/ c.numbers = {}
    BY <1>1, <2>1
  <2>5. CASE Visible(w)
    <3>1. Tell(r) /\ objects' = objects \cup {o2} /\ nextObject' = nextObject + 1
      BY <1>6, <2>5 DEF GdbCreates
    <3>2. r \in Records /\ r.kind = "created" /\ r.number = nextObject /\ r.watch = w
      BY <1>0, <2>3, RecordsType DEF Record
    <3>3. Printed' = Printed \cup {r}
      BY <3>1, <3>2, TellFacts
    <3>4. o2.number = nextObject /\ o2.watch = w
      OBVIOUS
    <3>5. now.next <= nextObject
      <4>1. fromGdb \in Seq(Records) /\ Leads(now, fromGdb, last) /\ last.next = nextObject
        BY DEF Types, Way, Ends
      <4> QED BY <4>1, LeadsValue
    <3> HIDE DEF o2, r, w
    <3>6. \A o \in objects' : Forgotten(o, now)' => \E c \in Written' : o.number \in c.numbers
      BY <1>0, <2>4, <3>1, <3>4, <3>5 DEF Known, Forgotten
    <3>7. \A o \in objects' :
            o.number < now.next \/ \E p \in Printed' : p.kind = "created" /\ p.number = o.number
      BY <3>1, <3>2, <3>3, <3>4 DEF Known
    <3>8. \A o \in objects' : o.number \in DOMAIN watchOf /\ o.number < now.next =>
            watchOf[o.number] = o.watch
      BY <1>0, <3>1, <3>4, <3>5 DEF Known
    <3>9. ASSUME NEW p \in Printed', p.kind = "created"
          PROVE  p.number < nextObject' /\ \A o \in objects' : o.number = p.number => o.watch = p.watch
      <4>1. CASE p \in Printed
        <5>1. p \in Records
          <6>1. fromGdb \in Seq(Records)
            BY DEF Types
          <6> QED BY <4>1, <6>1 DEF Printed, Elements
        <5>2. p.number \in Nat
          BY <5>1 DEF Records
        <5> QED BY <1>0, <3>1, <3>4, <3>9, <4>1, <5>2 DEF Known
      <4>2. CASE p = r
        <5>1. \A o \in objects : o.number # nextObject
          BY <1>0
        <5> QED BY <1>0, <3>1, <3>2, <3>4, <4>2, <5>1
      <4> QED BY <3>3, <4>1, <4>2
    <3> QED BY <1>0, <3>6, <3>7, <3>8, <3>9 DEF Known
  <2>6. CASE ~ Visible(w)
    <3>1. Tell(u) /\ UNCHANGED <<objects, nextObject>>
      BY <1>6, <2>6 DEF GdbCreates
    <3>2. u \in Records /\ u.kind # "created"
      BY <2>3, RecordsType DEF Record
    <3> QED BY <1>2, <2>4, <3>1, <3>2
  <2> QED BY <2>5, <2>6
<1>7. CASE GdbUpdates
  <2>1. Reads({"update"}) /\ (Tell(Plain("error")) \/ Tell(Changes(Listed))) /\ nextObject' = nextObject
    BY <1>7 DEF GdbUpdates, Listed
  <2>2. \A r \in {Plain("error"), Changes(Listed)} : r \in Records /\ r.kind # "created"
    <3>1. Plain("error").kind = "error"
      BY DEF Plain, Record
    <3> QED BY <3>1, RecordsType, ListedType
  <2>3. Printed \subseteq Printed' /\ \A r \in Printed' : r \in Printed \/ r.kind # "created"
    BY <2>1, <2>2, TellFacts
  <2>4. \A c \in Written : c \in Written' \/ c.numbers = {}
    BY <1>1, <2>1
  <2>5. \A o \in objects' : \E o1 \in objects : o.number = o1.number /\ o.watch = o1.watch
    <3>1. CASE UNCHANGED objects
      BY <3>1
    <3>2. CASE objects' = {IF Alive(o) THEN [o EXCEPT !.told = changed] ELSE o : o \in objects}
      BY <3>2 DEF Types, Objects
    <3> QED BY <1>7, <3>1, <3>2 DEF GdbUpdates
  <2>6. ASSUME NEW o \in objects'
        PROVE  /\ o.number \in DOMAIN watchOf /\ o.number < now.next => watchOf[o.number] = o.watch
               /\ o.number < now.next /\ o.number \notin DOMAIN watchOf =>
                    \E c \in Written' : o.number \in c.numbers
               /\ o.number < now.next \/ \E r \in Printed' : r.kind = "created" /\ r.number = o.number
               /\ \A r \in Printed' : r.kind = "created" /\ o.number = r.number => o.watch = r.watch
    <3>1. PICK o1 \in objects : o.number = o1.number /\ o.watch = o1.watch
      BY <2>5
    <3>2. Forgotten(o1, now) => \E c \in Written' : o.number \in c.numbers
      BY <2>4, <3>1 DEF Known
    <3> QED BY <2>3, <3>1, <3>2 DEF Known, Forgotten
  <2>7. \A r \in Printed' : r.kind = "created" => r.number < nextObject'
    BY <2>1, <2>3 DEF Known
  <2> QED BY <1>0, <2>6, <2>7 DEF Known, Forgotten
<1>8. CASE GdbDeletes
  <2>1. /\ Reads({"delete"}) /\ Printed' = Printed /\ nextObject' = nextObject
        /\ objects' = {o \in objects : o.number \notin Head(toGdb).numbers}
    BY <1>8 DEF GdbDeletes, Printed
  <2>2. Written = {Head(toGdb)} \cup Written'
    BY <2>1, ReadFacts
  <2>3. ASSUME NEW o \in objects', Forgotten(o, now)
        PROVE  \E c \in Written' : o.number \in c.numbers
    BY <2>1, <2>2, <2>3 DEF Known
  <2> QED BY <1>0, <2>1, <2>3 DEF Known, Forgotten
<1> QED BY <1>3, <1>4, <1>5, <1>6, <1>7, <1>8, <1>9 DEF Gdb

-----------------------------------------------------------------------------
(* The values.  An object that is told the last value has a record that    *)
(* says it, or the cell of its name shows it, unless it is to be deleted.  *)
Tells(r, o) ==
  \/ r.kind = "created" /\ r.number = o.number /\ r.value = o.told
  \/ r.kind = "changes" /\ \E x \in r.list : x.number = o.number /\ x.alive /\ x.value = o.told

Shows(o, now) ==
  \/ \E r \in Printed : Tells(r, o)
  \/ now.value = changed /\ cells[o.watch] \in {changed, Gone}

ToldKept(now) ==
  \A o \in objects : o.told = changed => Forgotten(o, now) \/ Shows(o, now)

LEMMA ToldElse ==
  ASSUME NEW now, ToldKept(now), UNCHANGED <<watchOf, cells>>, Printed \subseteq Printed',
         objects' \subseteq objects,
         changed' = changed \/ \A o \in objects : o.told < changed' /\ o.told # changed'
  PROVE  ToldKept(now)'
<1> SUFFICES ASSUME NEW o \in objects', o.told = changed'
             PROVE  (Forgotten(o, now) \/ Shows(o, now))'
  BY DEF ToldKept
<1>1. o \in objects /\ o.told = changed /\ changed' = changed
  OBVIOUS
<1>2. Forgotten(o, now) => Forgotten(o, now)'
  BY DEF Forgotten
<1>3. Shows(o, now) => Shows(o, now)'
  BY <1>1 DEF Shows
<1> QED BY <1>1, <1>2, <1>3 DEF ToldKept

(* Where the coordinator stands has no later value than gdb. *)
LEMMA ValueKept ==
  ASSUME NEW now \in Nodes, NEW n2, NEW last, fromGdb' \in Seq(Records),
         NEW r \in Records, Moves(now, r, n2), Way(n2, last)',
         changed' = changed, now.value = changed
  PROVE  n2.value = changed
<1>1. Leads(n2, fromGdb', last) /\ last.value = changed
  BY DEF Way, Ends
<1>2. n2 \in Nodes /\ last \in Nodes /\ n2.value <= last.value
  BY <1>1, LeadsValue
<1>3. now.value <= n2.value
  BY <1>2, MovesValue
<1> QED BY <1>1, <1>2, <1>3 DEF Nodes

LEMMA ToldHandled ==
  ASSUME Types, Types', NEW now, NEW last, Way(now, last), Known(now), ToldKept(now), Handle,
         NEW n2 \in Nodes, Moves(now, Head(fromGdb), n2), Way(n2, last)'
  PROVE  ToldKept(n2)'
<1> DEFINE r == Head(fromGdb)
<1>0. /\ now \in Nodes /\ now.next \in Nat /\ r \in Records
      /\ Printed = {r} \cup Printed' /\ objects' = objects /\ changed' = changed
      /\ fromGdb' \in Seq(Records)
      /\ \A o \in objects : o.number \in Nat /\ o.watch \in Watches
      /\ watchOf \in [DOMAIN watchOf -> Watches]
      /\ cells \in [Watches -> Values \cup {Unknown, Gone}]
  BY HandleSteps DEF Way, Nodes, gdb, Types, Objects
<1>1. now.value = changed => n2.value = changed
  BY <1>0, ValueKept
<1> SUFFICES ASSUME NEW o \in objects, o.told = changed, ~ Forgotten(o, n2)'
             PROVE  Shows(o, n2)'
  BY <1>0 DEF ToldKept
<1>2. CASE HandleCreated
  <2>1. r.kind = "created" /\ DOMAIN watchOf' = DOMAIN watchOf \cup {r.number}
    BY <1>2 DEF HandleCreated, Take
  <2>2. cells' = [cells EXCEPT ![r.watch] = r.value]
    BY <1>2 DEF HandleCreated
  <2>3. r.number = now.next /\ n2.next = now.next + 1 /\ r.value = now.value
    BY <1>0, <2>1 DEF Moves, Nodes
  <2> HIDE DEF r
  <2>4. ~ Forgotten(o, now)
    BY <1>0, <2>1, <2>3 DEF Forgotten
  <2>5. CASE Tells(r, o)
    <3>1. r.number = o.number /\ r.value = changed
      BY <2>1, <2>5 DEF Tells
    <3>2. r.watch = o.watch
      BY <1>0, <2>1, <3>1 DEF Known
    <3>3. cells'[o.watch] = changed
      BY <1>0, <2>2, <3>1, <3>2
    <3> QED BY <1>0, <1>1, <2>3, <3>1, <3>3 DEF Shows
  <2>6. CASE \E p \in Printed' : Tells(p, o)
    BY <2>6 DEF Shows
  <2>7. CASE now.value = changed /\ cells[o.watch] \in {changed, Gone}
    <3>1. cells'[o.watch] \in {changed, Gone}
      BY <1>0, <2>2, <2>3, <2>7
    <3> QED BY <1>0, <1>1, <2>7, <3>1 DEF Shows
  <2> QED BY <1>0, <2>4, <2>5, <2>6, <2>7 DEF ToldKept, Shows
<1>3. CASE HandleChanges
  <2> DEFINE known == {c \in r.list : c.number \in DOMAIN watchOf}
             about(w) == {c \in known : watchOf[c.number] = w}
             dead == {c.number : c \in {d \in known : ~ d.alive}}
  <2>1. r.kind = "changes" /\ DOMAIN watchOf' = DOMAIN watchOf \ dead
    BY <1>3, ChangesType DEF HandleChanges, Take
  <2>2. n2 = now /\ \A x \in r.list : x.number < now.next /\ x.value = now.value
    BY <1>0, <2>1 DEF Moves
  <2>3. PICK shown \in [Watches -> known \cup {Plain("none")}] :
          /\ \A w \in Watches : IF about(w) = {} THEN shown[w] = Plain("none")
                               ELSE shown[w] \in about(w)
          /\ cells' = [w \in Watches |->
                         IF about(w) = {} THEN cells[w]
                         ELSE IF shown[w].alive THEN shown[w].value ELSE Gone]
    BY <1>3 DEF HandleChanges
  <2>4. \/ about(o.watch) = {} /\ cells'[o.watch] = cells[o.watch]
        \/ about(o.watch) # {} /\ cells'[o.watch] \in {now.value, Gone}
    <3>1. o.watch \in Watches
      BY <1>0
    <3>2. CASE about(o.watch) = {}
      BY <2>3, <3>1, <3>2
    <3>3. CASE about(o.watch) # {}
      <4>1. shown[o.watch] \in about(o.watch)
        BY <2>3, <3>1, <3>3
      <4>2. shown[o.watch].value = now.value
        BY <2>2, <4>1
      <4>3. cells'[o.watch] \in {shown[o.watch].value, Gone}
        <5> HIDE DEF about
        <5> QED BY <2>3, <3>1, <3>3
      <4> QED BY <3>3, <4>2, <4>3
    <3> QED BY <3>2, <3>3
  <2>5. ~ Forgotten(o, now)
    BY <2>1, <2>2 DEF Forgotten
  <2>6. CASE Tells(r, o)
    <3>1. PICK x \in r.list : x.number = o.number /\ x.value = changed
      BY <2>1, <2>6 DEF Tells
    <3>2. now.value = changed /\ o.number < now.next
      BY <2>2, <3>1
    <3>3. o.number \in DOMAIN watchOf /\ watchOf[o.number] = o.watch
      BY <2>5, <3>2 DEF Forgotten, Known
    <3>4. x \in about(o.watch)
      BY <3>1, <3>3
    <3>5. cells'[o.watch] \in {changed, Gone}
      BY <2>4, <3>2, <3>4
    <3> HIDE DEF known, about, dead, r
    <3> QED BY <1>0, <2>2, <3>2, <3>5 DEF Shows
  <2> HIDE DEF known, about, dead, r
  <2>7. CASE \E p \in Printed' : Tells(p, o)
    BY <2>7 DEF Shows
  <2>8. CASE now.value = changed /\ cells[o.watch] \in {changed, Gone}
    <3>1. cells'[o.watch] \in {changed, Gone}
      BY <2>4, <2>8
    <3> QED BY <1>0, <2>2, <2>8, <3>1 DEF Shows
  <2> QED BY <1>0, <2>5, <2>6, <2>7, <2>8 DEF ToldKept, Shows
<1>4. CASE /\ UNCHANGED watchOf /\ \A w \in Watches : cells'[w] \in {cells[w], Gone}
           /\ r.kind \notin {"created", "changes"}
  <2>1. n2.next = now.next
    BY <1>0, <1>4, MovesElse
  <2>2. ~ Tells(r, o)
    BY <1>4 DEF Tells
  <2> HIDE DEF r
  <2>3. ~ Forgotten(o, now)
    BY <1>4, <2>1 DEF Forgotten
  <2>4. CASE \E p \in Printed : Tells(p, o)
    BY <1>0, <2>2, <2>4 DEF Shows
  <2>5. CASE now.value = changed /\ cells[o.watch] \in {changed, Gone}
    <3>1. cells'[o.watch] \in {changed, Gone}
      BY <1>0, <1>4, <2>5
    <3> QED BY <1>0, <1>1, <2>5, <3>1 DEF Shows
  <2> QED BY <2>3, <2>4, <2>5 DEF ToldKept, Shows
<1>5. CASE HandleUncreated
  <2>1. /\ UNCHANGED watchOf /\ r.kind = "uncreated"
        /\ cells' = [cells EXCEPT ![r.watch] = Gone]
    BY <1>5 DEF HandleUncreated, Take
  <2> QED BY <1>0, <1>4, <2>1
<1>6. CASE UNCHANGED <<watchOf, cells>> /\
           r.kind \in {"stopped", "running", "exited", "registers", "error", "disassembly", "stack",
                      "inserted"}
  BY <1>4, <1>6
<1> QED BY <1>2, <1>3, <1>5, <1>6, HandleSteps

(* A new object is told of, and so is an old one whose value is new. *)
LEMMA ToldGdb ==
  ASSUME Types, NEW now, ToldKept(now), Gdb
  PROVE  ToldKept(now)'
<1>0. UNCHANGED <<watchOf, cells>> /\ changed' = changed
  BY DEF Gdb, GdbConnects, GdbContinues, GdbInserts, GdbAnswers, GdbCreates, GdbUpdates,
         GdbDeletes, coordinator, gdb
<1>1. ASSUME NEW r \in Records, Tell(r), UNCHANGED objects
      PROVE  ToldKept(now)'
  BY <1>0, <1>1, TellFacts, ToldElse
<1>2. CASE GdbConnects
  <2>1. Stopped(stops, FALSE) \in Records
    BY RecordsType DEF Types
  <2> QED BY <1>1, <1>2, <2>1 DEF GdbConnects
<1>9. CASE GdbInserts
  BY <1>1, <1>9, RecordsType DEF GdbInserts, gdb
<1>3. CASE GdbContinues
  BY <1>1, <1>3, RecordsType DEF GdbContinues
<1>4. CASE GdbAnswers
  BY <1>1, <1>4, AnsweredType DEF GdbAnswers, Answered, gdb
<1>5. ASSUME NEW r \in Records, Tell(r),
             \A o \in objects' : o \in objects \/ Tells(r, o)
      PROVE  ToldKept(now)'
  <2>1. Printed' = Printed \cup {r}
    BY <1>5, TellFacts
  <2> SUFFICES ASSUME NEW o \in objects', o.told = changed
               PROVE  (Forgotten(o, now) \/ Shows(o, now))'
    BY <1>0 DEF ToldKept
  <2>2. CASE Tells(r, o)
    BY <2>1, <2>2 DEF Shows
  <2>3. CASE o \in objects
    <3>1. Forgotten(o, now) \/ Shows(o, now)
      BY <2>3 DEF ToldKept
    <3> QED BY <1>0, <2>1, <3>1 DEF Forgotten, Shows
  <2> QED BY <1>5, <2>2, <2>3
<1>6. CASE GdbCreates
  <2> DEFINE w == Head(toGdb).watch
             o2 == [number |-> nextObject, watch |-> w, frame |-> target.frame, told |-> changed]
             r == Record("created", w, nextObject, changed)
             u == Record("uncreated", w, 0, 0)
  <2>1. w \in Watches /\ changed \in Values /\ nextObject \in Nat
    <3>1. Reads({"create"})
      BY <1>6 DEF GdbCreates
    <3>2. Head(toGdb) \in Commands /\ Head(toGdb).name = "create"
      BY <3>1, ReadFacts
    <3> QED BY <3>2, Bounded DEF Commands, Types, Values
  <2>2. CASE Visible(w)
    <3>1. Tell(r) /\ objects' = objects \cup {o2}
      BY <1>6, <2>2 DEF GdbCreates
    <3>2. r \in Records
      BY <2>1, RecordsType
    <3>3. Tells(r, o2)
      BY DEF Tells, Record
    <3> HIDE DEF r, o2
    <3> QED BY <1>5, <3>1, <3>2, <3>3
  <2>3. CASE ~ Visible(w)
    <3>1. Tell(u) /\ UNCHANGED objects
      BY <1>6, <2>3 DEF GdbCreates
    <3>2. u \in Records
      BY <2>1, RecordsType
    <3> HIDE DEF u
    <3> QED BY <1>1, <3>1, <3>2
  <2> QED BY <2>2, <2>3
<1>7. CASE GdbUpdates
  <2>1. CASE target.status \in {"running", "unattached"}
    BY <1>1, <1>7, <2>1, RecordsType DEF GdbUpdates
  <2>2. CASE target.status \notin {"running", "unattached"}
    <3> DEFINE r == Changes(Listed)
    <3>1. /\ Tell(r)
          /\ objects' = {IF Alive(o) THEN [o EXCEPT !.told = changed] ELSE o : o \in objects}
      BY <1>7, <2>2 DEF GdbUpdates, Listed
    <3>2. r \in Records /\ r.kind = "changes" /\ r.list = Listed
      BY ListedType, RecordsType
    <3>3. ASSUME NEW o \in objects, Alive(o), o.told # changed
          PROVE  Tells(r, [o EXCEPT !.told = changed])
      <4> DEFINE x == [number |-> o.number, alive |-> Alive(o), value |-> changed]
      <4>1. x \in Listed
        BY <3>3 DEF Listed
      <4>2. x.number = o.number /\ x.alive /\ x.value = changed
        BY <3>3
      <4>3. /\ [o EXCEPT !.told = changed].number = o.number
            /\ [o EXCEPT !.told = changed].told = changed
        BY DEF Types, Objects
      <4> HIDE DEF x, r
      <4> QED BY <3>2, <4>1, <4>2, <4>3 DEF Tells
    <3>4. ASSUME NEW o \in objects, o.told = changed
          PROVE  [o EXCEPT !.told = changed] = o
      BY <3>4 DEF Types, Objects
    <3> HIDE DEF r
    <3>5. \A o \in objects' : o \in objects \/ Tells(r, o)
      BY <3>1, <3>3, <3>4
    <3> QED BY <1>5, <3>1, <3>2, <3>5
  <2> QED BY <2>1, <2>2
<1>8. CASE GdbDeletes
  BY <1>0, <1>8, ToldElse DEF GdbDeletes, Printed
<1> QED BY <1>2, <1>3, <1>4, <1>6, <1>7, <1>8, <1>9 DEF Gdb

-----------------------------------------------------------------------------
(* The chain.  A stopped rank whose objects are not told the last value    *)
(* asks for the disassembly, or for the update that its answer chains.     *)
Dies(o) == \E r \in Printed : r.kind = "changes" /\ \E x \in r.list : x.number = o.number /\ ~ x.alive

Chained ==
  \/ Asks("disassembly") \/ Prints("disassembly") \/ Asks("update") \/ Prints("running")

ChainKept(now) ==
  state = "stopped" /\ ~ Chained =>
    \A o \in objects : o.told = changed \/ Forgotten(o, now) \/ Dies(o)

LEMMA ChainElse ==
  ASSUME NEW now, ChainKept(now), UNCHANGED <<state, watchOf>>, Printed \subseteq Printed',
         Asks("disassembly") => Asks("disassembly")' \/ Prints("disassembly")',
         Asks("update") => Asks("update")',
         \A o \in objects' : o \in objects \/ o.told = changed, changed' = changed
  PROVE  ChainKept(now)'
<1>1. Chained => Chained'
  BY DEF Chained, Prints
<1>2. \A o \in objects : Dies(o) => Dies(o)'
  BY DEF Dies
<1> QED BY <1>1, <1>2 DEF ChainKept, Forgotten

LEMMA ChainHandled ==
  ASSUME Types, NEW now, NEW last, Way(now, last), ChainKept(now), Handle,
         NEW n2 \in Nodes, Moves(now, Head(fromGdb), n2)
  PROVE  ChainKept(n2)'
<1> DEFINE r == Head(fromGdb)
<1>0. /\ now \in Nodes /\ now.next \in Nat /\ r \in Records
      /\ Printed = {r} \cup Printed' /\ Written \subseteq Written'
      /\ objects' = objects /\ changed' = changed
      /\ \A o \in objects : o.number \in Nat
  BY HandleSteps DEF Way, Nodes, gdb, Types, Objects
<1> SUFFICES ASSUME state' = "stopped", ~ Chained', NEW o \in objects
             PROVE  o.told = changed \/ Forgotten(o, n2)' \/ Dies(o)'
  BY <1>0 DEF ChainKept
<1>1. CASE HandleStopped
  <2>1. Ask("disassembly") \in Written' /\ Ask("disassembly").name = "disassembly"
    BY <1>1, StoppedAsks DEF Ask, Command
  <2> QED BY <2>1 DEF Chained, Asks
<1>2. CASE HandleDisassembly
  <2>1. Ask("update") \in Written' /\ Ask("update").name = "update"
    BY <1>2, DisassemblyAsks DEF HandleDisassembly, Ask, Command
  <2> QED BY <2>1 DEF Chained, Asks
<1>3. CASE HandleRunning \/ HandleExited \/ Silent
  BY <1>3, SilentFacts DEF HandleRunning, HandleExited
<1>4. ASSUME state = "stopped", r.kind \notin {"disassembly", "running"},
             o.told = changed \/ Forgotten(o, now) \/ Dies(o) => 
               o.told = changed \/ Forgotten(o, n2)' \/ Dies(o)'
      PROVE  o.told = changed \/ Forgotten(o, n2)' \/ Dies(o)'
  <2>1. ~ Chained
    BY <1>0, <1>4 DEF Chained, Asks, Prints
  <2> QED BY <1>4, <2>1 DEF ChainKept
<1>5. CASE UNCHANGED <<state, watchOf>> /\ r.kind \in {"registers", "error", "stack", "uncreated", "inserted"}
  <2>1. n2.next = now.next
    BY <1>0, <1>5, MovesElse
  <2>2. Dies(o) => Dies(o)'
    BY <1>0, <1>5 DEF Dies
  <2> HIDE DEF r
  <2> QED BY <1>4, <1>5, <2>1, <2>2 DEF Forgotten
<1>6. CASE HandleText \/ HandleStack \/ HandleUncreated
  BY <1>5, <1>6 DEF HandleText, HandleStack, HandleUncreated, Take, coordinator, slot
<1>9. CASE HandleInserted
  BY <1>5, <1>9, InsertedFacts DEF Take, coordinator
<1>7. CASE HandleCreated
  <2>1. r.kind = "created" /\ DOMAIN watchOf' = DOMAIN watchOf \cup {r.number} /\ state' = state
    BY <1>7 DEF HandleCreated, Take, slot
  <2>2. r.number = now.next /\ n2.next = now.next + 1
    BY <1>0, <2>1 DEF Moves, Nodes
  <2>3. Dies(o) => Dies(o)'
    BY <1>0, <2>1 DEF Dies
  <2>4. Forgotten(o, now) => Forgotten(o, n2)'
    BY <1>0, <2>1, <2>2 DEF Forgotten
  <2> QED BY <1>4, <2>1, <2>3, <2>4
<1>8. CASE HandleChanges
  <2> DEFINE known == {c \in r.list : c.number \in DOMAIN watchOf}
             dead == {c.number : c \in {d \in known : ~ d.alive}}
  <2>1. r.kind = "changes" /\ state' = state /\ DOMAIN watchOf' = DOMAIN watchOf \ dead
    BY <1>8, ChangesType DEF HandleChanges, Take, slot
  <2>2. n2 = now /\ \A x \in r.list : x.number < now.next
    BY <1>0, <2>1 DEF Moves
  <2>3. Forgotten(o, now) => Forgotten(o, n2)'
    BY <2>1, <2>2 DEF Forgotten
  <2>4. ASSUME Dies(o)
        PROVE  Dies(o)' \/ Forgotten(o, n2)'
    <3>1. PICK p \in Printed : p.kind = "changes" /\ \E x \in p.list : x.number = o.number /\ ~ x.alive
      BY <2>4 DEF Dies
    <3>2. CASE p \in Printed'
      BY <3>1, <3>2 DEF Dies
    <3>3. CASE p = r
      <4>1. PICK x \in r.list : x.number = o.number /\ ~ x.alive
        BY <3>1, <3>3
      <4>2. o.number \notin DOMAIN watchOf'
        BY <2>1, <4>1
      <4> QED BY <2>2, <4>1, <4>2 DEF Forgotten
    <3> QED BY <1>0, <3>1, <3>2, <3>3
  <2> QED BY <1>4, <2>1, <2>3, <2>4
<1> QED BY <1>1, <1>2, <1>3, <1>6, <1>7, <1>8, <1>9 DEF Handle, Silent

LEMMA ChainGdb ==
  ASSUME Types, NEW now, NEW last, Way(now, last), ChainKept(now), Gdb
  PROVE  ChainKept(now)'
<1>0. UNCHANGED <<state, watchOf>> /\ changed' = changed
  BY DEF Gdb, GdbConnects, GdbContinues, GdbInserts, GdbAnswers, GdbCreates, GdbUpdates,
         GdbDeletes, coordinator, gdb, slot
<1>1. ASSUME NEW names, Reads(names), names \cap {"disassembly", "update"} = {}
      PROVE  /\ Asks("disassembly") => Asks("disassembly")'
             /\ Asks("update") => Asks("update")'
  BY <1>1, ReadFacts DEF Asks
<1>2. CASE GdbConnects
  <2>1. Stopped(stops, FALSE) \in Records
    BY RecordsType DEF Types
  <2>2. Printed \subseteq Printed' /\ UNCHANGED Written /\ UNCHANGED objects
    BY <1>2, <2>1, TellFacts DEF GdbConnects, Written
  <2> QED BY <1>0, <2>2, ChainElse DEF Asks
<1>8. CASE GdbInserts
  <2>1. Reads({"insert"}) /\ UNCHANGED objects /\ Printed \subseteq Printed'
    BY <1>8, RecordsType, TellFacts DEF GdbInserts, gdb
  <2> QED BY <1>0, <1>1, <2>1, ChainElse
<1>3. CASE GdbContinues
  <2>1. Reads({"continue"}) /\ UNCHANGED objects /\ Printed \subseteq Printed'
    BY <1>3, RecordsType, TellFacts DEF GdbContinues
  <2> QED BY <1>0, <1>1, <2>1, ChainElse
<1>4. CASE GdbAnswers
  <2>1. Reads({"disassembly", "registers", "stack"}) /\ Tell(Answered) /\ UNCHANGED objects
    BY <1>4 DEF GdbAnswers, Answered, gdb
  <2>2. Printed' = Printed \cup {Answered}
    BY <2>1, AnsweredType, TellFacts
  <2>3. Head(toGdb).name = "disassembly" => Prints("disassembly")'
    <3>1. Head(toGdb).name = "disassembly" => Answered.kind = "disassembly"
      BY DEF Answered, Plain, Record
    <3> QED BY <2>2, <3>1 DEF Prints
  <2>4. /\ Asks("disassembly") => Asks("disassembly")' \/ Head(toGdb).name = "disassembly"
        /\ Asks("update") => Asks("update")'
    BY <2>1, ReadFacts DEF Asks
  <2>5. Asks("disassembly") => Asks("disassembly")' \/ Prints("disassembly")'
    BY <2>3, <2>4
  <2> QED BY <1>0, <2>1, <2>2, <2>4, <2>5, ChainElse
<1>5. CASE GdbCreates
  <2> DEFINE w == Head(toGdb).watch
             r == Record("created", w, nextObject, changed)
             u == Record("uncreated", w, 0, 0)
  <2>1. Reads({"create"})
    BY <1>5 DEF GdbCreates
  <2>2. r \in Records /\ u \in Records
    <3>1. Head(toGdb) \in Commands /\ Head(toGdb).name = "create"
      BY <2>1, ReadFacts
    <3>2. w \in Watches /\ changed \in Values /\ nextObject \in Nat
      BY <3>1, Bounded DEF Commands, Types, Values
    <3> QED BY <3>2, RecordsType
  <2>3. Tell(r) \/ Tell(u)
    BY <1>5 DEF GdbCreates
  <2>4. \A o \in objects' : o \in objects \/ o.told = changed
    BY <1>5 DEF GdbCreates
  <2> HIDE DEF r, u, w
  <2>5. Printed \subseteq Printed'
    BY <2>2, <2>3, TellFacts
  <2> QED BY <1>0, <1>1, <2>1, <2>4, <2>5, ChainElse
<1>6. CASE GdbUpdates
  <2>1. CASE target.status \in {"running", "unattached"}
    <3>1. Printed \subseteq Printed'
      BY <1>6, <2>1, RecordsType, TellFacts DEF GdbUpdates
    <3>2. state = "stopped" => Prints("running")
      BY <2>1, RunsAgain DEF Halted, Way
    <3>3. state = "stopped" => Prints("running")'
      BY <3>1, <3>2 DEF Prints
    <3> QED BY <1>0, <3>3 DEF ChainKept, Chained
  <2>2. CASE target.status \notin {"running", "unattached"}
    <3> DEFINE r == Changes(Listed)
    <3>1. /\ Tell(r)
          /\ objects' = {IF Alive(o) THEN [o EXCEPT !.told = changed] ELSE o : o \in objects}
      BY <1>6, <2>2 DEF GdbUpdates, Listed
    <3>2. r \in Records /\ r.kind = "changes" /\ r.list = Listed
      BY ListedType, RecordsType
    <3> HIDE DEF r
    <3>3. r \in Printed'
      BY <3>1, <3>2, TellFacts
    <3>4. ASSUME NEW o \in objects, ~ Alive(o)
          PROVE  Dies(o)'
      <4> DEFINE x == [number |-> o.number, alive |-> Alive(o), value |-> changed]
      <4>1. x \in Listed
        BY <3>4 DEF Listed
      <4>2. x.number = o.number /\ ~ x.alive
        BY <3>4
      <4> HIDE DEF x
      <4> QED BY <3>2, <3>3, <4>1, <4>2 DEF Dies
    <3>5. \A o \in objects : [o EXCEPT !.told = changed].told = changed
      BY DEF Types, Objects
    <3>6. ASSUME NEW o \in objects' PROVE o.told = changed \/ Dies(o)'
      BY <3>1, <3>4, <3>5
    <3> QED BY <1>0, <3>6 DEF ChainKept
  <2> QED BY <2>1, <2>2
<1>7. CASE GdbDeletes
  <2>1. Reads({"delete"}) /\ UNCHANGED Printed /\ objects' \subseteq objects
    BY <1>7 DEF GdbDeletes, Printed
  <2> QED BY <1>0, <1>1, <2>1, ChainElse
<1> QED BY <1>2, <1>3, <1>4, <1>5, <1>6, <1>7, <1>8 DEF Gdb

-----------------------------------------------------------------------------
(* All of it: an inductive invariant, with the way as its witness.         *)
Kept(now, last) ==
  /\ Way(now, last) /\ AlertKept(now) /\ Released(now)
  /\ Known(now) /\ ToldKept(now) /\ ChainKept(now)

(* Without objects and records there is nothing to know. *)
Anew ==
  /\ fromGdb = <<>> /\ objects = {} /\ nextObject = 1 /\ changed \in Nat /\ at \in Nat
  /\ ~ synced
  /\ \/ state = "none" /\ target.status = "none"
     \/ state = "launching" /\ target.status = "unattached"

Going == \E now, last \in Nodes : Kept(now, last)

Inv == Types /\ Going

LEMMA AnewGoing == Anew => Going
<1> SUFFICES ASSUME Anew PROVE Going
  OBVIOUS
<1> DEFINE n == [state |-> state, at |-> at, blocked |-> FALSE, value |-> changed, next |-> 1]
<1>1. n \in Nodes
  BY DEF Anew, Nodes, Statuses
<1>2. Leads(n, fromGdb, n)
  BY <1>1, LeadsNowhere DEF Anew
<1>3. Ends(n)
  BY DEF Anew, Ends
<1>4. n.state = state /\ n.at = at
  OBVIOUS
<1>5. Printed = {}
  BY ElementsFew DEF Anew, Printed
<1> HIDE DEF n
<1>6. Way(n, n)
  BY <1>1, <1>2, <1>3, <1>4 DEF Anew, Way
<1>7. Known(n) /\ ToldKept(n) /\ ChainKept(n)
  BY <1>5 DEF Anew, Known, ToldKept, ChainKept
<1>8. AlertKept(n) /\ Released(n)
  BY <1>4 DEF Anew, AlertKept, Released
<1> QED BY <1>1, <1>6, <1>7, <1>8 DEF Going, Kept

LEMMA KeptInit ==
  ASSUME Init
  PROVE  Going
BY AnewGoing DEF Init, Anew

LEMMA KeptHandled ==
  ASSUME Types, Types', NEW now, NEW last, Kept(now, last), Handle
  PROVE  Going'
<1>1. Way(now, last) /\ last \in Nodes
  BY DEF Kept, Way
<1>2. PICK n2 \in Nodes : Moves(now, Head(fromGdb), n2) /\ Way(n2, last)'
  BY <1>1, WayHandled
<1>3. AlertKept(n2)' /\ Known(n2)' /\ ChainKept(n2)'
  BY <1>2, AlertHandled, KnownHandled, ChainHandled DEF Kept
<1>4. ToldKept(n2)' /\ Released(n2)'
  BY <1>2, ToldHandled, ReleasedHandled DEF Kept
<1> QED BY <1>1, <1>2, <1>3, <1>4 DEF Going, Kept

LEMMA KeptGdb ==
  ASSUME Types, NEW now \in Nodes, NEW last, Kept(now, last), Gdb
  PROVE  \E l2 \in Nodes : Kept(now, l2)'
<1>1. /\ Way(now, last) /\ AlertKept(now) /\ Released(now)
      /\ Known(now) /\ ToldKept(now) /\ ChainKept(now)
  BY DEF Kept
<1>2. PICK l2 \in Nodes : Way(now, l2)'
  BY <1>1, WayGdb
<1>3. /\ AlertKept(now)' /\ Released(now)'
      /\ Known(now)' /\ ToldKept(now)' /\ ChainKept(now)'
  BY <1>1, AlertGdb, ReleasedGdb, KnownGdb, ToldGdb, ChainGdb
<1> QED BY <1>2, <1>3 DEF Kept

LEMMA KeptTarget ==
  ASSUME Types, NEW now \in Nodes, NEW last, Kept(now, last), Target
  PROVE  \E l2 \in Nodes : Kept(now, l2)'
<1>1. /\ Way(now, last) /\ AlertKept(now) /\ Released(now)
      /\ Known(now) /\ ToldKept(now) /\ ChainKept(now)
  BY DEF Kept
<1>2. PICK l2 \in Nodes : Way(now, l2)'
  BY <1>1, WayTarget
<1>3. /\ UNCHANGED <<state, watchOf, cells, analyzer, objects, nextObject, at, Written>>
      /\ target.status = "running" /\ Printed \subseteq Printed'
      /\ \A r \in Printed' : r \in Printed \/ r.kind # "created"
      /\ changed' = changed \/ \A o \in objects : o.told < changed'
  BY TargetSteps DEF coordinator, Written, slot
<1>4. AlertKept(now)'
  BY <1>1, <1>3, AlertElse DEF Asks
<1>5. Known(now)'
  BY <1>1, <1>3, KnownElse
<1>6. ToldKept(now)'
  <2>1. changed' = changed \/ \A o \in objects : o.told < changed' /\ o.told # changed'
    BY <1>3, Bounded DEF Types, Objects
  <2> QED BY <1>1, <1>3, <2>1, ToldElse
<1>7. ChainKept(now)'
  <2>1. state = "stopped" => Prints("running")
    BY <1>1, <1>3, RunsAgain DEF Halted, Way
  <2> QED BY <1>3, <2>1 DEF ChainKept, Chained, Prints
<1>8. Released(now)'
  BY <1>1, <1>3, ReleasedElse DEF Halted
<1> QED BY <1>2, <1>4, <1>5, <1>6, <1>7, <1>8 DEF Kept

LEMMA KeptUser ==
  ASSUME Types, Types', NEW now \in Nodes, NEW last \in Nodes, Kept(now, last), User
  PROVE  Going'
<1>1. /\ Way(now, last) /\ AlertKept(now) /\ Released(now)
      /\ Known(now) /\ ToldKept(now) /\ ChainKept(now)
  BY DEF Kept
<1>2. CASE /\ UNCHANGED <<slot, objectOf, watchOf, cells, analyzer, fromGdb, gdb, at>>
           /\ Written \subseteq Written'
  <2>1. UNCHANGED <<target, stops, changed, objects, nextObject, Printed>>
    BY <1>2 DEF gdb, Printed
  <2>7. UNCHANGED <<state, synced>>
    BY <1>2 DEF slot
  <2>2. Way(now, last)'
    BY <1>1, <1>2, <2>1, <2>7 DEF Way, Ends
  <2>3. AlertKept(now)'
    BY <1>1, <1>2, <2>1, <2>7, AlertElse DEF Asks
  <2>8. Released(now)'
    BY <1>1, <1>2, <2>1, <2>7, ReleasedElse DEF Asks, Halted
  <2>4. Known(now)'
    BY <1>1, <1>2, <2>1, KnownElse
  <2>5. ToldKept(now)'
    BY <1>1, <1>2, <2>1, ToldElse
  <2>6. ChainKept(now)'
    BY <1>1, <1>2, <2>1, <2>7, ChainElse DEF Asks
  <2> QED BY <2>2, <2>3, <2>4, <2>5, <2>6, <2>8 DEF Going, Kept
<1>3. CASE /\ at' = at /\ toGdb' = <<>> /\ fromGdb' = <<>> /\ objects' = {} /\ nextObject' = 1
           /\ synced' = FALSE
           /\ \/ state' = "none" /\ target'.status = "none"
              \/ state' = "launching" /\ target'.status = "unattached"
  <2>1. changed' \in Nat /\ at' \in Nat
    BY Bounded DEF Types, Values
  <2>2. Anew'
    BY <1>3, <2>1 DEF Anew
  <2> QED BY <2>2, AnewGoing, PTL
<1> QED BY <1>2, <1>3, UserSteps

LEMMA AlwaysKept == Spec => []Inv
<1>1. Init => Inv
  BY TypesInit, KeptInit DEF Inv
<1>2. Inv /\ [Next]_vars => Inv'
  <2> SUFFICES ASSUME Types, Types', NEW now \in Nodes, NEW last \in Nodes, Kept(now, last),
                      [Next]_vars
               PROVE  Going'
    BY TypesStep DEF Inv, Going
  <2>1. CASE UNCHANGED vars
    <3>1. Kept(now, last)'
      <4>1. UNCHANGED <<state, synced, coordinator, analyzer, toGdb, fromGdb, gdb, at>>
        BY <2>1 DEF vars, slot
      <4>2. UNCHANGED <<target, stops, changed, objects, nextObject, Printed, Written, watchOf, cells>>
        BY <4>1 DEF gdb, coordinator, Printed, Written
      <4>3. Way(now, last)'
        BY <4>1, <4>2 DEF Kept, Way, Ends
      <4>4. AlertKept(now)'
        BY <4>1, <4>2, AlertElse DEF Kept, Asks
      <4>5. Known(now)' /\ ToldKept(now)'
        BY <4>1, <4>2, KnownElse, ToldElse DEF Kept
      <4>6. ChainKept(now)'
        BY <4>1, <4>2, ChainElse DEF Kept, Asks
      <4>7. Released(now)'
        BY <4>1, <4>2, ReleasedElse DEF Kept, Asks, Halted
      <4> QED BY <4>3, <4>4, <4>5, <4>6, <4>7 DEF Kept
    <3> QED BY <3>1 DEF Going
  <2>2. CASE Handle
    BY <2>2, KeptHandled
  <2>3. CASE User
    BY <2>3, KeptUser
  <2>4. CASE Gdb
    BY <2>4, KeptGdb DEF Going
  <2>5. CASE Target
    BY <2>5, KeptTarget DEF Going
  <2> QED BY <2>1, <2>2, <2>3, <2>4, <2>5 DEF Next
<1> QED BY <1>1, <1>2, PTL DEF Spec

(* When every answer is handled the coordinator stands where gdb is. *)
LEMMA SettledThere ==
  ASSUME Types, NEW now, NEW last, Way(now, last), Settled
  PROVE  /\ Written = {} /\ Printed = {} /\ state = "stopped"
         /\ now = last /\ now.blocked = target.blocked /\ now.next = nextObject /\ at # 0
<1>1. toGdb = <<>> /\ fromGdb = <<>> /\ state = "stopped"
  BY DEF Settled, Quiet
<1>2. now \in Nodes /\ now.state = "stopped" /\ at # 0 /\ Ends(last)
  BY <1>1 DEF Way
<1>3. now = last
  BY <1>1, <1>2, LeadsNowhere DEF Way
<1>4. target.status = "stopped"
  BY <1>2, <1>3 DEF Types, Ends
<1> QED BY <1>1, <1>2, <1>3, <1>4, ElementsFew DEF Written, Printed, Ends

(* An alert of a stopped rank is about the stop shown, never about an      *)
(* earlier one whose stack arrived late or of the last session; and a rank *)
(* that runs has none once every answer is handled, although the flush of  *)
(* its breakpoints sets it running unannounced                             *)
(* (DeadlockAnalyzer::onRankStateChanged).                                 *)
THEOREM AlertCurrentHolds == Spec => []AlertCurrent
<1>1. Inv => AlertCurrent
  <2> SUFFICES ASSUME Inv PROVE AlertCurrent
    OBVIOUS
  <2>1. PICK now, last \in Nodes : Kept(now, last)
    BY DEF Inv, Going
  <2>2. AlertKept(now) /\ Released(now)
    BY <2>1 DEF Kept
  <2>3. ASSUME Quiet, state = "running" PROVE alert = 0
    <3>1. Written = {} /\ Printed = {}
      BY <2>3, ElementsFew DEF Quiet, Written, Printed
    <3>2. now.state = "running"
      BY <2>2, <2>3, <3>1 DEF Released, Prints, Asks
    <3> QED BY <2>2, <3>2 DEF AlertKept
  <2>4. state = "stopped" => alert \in {0, at}
    BY <2>2 DEF AlertKept
  <2> QED BY <2>3, <2>4 DEF AlertCurrent
<1> QED BY <1>1, AlwaysKept, PTL

(* Once every answer of a stop is handled, the rank has an alert if and    *)
(* only if it is blocked in MPI: no later announcement loses the question, *)
(* although every one of them asks again.                                  *)
THEOREM AlertSettledHolds == Spec => []AlertSettled
<1>1. Inv => AlertSettled
  <2> SUFFICES ASSUME Inv, Settled PROVE alert # 0 <=> target.blocked
    BY DEF AlertSettled
  <2>1. PICK now, last \in Nodes : Kept(now, last)
    BY DEF Inv, Going
  <2>2. /\ Written = {} /\ Printed = {} /\ state = "stopped"
        /\ now.blocked = target.blocked /\ at # 0
    BY <2>1, SettledThere DEF Inv, Kept
  <2>3. ~ Asks("stack") /\ ~ Prints("stack") /\ ~ Prints("running")
    BY <2>2 DEF Asks, Prints
  <2>4. alert = (IF now.blocked THEN at ELSE 0)
    BY <2>1, <2>2, <2>3 DEF Kept, AlertKept
  <2> QED BY <2>2, <2>4
<1> QED BY <1>1, AlwaysKept, PTL

(* No variable object is forgotten: gdb only has objects the coordinator   *)
(* knows under their name, is about to be told of, or has deleted          *)
(* (GdbRankCoordinator's m_varNameRevMap and the -var-create answers).     *)
THEOREM ObjectsKnownHolds == Spec => []ObjectsKnown
<1>1. Inv => ObjectsKnown
  <2> SUFFICES ASSUME Inv, NEW o \in objects
               PROVE  \/ o.number \in DOMAIN watchOf /\ watchOf[o.number] = o.watch
                      \/ \E i \in DOMAIN fromGdb : /\ fromGdb[i].kind = "created"
                                                  /\ fromGdb[i].number = o.number
                      \/ \E i \in DOMAIN toGdb : o.number \in toGdb[i].numbers
    BY DEF ObjectsKnown
  <2>1. PICK now, last \in Nodes : Kept(now, last)
    BY DEF Inv, Going
  <2>2. Known(now)
    BY <2>1 DEF Kept
  <2>3. CASE o.number < now.next /\ o.number \in DOMAIN watchOf
    BY <2>2, <2>3 DEF Known
  <2>4. CASE Forgotten(o, now)
    <3>1. PICK c \in Written : o.number \in c.numbers
      BY <2>2, <2>4 DEF Known
    <3> QED BY <3>1 DEF Written, Elements
  <2>5. CASE ~ (o.number < now.next)
    <3>1. PICK r \in Printed : r.kind = "created" /\ r.number = o.number
      BY <2>2, <2>5 DEF Known
    <3> QED BY <3>1 DEF Printed, Elements
  <2> QED BY <2>3, <2>4, <2>5 DEF Forgotten
<1> QED BY <1>1, AlwaysKept, PTL

(* Once every answer of a stop is handled, a watch whose object the        *)
(* coordinator knows shows its value of this stop, or that it is gone,     *)
(* however stops, resumes and additions of watches overlapped the answers. *)
THEOREM WatchesFreshHolds == Spec => []WatchesFresh
<1>1. Inv => WatchesFresh
  <2> SUFFICES ASSUME Inv, Settled, NEW o \in objects, o.number \in DOMAIN watchOf
               PROVE  cells[o.watch] \in {changed, Gone}
    BY DEF WatchesFresh
  <2>1. PICK now, last \in Nodes : Kept(now, last)
    BY DEF Inv, Going
  <2>2. Written = {} /\ Printed = {} /\ state = "stopped"
    BY <2>1, SettledThere DEF Inv, Kept
  <2>3. ~ Chained /\ ~ Dies(o)
    BY <2>2 DEF Chained, Asks, Prints, Dies
  <2>4. ~ Forgotten(o, now)
    BY DEF Forgotten
  <2>5. o.told = changed
    BY <2>1, <2>2, <2>3, <2>4 DEF Kept, ChainKept
  <2>6. Shows(o, now)
    BY <2>1, <2>4, <2>5 DEF Kept, ToldKept
  <2> QED BY <2>2, <2>6 DEF Shows
<1> QED BY <1>1, AlwaysKept, PTL

=============================================================================
