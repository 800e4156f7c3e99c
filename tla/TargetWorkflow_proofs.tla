------------------------ MODULE TargetWorkflow_proofs ------------------------
(***************************************************************************)
(* That a rank is moved from where it stands, exits at a return, and that  *)
(* cursor, address and history are one, for any targets, images of         *)
(* binaries, listings, ranks and bounds.                                   *)
(*                                                                         *)
(* The history and the highlight are properties of a view by itself, which *)
(* every seek establishes and every other change keeps (Good).  That the   *)
(* addresses stay addresses needs the walk of Run and Continue to be       *)
(* defined: Walk is recursive, and the existence of its function is proved *)
(* by the least length for which there would be none.  That a rank said to *)
(* have exited is at a return needs the length of what lies ahead of it to *)
(* shrink with every instruction.                                          *)
(***************************************************************************)
EXTENDS TargetWorkflow, WellFoundedInduction, SequenceTheorems, FiniteSetTheorems, TLAPS

-----------------------------------------------------------------------------
(* Numbers.                                                                *)

(* A set of numbers has a least element. *)
LEMMA SmallestNumber ==
  ASSUME NEW T, T \subseteq Nat, T # {}
  PROVE  \E x \in T : \A y \in T : x <= y
<1> DEFINE Less == {ss \in Nat \X Nat : ss[1] < ss[2]}
<1>1. IsWellFoundedOn(Less, Nat)
  BY NatLessThanWellFounded, SMT DEF OpToRel
<1>2. PICK x \in T : \A y \in T : ~ (<<y, x>> \in Less)
  BY <1>1, WFMin
<1>3. ASSUME NEW y \in T PROVE x <= y
  <2>1. x \in Nat /\ y \in Nat /\ <<y, x>> \notin Less
    BY <1>2
  <2>2. ~ (y < x)
    BY <2>1
  <2> QED BY <2>1, <2>2
<1> QED BY <1>3

(* A listing starts with one of its instructions. *)
LEMMA FirstIn ==
  ASSUME NEW listing, listing \in (SUBSET Addresses) \ {{}}
  PROVE  First(listing) \in listing /\ First(listing) \in Addresses
<1>1. \E x \in listing : \A y \in listing : x <= y
  BY SmallestNumber, TargetAssumption
<1> QED BY <1>1 DEF First

(* What a binary contains. *)
LEMMA ImageType ==
  ASSUME NEW b \in Binaries
  PROVE  /\ Image[b].main \in (SUBSET Addresses) \ {{}}
         /\ Image[b].functions \subseteq (SUBSET Addresses) \ {{}}
         /\ Image[b].returns \subseteq Addresses
         /\ Image[b].lineAddress \in [Lines -> Addresses]
BY TargetAssumption

LEMMA NoBinary == None \notin Binaries /\ None \notin Versions
BY TargetAssumption

LEMMA FixtureType == Fixture \in (SUBSET Addresses) \ {{}}
BY TargetAssumption

LEMMA LineAddressType ==
  ASSUME NEW b \in Binaries \cup {None}, NEW l \in Lines
  PROVE  LineAddress(b, l) \in Addresses
BY ImageType, FixtureType, FirstIn, NoBinary DEF LineAddress

-----------------------------------------------------------------------------
(* Views.                                                                  *)

(* The steps of the history move. *)
Moving(v) ==
  /\ (v.at = 0) <=> (v.history = <<>>)
  /\ \A i \in 1..Len(v.history) - 1 : v.history[i] # v.history[i + 1]

Good(v) ==
  /\ v \in Views /\ Moving(v)
  /\ v.at > 0 => v.history[v.at] = v.address
  /\ v.address \in v.listing => v.cursor = v.address

(* A new listing changes neither history nor address. *)
LEMMA ShowKeeps ==
  ASSUME NEW v \in Views, NEW listing \in (SUBSET Addresses) \ {{}}
  PROVE  /\ Show(v, listing) \in Views
         /\ Show(v, listing).history = v.history
         /\ Show(v, listing).at = v.at
         /\ Show(v, listing).address = v.address
         /\ Show(v, listing).listing = listing
         /\ Show(v, listing).cursor = IF v.cursor \in listing THEN v.cursor
                                      ELSE First(listing)
BY FirstIn DEF Show, Views

(* Drawing a listing again changes nothing a good view promises. *)
LEMMA ShowAgain ==
  ASSUME NEW v, Good(v)
  PROVE  Good(Show(v, v.listing))
<1>1. v \in Views /\ v.listing \in (SUBSET Addresses) \ {{}}
  BY DEF Good, Views
<1> QED BY <1>1, ShowKeeps DEF Good, Moving

(* A seek shows a function of the binary, or keeps the listing. *)
LEMMA MovedKeeps ==
  ASSUME NEW v \in Views, NEW b \in Binaries \cup {None}, NEW a \in Addresses
  PROVE  /\ Moved(v, b, a) \in Views
         /\ Moved(v, b, a).history = v.history
         /\ Moved(v, b, a).at = v.at
         /\ Moved(v, b, a).address = a
         /\ Moved(v, b, a).cursor = a
<1> DEFINE listing == IF FunctionsAt(b, a) = {} THEN v.listing
                      ELSE CHOOSE f \in FunctionsAt(b, a) : TRUE
<1>1. FunctionsAt(b, a) \subseteq (SUBSET Addresses) \ {{}}
  BY ImageType DEF FunctionsAt
<1>2. listing \in (SUBSET Addresses) \ {{}}
  BY <1>1 DEF Views
<1>3. Moved(v, b, a) = [v EXCEPT !.listing = listing, !.cursor = a, !.address = a]
  BY DEF Moved
<1> HIDE DEF listing
<1> QED BY <1>2, <1>3 DEF Views

(* A seek leaves the position at the address, and at the end of a history  *)
(* whose steps move.                                                       *)
LEMMA RememberedGood ==
  ASSUME NEW v \in Views, Moving(v), v.cursor = v.address, v.address \in Addresses
  PROVE  Good(Remembered(v, v.address))
<1> DEFINE past == SubSeq(v.history, 1, v.at)
           a == v.address
           u == Remembered(v, a)
<1>1. v.history \in Seq(Addresses) /\ v.at \in 0..Len(v.history)
  BY DEF Views
<1>2. /\ past \in Seq(Addresses) /\ Len(past) = v.at
      /\ \A i \in 1..v.at : past[i] = v.history[i]
  BY <1>1
<1> HIDE DEF past
<1>3. CASE past # <<>> /\ Last(past) = a
  <2>1. u = [v EXCEPT !.history = past]
    BY <1>3 DEF Remembered, past
  <2>2. u.history = past /\ u.at = v.at /\ u.address = a /\ u.cursor = a /\ u.listing = v.listing
    BY <2>1 DEF Views
  <2>3. u \in Views
    BY <1>2, <2>1 DEF Views
  <2>4. Moving(u)
    BY <1>1, <1>2, <1>3, <2>2 DEF Moving
  <2>5. u.at > 0 => u.history[u.at] = u.address
    BY <1>2, <1>3, <2>2 DEF Last
  <2> QED BY <2>2, <2>3, <2>4, <2>5 DEF Good
<1>4. CASE ~ (past # <<>> /\ Last(past) = a)
  <2>1. u = [v EXCEPT !.history = Append(past, a), !.at = Len(past) + 1]
    BY <1>4 DEF Remembered, past
  <2>2. /\ u.history = Append(past, a) /\ u.at = v.at + 1 /\ u.address = a
        /\ u.cursor = a /\ u.listing = v.listing
    BY <1>2, <2>1 DEF Views
  <2>3. /\ Append(past, a) \in Seq(Addresses) /\ Len(Append(past, a)) = v.at + 1
        /\ Append(past, a)[v.at + 1] = a
        /\ \A i \in 1..v.at : Append(past, a)[i] = v.history[i]
    BY <1>1, <1>2
  <2>4. u \in Views
    <3>1. v.at + 1 \in Nat /\ Len(past) + 1 = v.at + 1
      BY <1>1, <1>2
    <3>2. u = [listing |-> v.listing, cursor |-> v.cursor, address |-> v.address,
               history |-> Append(past, a), at |-> v.at + 1]
      BY <2>1, <3>1 DEF Views
    <3> QED BY <2>3, <3>1, <3>2 DEF Views
  <2>5. v.at > 0 => v.history[v.at] # a
    BY <1>1, <1>2, <1>4 DEF Last
  <2>6. Moving(u)
    <3>1. u.at # 0 /\ u.history # <<>>
      <4>1. v.at \in Nat
        BY <1>1
      <4>2. u.at # 0
        BY <2>2, <4>1
      <4>3. Len(u.history) = v.at + 1
        BY <2>2, <2>3
      <4>4. Len(u.history) # 0
        BY <4>1, <4>3
      <4>5. u.history # <<>>
        BY <4>4
      <4> QED BY <4>2, <4>5
    <3>2. ASSUME NEW i \in 1..Len(u.history) - 1
          PROVE  u.history[i] # u.history[i + 1]
      BY <1>1, <2>2, <2>3, <2>5 DEF Moving
    <3> QED BY <3>1, <3>2 DEF Moving
  <2>7. u.history[u.at] = u.address
    BY <2>2, <2>3
  <2> QED BY <2>2, <2>4, <2>6, <2>7 DEF Good
<1> QED BY <1>3, <1>4

LEMMA SeekGood ==
  ASSUME NEW v \in Views, Moving(v), NEW b \in Binaries \cup {None}, NEW a \in Addresses
  PROVE  Good(Seek(v, b, a)) /\ Seek(v, b, a).cursor = a
<1>1. /\ Moved(v, b, a) \in Views /\ Moving(Moved(v, b, a))
      /\ Moved(v, b, a).address = a /\ Moved(v, b, a).cursor = a
  BY MovedKeeps DEF Moving
<1>2. Good(Remembered(Moved(v, b, a), a))
  BY <1>1, RememberedGood
<1>3. Remembered(Moved(v, b, a), a).cursor = a
  BY <1>1 DEF Remembered, Views
<1> QED BY <1>2, <1>3 DEF Seek

LEMMA ShowRankGood ==
  ASSUME NEW v \in Views, Moving(v), NEW b \in Binaries \cup {None}, NEW a \in Addresses
  PROVE  Good(ShowRank(v, b, a)) /\ ShowRank(v, b, a).cursor = a
<1>1. Show(v, Fixture) \in Views /\ Moving(Show(v, Fixture))
  BY ShowKeeps, FixtureType DEF Moving
<1> QED BY <1>1, SeekGood DEF ShowRank

-----------------------------------------------------------------------------
(* Instructions.                                                           *)

(* An instruction leads to an instruction. *)
LEMMA AdvanceType ==
  ASSUME NEW b, NEW listing \in (SUBSET Addresses) \ {{}}, NEW a \in Addresses
  PROVE  Advance(b, listing, a) \in Addresses
<1>1. NextInstruction(listing, a) \in Addresses
  <2>1. {x \in listing : x > a} = {} \/ {x \in listing : x > a} \in (SUBSET Addresses) \ {{}}
    OBVIOUS
  <2> QED BY <2>1, FirstIn, TargetAssumption DEF NextInstruction
<1>2. JumpTargets(b, listing, a) \subseteq Addresses
  BY DEF JumpTargets
<1> QED BY <1>1, <1>2 DEF Advance

(* The walk of Run and Continue, instruction by instruction: the function  *)
(* it is read off exists, because there is no least length without one.    *)
LEMMA WalkSteps ==
  ASSUME NEW b, NEW listing \in (SUBSET Addresses) \ {{}}, NEW from \in Addresses,
         NEW stops
  PROVE  \E after :
           /\ after[1] = Advance(b, listing, from)
           /\ \A n \in 1..MaxWalk : n # 1 =>
                after[n] = IF after[n - 1] \in stops THEN after[n - 1]
                           ELSE Advance(b, listing, after[n - 1])
           /\ Walk(b, listing, from, stops) = after[MaxWalk]
<1> DEFINE Next1(a) == Advance(b, listing, a)
           Body(f, n) == IF n = 1 THEN Next1(from)
                         ELSE IF f[n - 1] \in stops THEN f[n - 1]
                         ELSE Next1(f[n - 1])
           Walks(f, k) == f \in [1..k -> Addresses] /\ \A n \in 1..k : f[n] = Body(f, n)
           Without == {k \in Nat \ {0} : ~ \E f : Walks(f, k)}
<1>1. \A a \in Addresses : Next1(a) \in Addresses
  BY AdvanceType
<1>2. MaxWalk \in Nat \ {0}
  BY TargetAssumption
<1> HIDE DEF Next1
<1>3. Without = {}
  <2> SUFFICES ASSUME Without # {} PROVE FALSE
    OBVIOUS
  <2>1. PICK k \in Without : \A j \in Without : k <= j
    BY SmallestNumber
  <2>2. CASE k = 1
    <3>1. Walks([n \in 1..1 |-> Next1(from)], 1)
      BY <1>1
    <3> QED BY <2>1, <2>2, <3>1
  <2>3. CASE k > 1
    <3>1. k - 1 \in Nat \ {0} /\ k - 1 \notin Without
      <4>1. k \in Nat /\ k - 1 \in Nat \ {0} /\ ~ (k <= k - 1)
        BY <2>1, <2>3
      <4> HIDE DEF Without
      <4> QED BY <2>1, <4>1
    <3>2. PICK f : Walks(f, k - 1)
      BY <3>1
    <3> DEFINE g == [n \in 1..k |-> IF n = k THEN Body(f, k) ELSE f[n]]
    <3>3. f[k - 1] \in Addresses /\ Body(f, k) \in Addresses
      BY <1>1, <2>3, <3>1, <3>2
    <3>4. g \in [1..k -> Addresses]
      BY <3>2, <3>3
    <3>5. ASSUME NEW n \in 1..k PROVE g[n] = Body(g, n)
      <4>1. CASE n = k
        <5>1. g[n] = Body(f, k) /\ g[n - 1] = f[n - 1]
          BY <2>1, <2>3, <4>1
        <5> QED BY <4>1, <5>1
      <4>2. CASE n # k
        <5>1. n \in 1..(k - 1) /\ g[n] = f[n] /\ (n # 1 => g[n - 1] = f[n - 1])
          BY <2>1, <2>3, <4>2
        <5>2. f[n] = Body(f, n)
          BY <3>2, <5>1
        <5> QED BY <5>1, <5>2
      <4> QED BY <4>1, <4>2
    <3> HIDE DEF g
    <3>6. Walks(g, k)
      BY <3>4, <3>5
    <3> QED BY <2>1, <3>6
  <2> QED BY <2>1, <2>2, <2>3
<1>4. PICK f : Walks(f, MaxWalk)
  BY <1>2, <1>3
<1>5. f = [n \in 1..MaxWalk |-> Body(f, n)]
  BY <1>4
<1> DEFINE after == CHOOSE h : h = [n \in 1..MaxWalk |-> Body(h, n)]
<1>6. after = [n \in 1..MaxWalk |-> Body(after, n)]
  BY <1>5
<1>7. Walk(b, listing, from, stops) = after[MaxWalk]
  BY DEF Walk, Next1
<1> HIDE DEF after
<1>8. after[1] = Advance(b, listing, from)
  <2>1. 1 \in 1..MaxWalk
    BY <1>2
  <2>2. after[1] = Body(after, 1)
    BY <1>6, <2>1
  <2> QED BY <2>2 DEF Next1
<1>9. ASSUME NEW n \in 1..MaxWalk, n # 1
      PROVE  after[n] = IF after[n - 1] \in stops THEN after[n - 1]
                        ELSE Advance(b, listing, after[n - 1])
  <2>1. after[n] = Body(after, n)
    BY <1>6
  <2> QED BY <1>9, <2>1 DEF Next1
<1> QED BY <1>7, <1>8, <1>9

(* What holds of the first instruction and is kept by each that follows,   *)
(* R, holds of the last: there is no least number of instructions after    *)
(* which it would not.                                                     *)
LEMMA WalkKeeps ==
  ASSUME NEW b, NEW listing \in (SUBSET Addresses) \ {{}}, NEW from \in Addresses,
         NEW stops, NEW R,
         <<1, Advance(b, listing, from)>> \in R,
         \A n \in 1..MaxWalk : \A a : <<n, a>> \in R =>
           <<n + 1, IF a \in stops THEN a ELSE Advance(b, listing, a)>> \in R
  PROVE  <<MaxWalk, Walk(b, listing, from, stops)>> \in R
<1>1. MaxWalk \in Nat \ {0}
  BY TargetAssumption
<1>2. PICK after :
        /\ after[1] = Advance(b, listing, from)
        /\ \A n \in 1..MaxWalk : n # 1 =>
             after[n] = IF after[n - 1] \in stops THEN after[n - 1]
                        ELSE Advance(b, listing, after[n - 1])
        /\ Walk(b, listing, from, stops) = after[MaxWalk]
  BY WalkSteps
<1> DEFINE Bad == {n \in 1..MaxWalk : <<n, after[n]>> \notin R}
<1>3. Bad = {}
  <2> SUFFICES ASSUME Bad # {} PROVE FALSE
    OBVIOUS
  <2>1. PICK n \in Bad : \A j \in Bad : n <= j
    <3>1. Bad \subseteq Nat
      BY <1>1
    <3> QED BY <3>1, SmallestNumber
  <2>2. n # 1
    BY <1>2, <2>1
  <2>3. n \in 1..MaxWalk /\ n - 1 \in 1..MaxWalk /\ ~ (n <= n - 1) /\ (n - 1) + 1 = n
    BY <1>1, <2>1, <2>2
  <2>4. <<n - 1, after[n - 1]>> \in R
    BY <2>1, <2>3
  <2>5. <<n, IF after[n - 1] \in stops THEN after[n - 1]
             ELSE Advance(b, listing, after[n - 1])>> \in R
    BY <2>3, <2>4
  <2>6. <<n, after[n]>> \in R
    BY <1>2, <2>2, <2>3, <2>5
  <2> QED BY <2>1, <2>6
<1>4. MaxWalk \in 1..MaxWalk
  BY <1>1
<1> QED BY <1>2, <1>3, <1>4

(* The walk ends at an instruction. *)
LEMMA WalkType ==
  ASSUME NEW b, NEW listing \in (SUBSET Addresses) \ {{}}, NEW from \in Addresses,
         NEW stops
  PROVE  Walk(b, listing, from, stops) \in Addresses
<1> DEFINE R == Nat \X Addresses
<1>1. MaxWalk \in Nat
  BY TargetAssumption
<1>2. <<1, Advance(b, listing, from)>> \in R
  BY AdvanceType
<1>3. ASSUME NEW n \in 1..MaxWalk, NEW a, <<n, a>> \in R
      PROVE  <<n + 1, IF a \in stops THEN a ELSE Advance(b, listing, a)>> \in R
  <2>1. a \in Addresses /\ n + 1 \in Nat
    BY <1>3
  <2> QED BY <2>1, AdvanceType
<1> HIDE DEF R
<1>4. <<MaxWalk, Walk(b, listing, from, stops)>> \in R
  BY <1>2, <1>3, WalkKeeps
<1> QED BY <1>4 DEF R

-----------------------------------------------------------------------------
(* Returns, where RunsReturn is a hypothesis.                              *)

(* What the disassembly may list when binary b is loaded. *)
Listings(b) == {Fixture} \cup (IF b = None THEN {} ELSE Image[b].functions)

LEMMA ListingsType ==
  ASSUME NEW b \in Binaries \cup {None}
  PROVE  Listings(b) \subseteq (SUBSET Addresses) \ {{}}
BY FixtureType, ImageType DEF Listings

LEMMA FunctionShape ==
  ASSUME RunsReturn, NEW b \in Binaries, NEW f \in Image[b].functions
  PROVE  /\ f \in (SUBSET Addresses) \ {{}} /\ f \subseteq Nat
         /\ f \cap Fixture = {} /\ f \cap DOMAIN FixtureBack = {}
         /\ IsFiniteSet(f) /\ Cardinality(f) \in Nat /\ Cardinality(f) < MaxWalk
         /\ \A a \in f : (\A x \in f : x <= a) => a \in Returns(b)
<1>1. f \in (SUBSET (Addresses \ Fixture)) \ {{}} /\ Addresses \subseteq Nat
  BY TargetAssumption
<1>2. /\ IsFiniteSet(f) /\ Cardinality(f) < MaxWalk
      /\ DOMAIN FixtureBack \subseteq Fixture
  BY DEF RunsReturn
<1>3. PICK last \in f \cap Image[b].returns : \A a \in f : a <= last
  BY DEF RunsReturn
<1>4. ASSUME NEW a \in f, \A x \in f : x <= a PROVE a \in Returns(b)
  <2>1. a <= last /\ last <= a /\ a \in Nat /\ last \in Nat
    BY <1>1, <1>3, <1>4
  <2>2. a = last
    BY <2>1
  <2> QED BY <1>3, <2>2, NoBinary DEF Returns
<1>5. Cardinality(f) \in Nat
  BY <1>2, FS_CardinalityType
<1> QED BY <1>1, <1>2, <1>4, <1>5

(* How far the end of a function is. *)
Left(f, a) == {x \in f : x > a}

LEMMA LeftShrinks ==
  ASSUME NEW f, IsFiniteSet(f), f \subseteq Nat, NEW a \in Nat, NEW c \in f, c > a
  PROVE  /\ Cardinality(Left(f, a)) \in Nat /\ Cardinality(Left(f, c)) \in Nat
         /\ Cardinality(Left(f, c)) + 1 <= Cardinality(Left(f, a))
<1>1. /\ IsFiniteSet(Left(f, a)) /\ IsFiniteSet(Left(f, c))
  BY FS_Subset DEF Left
<1>2. /\ Cardinality(Left(f, a)) \in Nat /\ Cardinality(Left(f, c)) \in Nat
  BY <1>1, FS_CardinalityType
<1>3. c \in Left(f, a) /\ c \notin Left(f, c) /\ Left(f, c) \subseteq Left(f, a)
  <2>1. c \in Nat /\ ~ (c > c)
    OBVIOUS
  <2>2. ASSUME NEW x \in f, x > c PROVE x > a
    <3>1. x \in Nat /\ c \in Nat
      OBVIOUS
    <3> QED BY <2>2, <3>1
  <2> QED BY <2>1, <2>2 DEF Left
<1>4. /\ Cardinality(Left(f, c)) <= Cardinality(Left(f, a))
      /\ Cardinality(Left(f, c)) # Cardinality(Left(f, a))
  BY <1>1, <1>3, FS_Subset
<1> QED BY <1>2, <1>4

LEMMA LeftBounded ==
  ASSUME NEW f, IsFiniteSet(f), f \subseteq Nat, NEW a \in f
  PROVE  /\ Cardinality(f) \in Nat /\ Cardinality(Left(f, a)) \in Nat
         /\ Cardinality(Left(f, a)) + 1 <= Cardinality(f)
         /\ Cardinality(Left(f, a)) = 0 => \A x \in f : x <= a
<1>1. a \in f /\ a \notin Left(f, a) /\ Left(f, a) \in SUBSET f
  BY DEF Left
<1>2. /\ IsFiniteSet(Left(f, a)) /\ Cardinality(Left(f, a)) <= Cardinality(f)
      /\ Cardinality(Left(f, a)) # Cardinality(f)
  BY <1>1, FS_Subset
<1>3. Cardinality(f) \in Nat /\ Cardinality(Left(f, a)) \in Nat
  BY <1>2, FS_CardinalityType
<1>4. Cardinality(Left(f, a)) = 0 => Left(f, a) = {}
  BY <1>2, FS_EmptySet
<1>5. Left(f, a) = {} => \A x \in f : x <= a
  BY DEF Left
<1> QED BY <1>2, <1>3, <1>4, <1>5

(* Where the next line of a listing leads. *)
LEMMA NextLine ==
  ASSUME NEW listing \in (SUBSET Addresses) \ {{}}, NEW a \in Addresses,
         a \notin DOMAIN FixtureBack
  PROVE  /\ NextInstruction(listing, a) \in listing
         /\ \/ NextInstruction(listing, a) > a
            \/ \A x \in listing : x <= a
<1> DEFINE later == {x \in listing : x > a}
<1>1. Addresses \subseteq Nat
  BY TargetAssumption
<1>2. CASE later # {}
  <2>1. later \in (SUBSET Addresses) \ {{}}
    BY <1>2
  <2>2. NextInstruction(listing, a) = First(later)
    BY <1>2 DEF NextInstruction
  <2> HIDE DEF later
  <2>3. First(later) \in later
    BY <2>1, FirstIn
  <2> QED BY <2>2, <2>3 DEF later
<1>3. CASE later = {}
  <2>1. NextInstruction(listing, a) = First(listing)
    BY <1>3 DEF NextInstruction
  <2>2. \A x \in listing : x <= a
    BY <1>1, <1>3
  <2> QED BY <2>1, <2>2, FirstIn
<1> QED BY <1>2, <1>3

LEMMA JumpAhead ==
  ASSUME NEW b, NEW listing, NEW a, JumpTargets(b, listing, a) # {}
  PROVE  /\ (CHOOSE x \in JumpTargets(b, listing, a) : TRUE) \in listing
         /\ (CHOOSE x \in JumpTargets(b, listing, a) : TRUE) > a
<1>1. (CHOOSE x \in JumpTargets(b, listing, a) : TRUE) \in JumpTargets(b, listing, a)
  OBVIOUS
<1>2. \A x \in JumpTargets(b, listing, a) : x \in listing /\ x > a
  BY DEF JumpTargets
<1> QED BY <1>1, <1>2

(* In a function every instruction but a return leads further down. *)
LEMMA Onward ==
  ASSUME RunsReturn, NEW b \in Binaries, NEW f \in Image[b].functions,
         NEW a \in f, a \notin Returns(b)
  PROVE  Advance(b, f, a) \in f /\ Advance(b, f, a) > a
<1>1. /\ f \in (SUBSET Addresses) \ {{}} /\ a \in Addresses
      /\ a \notin DOMAIN FixtureBack /\ ~ (\A x \in f : x <= a)
  BY FunctionShape
<1>2. NextInstruction(f, a) \in f /\ NextInstruction(f, a) > a
  BY <1>1, NextLine
<1>3. CASE JumpTargets(b, f, a) # {}
  <2>1. Advance(b, f, a) = CHOOSE x \in JumpTargets(b, f, a) : TRUE
    BY <1>3 DEF Advance
  <2> QED BY <1>3, <2>1, JumpAhead
<1>4. CASE JumpTargets(b, f, a) = {}
  <2>1. Advance(b, f, a) = NextInstruction(f, a)
    BY <1>4 DEF Advance
  <2> QED BY <1>2, <2>1
<1> QED BY <1>3, <1>4

(* From anywhere the first instruction leads into the function, or where a *)
(* jump back of the fixture leads, and the second one into the function.   *)
LEMMA Inward ==
  ASSUME RunsReturn, NEW b \in Binaries, NEW f \in Image[b].functions,
         NEW a \in Addresses
  PROVE  /\ Advance(b, f, a) \in f \cup (Fixture \ DOMAIN FixtureBack)
         /\ a \notin DOMAIN FixtureBack => Advance(b, f, a) \in f
<1>1. f \in (SUBSET Addresses) \ {{}}
  BY FunctionShape
<1>2. CASE a \in f \cap Returns(b)
  BY <1>2 DEF Advance
<1>3. CASE a \notin f \cap Returns(b) /\ JumpTargets(b, f, a) # {}
  <2>1. Advance(b, f, a) = CHOOSE x \in JumpTargets(b, f, a) : TRUE
    BY <1>3 DEF Advance
  <2> QED BY <1>3, <2>1, JumpAhead
<1>4. CASE a \notin f \cap Returns(b) /\ JumpTargets(b, f, a) = {}
  <2>1. Advance(b, f, a) = NextInstruction(f, a)
    BY <1>4 DEF Advance
  <2>2. CASE a \in DOMAIN FixtureBack
    <3>1. NextInstruction(f, a) = FixtureBack[a]
      BY <2>2 DEF NextInstruction
    <3>2. FixtureBack[a] \in Fixture
      BY <2>2, TargetAssumption
    <3>3. FixtureBack[a] \notin DOMAIN FixtureBack
      BY <2>2 DEF RunsReturn
    <3>4. Advance(b, f, a) \in Fixture \ DOMAIN FixtureBack
      BY <2>1, <3>1, <3>2, <3>3
    <3> QED BY <2>2, <3>4
  <2>3. CASE a \notin DOMAIN FixtureBack
    <3>1. NextInstruction(f, a) \in f
      BY <1>1, <2>3, NextLine
    <3> QED BY <2>1, <3>1
  <2> QED BY <2>2, <2>3
<1> QED BY <1>2, <1>3, <1>4

(* The fixture leads into itself. *)
LEMMA FixtureAdvance ==
  ASSUME NEW b, NEW a \in Addresses
  PROVE  Advance(b, Fixture, a) \in Fixture
<1>1. CASE a \in Fixture \cap Returns(b)
  BY <1>1 DEF Advance
<1>2. CASE a \notin Fixture \cap Returns(b) /\ JumpTargets(b, Fixture, a) # {}
  <2>1. Advance(b, Fixture, a) = CHOOSE x \in JumpTargets(b, Fixture, a) : TRUE
    BY <1>2 DEF Advance
  <2> QED BY <1>2, <2>1, JumpAhead
<1>3. CASE a \notin Fixture \cap Returns(b) /\ JumpTargets(b, Fixture, a) = {}
  <2>1. Advance(b, Fixture, a) = NextInstruction(Fixture, a)
    BY <1>3 DEF Advance
  <2>2. a \in DOMAIN FixtureBack => NextInstruction(Fixture, a) \in Fixture
    BY TargetAssumption DEF NextInstruction
  <2> QED BY <2>1, <2>2, FixtureType, NextLine
<1> QED BY <1>1, <1>2, <1>3

(* An instruction that does not move is a return, or one of the fixture. *)
LEMMA RestAtReturn ==
  ASSUME RunsReturn, NEW b \in Binaries \cup {None}, NEW listing \in Listings(b),
         NEW a \in Addresses, Advance(b, listing, a) = a
  PROVE  a \in Returns(b) \cup Fixture
<1>1. CASE listing = Fixture
  BY <1>1, FixtureAdvance
<1>2. CASE listing # Fixture
  <2>1. b \in Binaries /\ listing \in Image[b].functions
    BY <1>2 DEF Listings
  <2>2. a \in listing \cup Fixture
    BY <2>1, Inward
  <2>3. CASE a \in listing /\ a \notin Returns(b)
    <3>1. a \in Nat /\ ~ (a > a)
      BY TargetAssumption
    <3> QED BY <2>1, <2>3, <3>1, Onward
  <2> QED BY <2>2, <2>3
<1> QED BY <1>1, <1>2

(* A walk that starts at such an instruction stays there. *)
LEMMA WalkRests ==
  ASSUME NEW b, NEW listing \in (SUBSET Addresses) \ {{}}, NEW from \in Addresses,
         NEW stops, Advance(b, listing, from) = from
  PROVE  Walk(b, listing, from, stops) = from
<1> DEFINE R == Nat \X {from}
<1>1. <<1, Advance(b, listing, from)>> \in R
  OBVIOUS
<1>2. ASSUME NEW n \in 1..MaxWalk, NEW a, <<n, a>> \in R
      PROVE  <<n + 1, IF a \in stops THEN a ELSE Advance(b, listing, a)>> \in R
  <2>1. a = from /\ n + 1 \in Nat
    BY <1>2
  <2> QED BY <2>1
<1> HIDE DEF R
<1>3. <<MaxWalk, Walk(b, listing, from, stops)>> \in R
  BY <1>1, <1>2, WalkKeeps
<1> QED BY <1>3 DEF R

(* A walk through the fixture stays in it. *)
LEMMA WalkInFixture ==
  ASSUME NEW b, NEW from \in Addresses, NEW stops
  PROVE  Walk(b, Fixture, from, stops) \in Fixture
<1> DEFINE R == Nat \X Fixture
<1>1. <<1, Advance(b, Fixture, from)>> \in R
  BY FixtureAdvance
<1>2. ASSUME NEW n \in 1..MaxWalk, NEW a, <<n, a>> \in R
      PROVE  <<n + 1, IF a \in stops THEN a ELSE Advance(b, Fixture, a)>> \in R
  <2>1. a \in Fixture /\ a \in Addresses /\ n + 1 \in Nat
    BY <1>2, FixtureType
  <2>2. Advance(b, Fixture, a) \in Fixture
    BY <2>1, FixtureAdvance
  <2> QED BY <2>1, <2>2
<1> HIDE DEF R
<1>3. <<MaxWalk, Walk(b, Fixture, from, stops)>> \in R
  BY <1>1, <1>2, FixtureType, WalkKeeps
<1> QED BY <1>3 DEF R

(* A walk through a function stops or reaches its return before the bound: *)
(* each instruction leaves fewer of the function ahead, and the first may  *)
(* have been spent on a jump into the fixture.                             *)
Nearer(b, f, n, a) ==
  \/ a \in f \cap Returns(b)
  \/ n = 1 /\ a \in Fixture \ DOMAIN FixtureBack
  \/ a \in f /\ n + Cardinality(Left(f, a)) <= Cardinality(f) + 1

LEMMA NearerStep ==
  ASSUME RunsReturn, NEW b \in Binaries, NEW f \in Image[b].functions,
         NEW n \in Nat \ {0}, NEW a, Nearer(b, f, n, a)
  PROVE  Nearer(b, f, n + 1, Advance(b, f, a))
<1> DEFINE next == Advance(b, f, a)
<1>1. /\ f \in (SUBSET Addresses) \ {{}} /\ f \subseteq Nat /\ IsFiniteSet(f)
      /\ Cardinality(f) \in Nat
  BY FunctionShape
<1>2. CASE a \in f \cap Returns(b)
  BY <1>2 DEF Nearer, Advance
<1>3. CASE n = 1 /\ a \in Fixture \ DOMAIN FixtureBack
  <2>1. next \in f
    BY <1>3, FixtureType, Inward
  <2> HIDE DEF next
  <2>2. Cardinality(Left(f, next)) \in Nat /\ Cardinality(Left(f, next)) + 1 <= Cardinality(f)
    BY <1>1, <2>1, LeftBounded
  <2>3. (n + 1) + Cardinality(Left(f, next)) <= Cardinality(f) + 1
    BY <1>1, <1>3, <2>2
  <2>4. Nearer(b, f, n + 1, next)
    BY <2>1, <2>3 DEF Nearer
  <2> QED BY <2>4 DEF next
<1>4. CASE /\ a \in f /\ a \notin Returns(b)
           /\ n + Cardinality(Left(f, a)) <= Cardinality(f) + 1
  <2>1. next \in f /\ next > a
    BY <1>4, Onward
  <2>2. a \in Nat
    BY <1>1, <1>4
  <2> HIDE DEF next
  <2>3. /\ Cardinality(Left(f, a)) \in Nat /\ Cardinality(Left(f, next)) \in Nat
        /\ Cardinality(Left(f, next)) + 1 <= Cardinality(Left(f, a))
    BY <1>1, <2>1, <2>2, LeftShrinks
  <2>4. (n + 1) + Cardinality(Left(f, next)) <= Cardinality(f) + 1
    BY <1>1, <1>4, <2>3
  <2>5. Nearer(b, f, n + 1, next)
    BY <2>1, <2>4 DEF Nearer
  <2> QED BY <2>5 DEF next
<1> QED BY <1>2, <1>3, <1>4 DEF Nearer

LEMMA WalkEnds ==
  ASSUME RunsReturn, NEW b \in Binaries, NEW f \in Image[b].functions,
         NEW from \in Addresses, NEW stops
  PROVE  Walk(b, f, from, stops) \in stops \cup Returns(b)
<1> DEFINE R == {p \in Nat \X Addresses :
                   p[1] # 0 /\ (p[2] \in stops \/ Nearer(b, f, p[1], p[2]))}
<1>1. /\ f \in (SUBSET Addresses) \ {{}} /\ f \subseteq Nat /\ IsFiniteSet(f)
      /\ Cardinality(f) \in Nat /\ Cardinality(f) < MaxWalk
      /\ MaxWalk \in Nat \ {0}
  BY FunctionShape, TargetAssumption
<1>2. <<1, Advance(b, f, from)>> \in R
  <2> DEFINE next == Advance(b, f, from)
  <2>1. next \in Addresses /\ next \in f \cup (Fixture \ DOMAIN FixtureBack)
    BY <1>1, AdvanceType, Inward
  <2> HIDE DEF next
  <2>2. ASSUME next \in f PROVE 1 + Cardinality(Left(f, next)) <= Cardinality(f) + 1
    <3>1. Cardinality(Left(f, next)) \in Nat /\ Cardinality(Left(f, next)) + 1 <= Cardinality(f)
      BY <1>1, <2>2, LeftBounded
    <3> QED BY <1>1, <3>1
  <2>3. Nearer(b, f, 1, next)
    BY <2>1, <2>2 DEF Nearer
  <2>4. <<1, next>> \in R
    BY <2>1, <2>3
  <2> QED BY <2>4 DEF next
<1>3. ASSUME NEW n \in 1..MaxWalk, NEW a, <<n, a>> \in R
      PROVE  <<n + 1, IF a \in stops THEN a ELSE Advance(b, f, a)>> \in R
  <2>1. n \in Nat \ {0} /\ n + 1 \in Nat \ {0} /\ a \in Addresses
    BY <1>1, <1>3
  <2>2. CASE a \in stops
    BY <2>1, <2>2
  <2>3. CASE a \notin stops
    <3>1. Nearer(b, f, n, a)
      BY <1>3, <2>3
    <3>2. Nearer(b, f, n + 1, Advance(b, f, a))
      BY <2>1, <3>1, NearerStep
    <3>3. Advance(b, f, a) \in Addresses
      BY <1>1, <2>1, AdvanceType
    <3> QED BY <2>1, <2>3, <3>2, <3>3
  <2> QED BY <2>2, <2>3
<1> HIDE DEF R
<1>4. <<MaxWalk, Walk(b, f, from, stops)>> \in R
  BY <1>1, <1>2, <1>3, WalkKeeps
<1> DEFINE last == Walk(b, f, from, stops)
<1> HIDE DEF last
<1>5. last \in stops \/ Nearer(b, f, MaxWalk, last)
  BY <1>4 DEF R, last
<1>6. CASE last \in f /\ MaxWalk + Cardinality(Left(f, last)) <= Cardinality(f) + 1
  <2>1. /\ Cardinality(Left(f, last)) \in Nat
        /\ Cardinality(Left(f, last)) = 0 => \A x \in f : x <= last
    BY <1>1, <1>6, LeftBounded
  <2>2. Cardinality(Left(f, last)) = 0
    BY <1>1, <1>6, <2>1
  <2> QED BY <1>6, <2>1, <2>2, FunctionShape DEF last
<1>7. MaxWalk # 1
  <2>1. Cardinality(f) # 0
    BY <1>1, FS_EmptySet
  <2> QED BY <1>1, <2>1
<1> QED BY <1>5, <1>6, <1>7 DEF Nearer, last

(* Where Run and Continue leave a rank that met no breakpoint. *)
LEMMA WalkReturns ==
  ASSUME RunsReturn, NEW b \in Binaries \cup {None}, NEW listing \in Listings(b),
         NEW from \in Addresses, NEW stops, ~ Hits(b, listing, from, stops)
  PROVE  Walk(b, listing, from, stops) \in Returns(b) \cup Fixture
<1>1. listing \in (SUBSET Addresses) \ {{}}
  BY ListingsType
<1>2. CASE Advance(b, listing, from) = from
  BY <1>1, <1>2, WalkRests, RestAtReturn
<1>3. CASE Walk(b, listing, from, stops) \notin stops
  <2>1. CASE listing = Fixture
    BY <2>1, WalkInFixture
  <2>2. CASE listing # Fixture
    <3>1. b \in Binaries /\ listing \in Image[b].functions
      BY <2>2 DEF Listings
    <3> QED BY <1>3, <3>1, WalkEnds
  <2> QED BY <2>1, <2>2
<1> QED BY <1>2, <1>3 DEF Hits

-----------------------------------------------------------------------------
(* Types and views together.                                               *)

Shape == TypeOK /\ Good(view)

(* What compiling and loading leaves behind. *)
LEMMA EnsuredShape ==
  ASSUME Shape, NEW t \in Targets
  PROVE  /\ Ensured(t).disk \in [Targets -> Versions \cup {None}]
         /\ Ensured(t).loaded \in Binaries \cup {None}
         /\ Good(Ensured(t).view)
         /\ ~ Ensured(t).load => Ensured(t).view = view
         /\ Ensured(t).view \in Views
         /\ Ensured(t).view.listing \in (SUBSET Addresses) \ {{}}
<1> DEFINE need == disk[t] # source[t]
           made == IF need /\ ~broken[t] THEN source[t] ELSE disk[t]
           load == /\ made # None
                   /\ need \/ loaded = None \/ loaded[1] # t
           main == Image[<<t, made>>].main
           shows == IF load THEN Seek(Show(view, main), <<t, made>>, First(main)) ELSE view
           e == Ensured(t)
<1>1. /\ e.disk = [disk EXCEPT ![t] = made]
      /\ e.loaded = IF load THEN <<t, made>> ELSE loaded
      /\ e.load = load /\ e.view = shows
  BY DEF Ensured
<1>2. made \in Versions \cup {None}
  BY DEF Shape, TypeOK
<1>3. load => <<t, made>> \in Binaries
  BY <1>2 DEF Binaries
<1>4. Good(shows)
  <2>1. CASE load
    <3>1. main \in (SUBSET Addresses) \ {{}} /\ First(main) \in Addresses
      BY <1>3, <2>1, ImageType, FirstIn
    <3>2. view \in Views /\ Moving(view)
      BY DEF Shape, Good
    <3> HIDE DEF main
    <3>3. /\ Show(view, main) \in Views
          /\ Show(view, main).history = view.history /\ Show(view, main).at = view.at
      BY <3>1, <3>2, ShowKeeps
    <3>4. Moving(Show(view, main))
      BY <3>2, <3>3 DEF Moving
    <3> QED BY <1>3, <2>1, <3>1, <3>3, <3>4, SeekGood
  <2> QED BY <2>1 DEF Shape
<1> HIDE DEF made, load, shows
<1>5. e.disk \in [Targets -> Versions \cup {None}]
  BY <1>1, <1>2 DEF Shape, TypeOK
<1>6. e.loaded \in Binaries \cup {None}
  BY <1>1, <1>3 DEF Shape, TypeOK
<1>7. shows \in Views /\ shows.listing \in (SUBSET Addresses) \ {{}}
  BY <1>4 DEF Good, Views
<1> QED BY <1>1, <1>4, <1>5, <1>6, <1>7 DEF shows

(* Breakpoints are addresses, and a Run stops at one. *)
LEMMA BreakpointsType ==
  ASSUME TypeOK, NEW b \in Binaries \cup {None}
  PROVE  Breakpoints(b) \in SUBSET Addresses
BY LineAddressType DEF Breakpoints, TypeOK

LEMMA StopAddressType ==
  ASSUME TypeOK, NEW b \in Binaries \cup {None},
         NEW listing \in (SUBSET Addresses) \ {{}}, NEW stops
  PROVE  StopAddress(b, listing, stops) \in Addresses
<1>1. First(listing) \in Addresses /\ Walk(b, listing, First(listing), stops) \in Addresses
  BY FirstIn, WalkType
<1>2. DeadlockLine[shown] # 0 => LineAddress(b, DeadlockLine[shown]) \in Addresses
  <2>1. DeadlockLine[shown] \in Lines \cup {0}
    BY TargetAssumption DEF TypeOK
  <2> QED BY <2>1, LineAddressType
<1> QED BY <1>1, <1>2 DEF StopAddress

LEMMA SpendShape == TypeOK /\ Spend => spent' \in 0..MaxActs
<1>1. MaxActs \in Nat
  BY TargetAssumption
<1>2. TypeOK => spent \in 0..MaxActs
  BY DEF TypeOK
<1> QED BY <1>1, <1>2 DEF Spend

(* A rank that moves, by a step or by Continue. *)
LEMMA MoveRankShape ==
  ASSUME Shape, NEW to \in Addresses, MoveRank(to), status' \in Statuses
  PROVE  Shape' /\ view'.cursor = pc'[selected']
<1>1. Good(view') /\ view'.cursor = to
  BY SeekGood DEF Shape, TypeOK, Good, MoveRank
<1>2. PICK n \in 1..MaxRanks : pc \in [0..n - 1 -> Addresses] /\ selected \in 0..n - 1
  BY DEF Shape, TypeOK
<1>3. pc' \in [0..n - 1 -> Addresses] /\ selected' \in 0..n - 1 /\ pc'[selected'] = to
  BY <1>2 DEF MoveRank
<1>4. selected \in 0..MaxRanks - 1
  BY <1>2, TargetAssumption
<1>5. view' \in Views
  BY <1>1 DEF Good
<1>6. TypeOK'
  BY <1>3, <1>4, <1>5 DEF Shape, TypeOK, MoveRank, files
<1> QED BY <1>1, <1>3, <1>6 DEF Shape

(* A Run: every rank stands where the cursor is. *)
LEMMA StartedShape ==
  ASSUME Shape, RunTarget
  PROVE  Shape' /\ view'.cursor = pc'[selected']
<1> DEFINE e == Ensured(shown)
           b == e.loaded
           stops == Breakpoints(b)
           stop == StopAddress(b, e.view.listing, stops)
           v == IF selected < spin THEN ShowRank(e.view, b, stop) ELSE e.view
<1>1. /\ disk' = e.disk /\ loaded' = b /\ bookmarks' = stops
      /\ Started(b, e.view, stop)
      /\ active' = TRUE /\ status' = "PAUSED" /\ mover' = "run"
      /\ UNCHANGED <<shown, source, broken, terminal, marks, spin, spent>>
  BY DEF RunTarget
<1>2. /\ e.disk \in [Targets -> Versions \cup {None}] /\ b \in Binaries \cup {None}
      /\ Good(e.view) /\ e.view \in Views
      /\ e.view.listing \in (SUBSET Addresses) \ {{}}
  BY EnsuredShape DEF Shape, TypeOK
<1> HIDE DEF e, b
<1>3. stops \in SUBSET Addresses
  BY <1>2, BreakpointsType DEF Shape
<1> HIDE DEF stops
<1>4. stop \in Addresses
  BY <1>2, StopAddressType DEF Shape
<1> HIDE DEF stop
<1>5. v \in Views /\ Moving(v)
  BY <1>2, <1>4, ShowRankGood DEF Good
<1> HIDE DEF v
<1>6. view' = Seek(v, b, stop)
  BY <1>1 DEF Started, v
<1>7. Good(view') /\ view'.cursor = stop
  BY <1>2, <1>4, <1>5, <1>6, SeekGood
<1>8. /\ pc' = [r \in 0..spin - 1 |-> stop]
      /\ selected' = IF selected < spin THEN selected ELSE 0
      /\ focused' = selected
  BY <1>1 DEF Started
<1>9. spin \in 1..MaxRanks /\ MaxRanks \in Nat /\ selected \in 0..MaxRanks - 1
  <2>1. PICK n \in 1..MaxRanks : selected \in 0..n - 1
    BY DEF Shape, TypeOK
  <2> QED BY <2>1, TargetAssumption DEF Shape, TypeOK
<1>10. pc' \in [0..spin - 1 -> Addresses] /\ selected' \in 0..spin - 1 /\ pc'[selected'] = stop
  BY <1>4, <1>8, <1>9
<1>11. TypeOK'
  <2>1. \E n \in 1..MaxRanks : pc' \in [0..n - 1 -> Addresses] /\ selected' \in 0..n - 1
    BY <1>9, <1>10
  <2>2. view' \in Views
    BY <1>7 DEF Good
  <2> QED BY <1>1, <1>2, <1>3, <1>8, <1>9, <2>1, <2>2 DEF Shape, TypeOK, Statuses
<1> QED BY <1>7, <1>10, <1>11 DEF Shape

(* What is sent to the terminal are commands. *)
LEMMA SendType ==
  ASSUME NEW t \in Targets, terminal \in Seq({"build", "clean"} \X Targets)
  PROVE  /\ Send(<<<<"build", t>>>>) \/ Send(<<<<"clean", t>>>>)
              \/ Send(<<<<"clean", t>>, <<"build", t>>>>)
           => /\ terminal' \in Seq({"build", "clean"} \X Targets)
              /\ status' \in Statuses
<1> DEFINE C == {"build", "clean"} \X Targets
<1>1. /\ <<<<"build", t>>>> \in Seq(C) /\ <<<<"clean", t>>>> \in Seq(C)
      /\ <<<<"clean", t>>, <<"build", t>>>> \in Seq(C)
  <2>1. <<"build", t>> \in C /\ <<"clean", t>> \in C
    OBVIOUS
  <2> HIDE DEF C
  <2> QED BY <2>1
<1> HIDE DEF C
<1>2. ASSUME NEW s \in Seq(C), Send(s) PROVE terminal' \in Seq(C) /\ status' \in Statuses
  <2>1. terminal \in Seq(C)
    BY DEF C
  <2>2. terminal \o s \in Seq(C)
    BY <2>1
  <2> QED BY <1>2, <2>2 DEF Send, Statuses
<1> QED BY <1>1, <1>2 DEF C

(* The sources, the terminal and the ranks to start: the view is left. *)
LEMMA QuietShape ==
  ASSUME Shape,
         \/ \E t \in Targets, c \in BOOLEAN : EditSource(t, c)
         \/ \E t \in Targets : OpenSource(t)
         \/ CleanTarget \/ RebuildTarget \/ TerminalRuns \/ Stop
         \/ \E n \in 1..MaxRanks : SetRankCount(n)
  PROVE  Shape' /\ UNCHANGED <<view, pc, selected, mover>> /\ (active' => active)
<1>1. CASE \E t \in Targets, c \in BOOLEAN : EditSource(t, c)
  <2>1. MaxEdits \in Nat
    BY TargetAssumption
  <2>2. source' \in [Targets -> Versions] /\ broken' \in [Targets -> BOOLEAN]
    BY <1>1, <2>1 DEF Shape, TypeOK, EditSource, Versions
  <2>3. spent' \in 0..MaxActs
    BY <1>1, SpendShape DEF Shape, EditSource
  <2> QED BY <1>1, <2>2, <2>3
          DEF Shape, TypeOK, Good, Moving, EditSource, session, ranks
<1>2. CASE \E t \in Targets : OpenSource(t)
  <2>1. spent' \in 0..MaxActs
    BY <1>2, SpendShape DEF Shape, OpenSource
  <2>2. /\ shown' \in Targets
        /\ UNCHANGED <<files, terminal, loaded, view, marks, bookmarks, session, ranks, mover>>
    BY <1>2 DEF OpenSource
  <2>3. TypeOK'
    BY <2>1, <2>2 DEF Shape, TypeOK, files, session, ranks
  <2>4. Good(view')
    BY <2>2 DEF Shape
  <2> QED BY <2>2, <2>3, <2>4 DEF Shape, session, ranks
<1>3. CASE CleanTarget \/ RebuildTarget
  <2>1. shown \in Targets /\ terminal \in Seq({"build", "clean"} \X Targets)
    BY DEF Shape, TypeOK
  <2>2. terminal' \in Seq({"build", "clean"} \X Targets) /\ status' \in Statuses
    BY <1>3, <2>1, SendType DEF CleanTarget, RebuildTarget
  <2>3. spent' \in 0..MaxActs
    BY <1>3, SpendShape DEF Shape, CleanTarget, RebuildTarget
  <2>4. UNCHANGED <<shown, files, loaded, view, marks, bookmarks, active, ranks, mover>>
    BY <1>3 DEF CleanTarget, RebuildTarget
  <2>5. TypeOK'
    BY <2>2, <2>3, <2>4 DEF Shape, TypeOK, files, ranks
  <2>6. Good(view')
    BY <2>4 DEF Shape
  <2> QED BY <2>4, <2>5, <2>6 DEF Shape, ranks
<1>4. CASE TerminalRuns
  <2>1. /\ terminal \in Seq({"build", "clean"} \X Targets) /\ terminal # <<>>
        /\ source \in [Targets -> Versions] /\ disk \in [Targets -> Versions \cup {None}]
    BY <1>4 DEF Shape, TypeOK, TerminalRuns
  <2>2. Tail(terminal) \in Seq({"build", "clean"} \X Targets) /\ Head(terminal)[2] \in Targets
    BY <2>1
  <2>3. disk' \in [Targets -> Versions \cup {None}]
    BY <1>4, <2>1, <2>2 DEF TerminalRuns
  <2>4. /\ terminal' = Tail(terminal)
        /\ UNCHANGED <<shown, source, broken, loaded, view, marks, bookmarks, session,
                       ranks, mover, spent>>
    BY <1>4 DEF TerminalRuns
  <2> QED BY <2>2, <2>3, <2>4 DEF Shape, TypeOK, Good, Moving, session, ranks
<1>5. CASE Stop
  BY <1>5 DEF Shape, TypeOK, Good, Stop, files, ranks, Statuses
<1>6. CASE \E n \in 1..MaxRanks : SetRankCount(n)
  BY <1>6, SpendShape DEF Shape, TypeOK, Good, SetRankCount, files, session
<1> QED BY <1>1, <1>2, <1>3, <1>4, <1>5, <1>6

(* Another target, a build: the user moves the cursor, if anybody does. *)
LEMMA LoadShape ==
  ASSUME Shape, (\E t \in Targets : SelectTarget(t)) \/ BuildTarget
  PROVE  /\ Shape' /\ UNCHANGED <<pc, selected>> /\ (active' => active)
         /\ mover' = "user" \/ mover' = mover
         /\ active' /\ mover' # "user" => view' = view
<1>1. CASE BuildTarget
  <2>1. shown \in Targets /\ terminal \in Seq({"build", "clean"} \X Targets)
    BY DEF Shape, TypeOK
  <2>2. terminal' \in Seq({"build", "clean"} \X Targets) /\ status' \in Statuses
    BY <1>1, <2>1, SendType DEF BuildTarget
  <2>3. /\ Good(view') /\ disk' \in [Targets -> Versions \cup {None}]
        /\ loaded' \in Binaries \cup {None}
        /\ mover' # "user" => view' = view \/ mover' # mover
        /\ mover' \in {"user", mover}
    BY <1>1, <2>1, EnsuredShape DEF BuildTarget
  <2>4. mover' # "user" => view' = view
    BY <1>1, <2>1, EnsuredShape DEF BuildTarget
  <2>5. TypeOK'
    BY <1>1, <2>2, <2>3, SpendShape DEF Shape, TypeOK, Good, BuildTarget, ranks
  <2> QED BY <1>1, <2>3, <2>4, <2>5 DEF Shape, BuildTarget, ranks
<1>2. ASSUME NEW t \in Targets, SelectTarget(t)
      PROVE  Shape' /\ UNCHANGED <<pc, selected>> /\ ~ active' /\ mover' \in {"user", mover}
  <2> DEFINE e == Ensured(t)
  <2>1. /\ Good(e.view) /\ e.disk \in [Targets -> Versions \cup {None}]
        /\ e.loaded \in Binaries \cup {None}
    BY EnsuredShape
  <2>2. view' = Show(e.view, e.view.listing)
    BY <1>2 DEF SelectTarget
  <2>3. Good(view')
    BY <2>1, <2>2, ShowAgain
  <2>4. bookmarks' \in SUBSET Addresses
    <3>1. bookmarks' = {LineAddress(e.loaded, l) : l \in marks[t]} /\ marks[t] \subseteq Lines
      BY <1>2 DEF SelectTarget, Shape, TypeOK
    <3> QED BY <2>1, <3>1, LineAddressType
  <2>5. /\ disk' = e.disk /\ loaded' = e.loaded /\ shown' = t /\ active' = FALSE
        /\ status' \in {"IDLE", status} /\ mover' \in {"user", mover}
        /\ UNCHANGED <<source, broken, terminal, marks, pc, selected, focused, spin>>
    BY <1>2 DEF SelectTarget, ranks
  <2>6. spent' \in 0..MaxActs
    BY <1>2, SpendShape DEF SelectTarget, Shape
  <2>7. view' \in Views
    BY <2>3 DEF Good
  <2> HIDE DEF e
  <2>8. TypeOK'
    BY <2>1, <2>4, <2>5, <2>6, <2>7 DEF Shape, TypeOK, Statuses
  <2> QED BY <2>3, <2>5, <2>8 DEF Shape
<1> QED BY <1>1, <1>2

(* Selecting a rank shows where it stands. *)
LEMMA SelectRankShape ==
  ASSUME Shape, NEW r \in DOMAIN pc, SelectRank(r)
  PROVE  Shape' /\ view'.cursor = pc'[selected']
<1>1. PICK n \in 1..MaxRanks : pc \in [0..n - 1 -> Addresses]
  BY DEF Shape, TypeOK
<1>2. r \in 0..n - 1 /\ pc[r] \in Addresses /\ r \in 0..MaxRanks - 1
  BY <1>1, TargetAssumption
<1>3. Good(view') /\ view'.cursor = pc[r]
  BY <1>2, ShowRankGood DEF Shape, TypeOK, Good, SelectRank
<1>4. view' \in Views
  BY <1>3 DEF Good
<1>5. TypeOK'
  BY <1>1, <1>2, <1>4 DEF Shape, TypeOK, SelectRank, files, Statuses
<1> QED BY <1>3, <1>5 DEF Shape, SelectRank

(* The user seeks, or walks through the history. *)
LEMMA SeekShape ==
  ASSUME Shape, (\E a \in Sought : SeekTo(a)) \/ NavigateBack \/ NavigateForward
  PROVE  Shape' /\ mover' = "user"
<1>1. Good(view')
  <2>1. CASE \E a \in Sought : SeekTo(a)
    <3>1. PICK a \in Addresses : view' = Seek(view, loaded, a)
      BY <2>1, TargetAssumption DEF SeekTo
    <3> QED BY <3>1, SeekGood DEF Shape, TypeOK, Good
  <2>2. ASSUME NEW to \in Nat, Navigate(to) PROVE Good(view')
    <3> DEFINE a == view.history[to]
               u == Moved(view, loaded, a)
    <3>1. /\ to \in 1..Len(view.history) /\ view.history \in Seq(Addresses)
          /\ view' = [u EXCEPT !.at = to]
      BY <2>2 DEF Navigate, Shape, Good, Views
    <3>2. /\ u \in Views /\ u.history = view.history /\ u.address = a /\ u.cursor = a
      <4>1. a \in Addresses /\ view \in Views /\ loaded \in Binaries \cup {None}
        BY <3>1 DEF Shape, TypeOK
      <4> QED BY <4>1, MovedKeeps
    <3> HIDE DEF u
    <3>3. view' \in Views /\ view'.history = view.history /\ view'.at = to
          /\ view'.address = a /\ view'.cursor = a
      BY <3>1, <3>2 DEF Views
    <3> QED BY <3>1, <3>3 DEF Good, Moving, Shape
  <2>3. view.at \in Nat
    BY DEF Shape, Good, Views
  <2>4. NavigateForward => Navigate(view.at + 1)
    BY DEF NavigateForward
  <2>5. NavigateBack => view.at - 1 \in Nat
    BY <2>3 DEF NavigateBack, Navigate
  <2> QED BY <2>1, <2>2, <2>3, <2>4, <2>5 DEF NavigateBack
<1>2. view' \in Views
  BY <1>1 DEF Good
<1>3. TypeOK' /\ mover' = "user"
  BY <1>2, SpendShape DEF Shape, TypeOK, SeekTo, NavigateBack, NavigateForward, Navigate,
                          files, session, ranks
<1> QED BY <1>1, <1>3 DEF Shape

(* A mark or a bookmark may move the cursor only as the user. *)
LEMMA ToggleShape ==
  ASSUME Shape, (\E l \in Lines : ToggleMark(l)) \/ (\E a \in Clicked : ToggleBookmark(a))
  PROVE  /\ Shape' /\ UNCHANGED <<pc, selected, active>>
         /\ mover' = "user" \/ (mover' = mover /\ view'.cursor = view.cursor)
<1>1. Good(view')
  BY ShowAgain DEF Shape, ToggleMark, ToggleBookmark
<1>2. view' \in Views
  BY <1>1 DEF Good
<1>3. ASSUME NEW l \in Lines, ToggleMark(l)
      PROVE  marks' \in [Targets -> SUBSET Lines] /\ bookmarks' \in SUBSET Addresses
  <2>1. LineAddress(loaded, l) \in Addresses
    BY LineAddressType DEF Shape, TypeOK
  <2> QED BY <1>3, <2>1 DEF ToggleMark, Shape, TypeOK
<1>4. ASSUME NEW a \in Clicked, ToggleBookmark(a)
      PROVE  marks' \in [Targets -> SUBSET Lines] /\ bookmarks' \in SUBSET Addresses
  <2>1. a \in Addresses
    BY TargetAssumption
  <2>2. marks \in [Targets -> SUBSET Lines] /\ bookmarks \in SUBSET Addresses
    BY DEF Shape, TypeOK
  <2> QED BY <1>4, <2>1, <2>2 DEF ToggleBookmark
<1>5. marks' \in [Targets -> SUBSET Lines] /\ bookmarks' \in SUBSET Addresses
  BY <1>3, <1>4
<1>6. /\ UNCHANGED <<shown, files, terminal, loaded, session, ranks>> /\ Spend
      /\ mover' = IF view'.cursor # view.cursor THEN "user" ELSE mover
  BY DEF ToggleMark, ToggleBookmark
<1>7. TypeOK'
  BY <1>2, <1>5, <1>6, SpendShape DEF Shape, TypeOK, files, session, ranks
<1>8. UNCHANGED <<pc, selected, active>>
  BY <1>6 DEF session, ranks
<1>9. mover' = "user" \/ (mover' = mover /\ view'.cursor = view.cursor)
  BY <1>6
<1> QED BY <1>1, <1>7, <1>8, <1>9 DEF Shape

-----------------------------------------------------------------------------
(* The listing belongs to the binary that is loaded.                       *)

Lists(v, b) == v \in Views /\ v.listing \in Listings(b)

LEMMA ShowLists ==
  ASSUME NEW v \in Views, NEW b \in Binaries \cup {None}, NEW listing \in Listings(b)
  PROVE  Lists(Show(v, listing), b)
<1>1. listing \in (SUBSET Addresses) \ {{}}
  BY ListingsType
<1> QED BY <1>1, ShowKeeps DEF Lists

LEMMA SeekLists ==
  ASSUME NEW v, NEW b \in Binaries \cup {None}, NEW a \in Addresses,
         Lists(v, b), Moving(v)
  PROVE  Lists(Seek(v, b, a), b)
<1> DEFINE listing == IF FunctionsAt(b, a) = {} THEN v.listing
                      ELSE CHOOSE f \in FunctionsAt(b, a) : TRUE
           u == Moved(v, b, a)
<1>1. FunctionsAt(b, a) \subseteq Listings(b)
  BY DEF FunctionsAt, Listings
<1>2. listing \in Listings(b)
  BY <1>1 DEF Lists
<1>3. u = [v EXCEPT !.listing = listing, !.cursor = a, !.address = a]
  BY DEF Moved
<1> HIDE DEF listing
<1>4. u.listing = listing
  BY <1>3 DEF Lists, Views
<1>5. u \in Views
  BY MovedKeeps DEF Lists
<1> HIDE DEF u
<1>6. Remembered(u, a).listing = u.listing
  BY <1>5 DEF Remembered, Views
<1>7. Seek(v, b, a) = Remembered(u, a)
  BY DEF Seek, u
<1>8. Seek(v, b, a) \in Views
  BY SeekGood DEF Lists, Good
<1> QED BY <1>2, <1>4, <1>6, <1>7, <1>8 DEF Lists

LEMMA ShowRankLists ==
  ASSUME NEW v \in Views, Moving(v), NEW b \in Binaries \cup {None}, NEW a \in Addresses
  PROVE  Lists(ShowRank(v, b, a), b)
<1>1. Fixture \in Listings(b)
  BY DEF Listings
<1>2. Lists(Show(v, Fixture), b)
  BY <1>1, ShowLists
<1>3. Moving(Show(v, Fixture))
  BY ShowKeeps, FixtureType DEF Moving
<1> QED BY <1>2, <1>3, SeekLists DEF ShowRank

LEMMA EnsuredLists ==
  ASSUME Shape, Lists(view, loaded), NEW t \in Targets
  PROVE  Lists(Ensured(t).view, Ensured(t).loaded)
<1> DEFINE need == disk[t] # source[t]
           made == IF need /\ ~broken[t] THEN source[t] ELSE disk[t]
           load == /\ made # None
                   /\ need \/ loaded = None \/ loaded[1] # t
           main == Image[<<t, made>>].main
           shows == IF load THEN Seek(Show(view, main), <<t, made>>, First(main)) ELSE view
           e == Ensured(t)
<1>1. e.loaded = IF load THEN <<t, made>> ELSE loaded
  BY DEF Ensured
<1>2. e.view = shows
  BY DEF Ensured
<1>3. CASE ~ load
  BY <1>1, <1>2, <1>3
<1>4. CASE load
  <2>1. <<t, made>> \in Binaries
    BY <1>4 DEF Shape, TypeOK, Binaries
  <2>2. main \in Listings(<<t, made>>)
    BY <2>1, NoBinary, TargetAssumption DEF Listings
  <2>3. main \in (SUBSET Addresses) \ {{}} /\ First(main) \in Addresses
    BY <2>1, ImageType, FirstIn
  <2>4. e.loaded = <<t, made>> /\ e.view = Seek(Show(view, main), <<t, made>>, First(main))
    BY <1>1, <1>2, <1>4
  <2> HIDE DEF main, made, load, shows, e
  <2>5. Lists(Show(view, main), <<t, made>>)
    BY <2>1, <2>2, ShowLists DEF Lists
  <2>6. Moving(Show(view, main))
    BY <2>3, ShowKeeps DEF Shape, Good, Moving
  <2>7. Lists(Seek(Show(view, main), <<t, made>>, First(main)), <<t, made>>)
    BY <2>1, <2>3, <2>5, <2>6, SeekLists
  <2> QED BY <2>4, <2>7 DEF e
<1> QED BY <1>3, <1>4

-----------------------------------------------------------------------------
(* Every step. *)
LEMMA ShapeStep == Shape /\ [Next]_vars => Shape'
<1> SUFFICES ASSUME Shape, [Next]_vars PROVE Shape'
  OBVIOUS
<1>1. CASE Step
  <2>1. PICK to \in Addresses : MoveRank(to)
    BY <1>1, AdvanceType DEF Step, Shape, Good, Views
  <2> QED BY <1>1, <2>1, MoveRankShape DEF Step, Statuses
<1>2. CASE Continue
  <2>1. PICK to \in Addresses : MoveRank(to)
    BY <1>2, WalkType DEF Continue, Shape, Good, Views
  <2> QED BY <1>2, <2>1, MoveRankShape DEF Continue, Statuses
<1>3. CASE UNCHANGED vars
  BY <1>3 DEF Shape, TypeOK, Good, vars, files, ranks, session
<1> QED BY <1>1, <1>2, <1>3, QuietShape, LoadShape, StartedShape, SelectRankShape, SeekShape,
           ToggleShape DEF Next

(* The state of the toolbar keeps its types. *)
LEMMA ShapeHolds == Spec => []Shape
<1>1. Init => Shape
  <2> SUFFICES ASSUME Init PROVE Shape
    OBVIOUS
  <2>1. First(Fixture) \in Addresses /\ Fixture \in (SUBSET Addresses) \ {{}}
    BY FixtureType, FirstIn
  <2>2. view \in Views /\ Good(view)
    BY <2>1, TargetAssumption DEF Init, Good, Moving, Views
  <2>3. MaxRanks \in 1..MaxRanks /\ pc \in [0..MaxRanks - 1 -> Addresses] /\ selected \in 0..MaxRanks - 1
    BY TargetAssumption DEF Init
  <2>4. {MaxActs, MaxEdits} \subseteq Nat /\ <<>> \in Seq({"build", "clean"} \X Targets)
    BY TargetAssumption
  <2>5. spin \in 1..MaxRanks /\ focused \in 0..MaxRanks - 1
    BY TargetAssumption DEF Init
  <2>6. TypeOK
    <3>1. /\ source \in [Targets -> Versions] /\ broken \in [Targets -> BOOLEAN]
          /\ disk \in [Targets -> Versions \cup {None}]
          /\ marks \in [Targets -> SUBSET Lines]
      BY <2>4 DEF Init, Versions
    <3>2. /\ shown \in Targets /\ terminal \in Seq({"build", "clean"} \X Targets)
          /\ loaded \in Binaries \cup {None} /\ bookmarks \in SUBSET Addresses
          /\ active \in BOOLEAN /\ status \in Statuses
          /\ mover \in {"run", "rank", "user"}
      BY <2>4 DEF Init, Statuses
    <3>3. spent \in 0..MaxActs
      BY <2>4 DEF Init
    <3> QED BY <2>2, <2>3, <2>5, <3>1, <3>2, <3>3 DEF TypeOK
  <2> QED BY <2>2, <2>6 DEF Shape
<1> QED BY <1>1, ShapeStep, PTL DEF Spec

(* Runs, steps, selections, seeks and builds keep every part of the state  *)
(* of its type; the walk of Run and Continue always ends at an address.    *)
THEOREM TypeCorrect == Spec => []TypeOK
<1>1. Shape => TypeOK
  BY DEF Shape
<1> QED BY <1>1, ShapeHolds, PTL

(* Back and Forward start from the address shown, and each step of theirs  *)
(* moves (navigateBack, navigateForward, addToSeekHistory).                *)
THEOREM HistoryHolds == Spec => []HistoryAtAddress
<1>1. Shape => HistoryAtAddress
  BY DEF Shape, Good, Moving, HistoryAtAddress
<1> QED BY <1>1, ShapeHolds, PTL

(* The address of the status bar is the instruction highlighted, whichever *)
(* listings were shown in between (updateDisassembly, seekToAddress).      *)
THEOREM AddressHolds == Spec => []AddressHighlighted
<1>1. Shape => AddressHighlighted
  BY DEF Shape, Good, AddressHighlighted
<1> QED BY <1>1, ShapeHolds, PTL

(* Step and Continue move a rank from where it stands, however runs of     *)
(* more and fewer ranks, steps and selections follow each other            *)
(* (startTargetWorkflow, selectRank, stepInstructionWorkflow).             *)
THEOREM CursorIsPcHolds == Spec => []CursorIsPc
<1>1. Init => CursorIsPc
  BY DEF Init, CursorIsPc
<1>2. Shape /\ CursorIsPc /\ [Next]_vars => CursorIsPc'
  <2> SUFFICES ASSUME Shape, CursorIsPc, [Next]_vars PROVE CursorIsPc'
    OBVIOUS
  <2>1. CASE Step
    <3>1. PICK to \in Addresses : MoveRank(to)
      BY <2>1, AdvanceType DEF Step, Shape, Good, Views
    <3> QED BY <2>1, <3>1, MoveRankShape DEF Step, Statuses, CursorIsPc
  <2>2. CASE Continue
    <3>1. PICK to \in Addresses : MoveRank(to)
      BY <2>2, WalkType DEF Continue, Shape, Good, Views
    <3> QED BY <2>2, <3>1, MoveRankShape DEF Continue, Statuses, CursorIsPc
  <2>3. CASE UNCHANGED vars
    BY <2>3 DEF vars, ranks, session, CursorIsPc
  <2> QED BY <2>1, <2>2, <2>3, QuietShape, LoadShape, StartedShape, SelectRankShape, SeekShape,
             ToggleShape DEF Next, CursorIsPc
<1> QED BY <1>1, <1>2, ShapeHolds, PTL DEF Spec

(* What the listing shows belongs to the binary loaded. *)
Listed == Lists(view, loaded)

LEMMA ListedStep == Shape /\ Listed /\ [Next]_vars => Listed'
<1> SUFFICES ASSUME Shape, Listed, [Next]_vars PROVE Listed'
  OBVIOUS
<1>0. /\ view \in Views /\ Moving(view) /\ loaded \in Binaries \cup {None}
      /\ shown \in Targets /\ Lists(view, loaded)
  BY DEF Shape, Good, TypeOK, Listed
<1>1. ASSUME NEW a \in Addresses, view' = Seek(view, loaded, a), loaded' = loaded
      PROVE  Listed'
  BY <1>0, <1>1, SeekLists DEF Listed
<1>2. CASE Step
  <2>1. PICK to \in Addresses : MoveRank(to)
    BY <1>2, AdvanceType DEF Step, Shape, Good, Views
  <2> QED BY <1>1, <2>1 DEF MoveRank
<1>3. CASE Continue
  <2>1. PICK to \in Addresses : MoveRank(to)
    BY <1>3, WalkType DEF Continue, Shape, Good, Views
  <2> QED BY <1>1, <2>1 DEF MoveRank
<1>4. ASSUME NEW a \in Sought, SeekTo(a) PROVE Listed'
  <2>1. a \in Addresses
    BY TargetAssumption
  <2> QED BY <1>1, <1>4, <2>1 DEF SeekTo
<1>5. ASSUME NEW to \in Nat, Navigate(to) PROVE Listed'
  <2> DEFINE a == view.history[to]
             u == Moved(view, loaded, a)
             listing == IF FunctionsAt(loaded, a) = {} THEN view.listing
                        ELSE CHOOSE f \in FunctionsAt(loaded, a) : TRUE
  <2>1. /\ to \in 1..Len(view.history) /\ view.history \in Seq(Addresses)
        /\ view' = [u EXCEPT !.at = to] /\ loaded' = loaded
    BY <1>0, <1>5 DEF Navigate, Views
  <2>2. a \in Addresses
    BY <2>1
  <2>3. u \in Views
    BY <1>0, <2>2, MovedKeeps
  <2>4. FunctionsAt(loaded, a) \subseteq Listings(loaded)
    BY DEF FunctionsAt, Listings
  <2>5. listing \in Listings(loaded)
    BY <1>0, <2>4 DEF Lists
  <2>6. u = [view EXCEPT !.listing = listing, !.cursor = a, !.address = a]
    BY DEF Moved
  <2> HIDE DEF listing, a
  <2>7. u.listing = listing
    BY <1>0, <2>6 DEF Views
  <2> HIDE DEF u
  <2>8. view'.listing = listing
    BY <2>1, <2>3, <2>7 DEF Views
  <2>9. view' \in Views
    BY ShapeStep DEF Shape, TypeOK
  <2> QED BY <2>1, <2>5, <2>8, <2>9 DEF Listed, Lists
<1>6. CASE NavigateBack \/ NavigateForward
  <2>1. view.at \in Nat
    BY <1>0 DEF Views
  <2>2. NavigateForward => Navigate(view.at + 1)
    BY DEF NavigateForward
  <2>3. NavigateBack => view.at - 1 \in Nat /\ Navigate(view.at - 1)
    BY <2>1 DEF NavigateBack, Navigate
  <2> QED BY <1>5, <1>6, <2>1, <2>2, <2>3
<1>7. ASSUME NEW t \in Targets, SelectTarget(t) PROVE Listed'
  <2> DEFINE e == Ensured(t)
  <2>1. Lists(e.view, e.loaded) /\ e.loaded \in Binaries \cup {None}
    BY <1>0, EnsuredLists, EnsuredShape
  <2>2. view' = Show(e.view, e.view.listing) /\ loaded' = e.loaded
    BY <1>7 DEF SelectTarget
  <2> HIDE DEF e
  <2>3. Lists(Show(e.view, e.view.listing), e.loaded)
    BY <2>1, ShowLists DEF Lists
  <2> QED BY <2>2, <2>3 DEF Listed
<1>8. CASE BuildTarget
  <2>1. Lists(Ensured(shown).view, Ensured(shown).loaded)
    BY <1>0, EnsuredLists
  <2>2. view' = Ensured(shown).view /\ loaded' = Ensured(shown).loaded
    BY <1>8 DEF BuildTarget
  <2> QED BY <2>1, <2>2 DEF Listed
<1>9. CASE RunTarget
  <2> DEFINE e == Ensured(shown)
             b == e.loaded
             stop == StopAddress(b, e.view.listing, Breakpoints(b))
             v == IF selected < spin THEN ShowRank(e.view, b, stop) ELSE e.view
  <2>1. loaded' = b /\ Started(b, e.view, stop)
    BY <1>9 DEF RunTarget
  <2>2. view' = Seek(v, b, stop)
    BY <2>1 DEF Started
  <2>3. /\ Lists(e.view, b) /\ b \in Binaries \cup {None} /\ Good(e.view)
        /\ e.view.listing \in (SUBSET Addresses) \ {{}}
    BY <1>0, EnsuredLists, EnsuredShape
  <2> HIDE DEF e, b
  <2>4. stop \in Addresses
    BY <2>3, StopAddressType DEF Shape
  <2> HIDE DEF stop
  <2>5. /\ Lists(ShowRank(e.view, b, stop), b)
        /\ Moving(ShowRank(e.view, b, stop)) /\ Moving(e.view)
    BY <2>3, <2>4, ShowRankLists, ShowRankGood DEF Good
  <2>6. Lists(v, b) /\ Moving(v)
    BY <2>3, <2>5
  <2> HIDE DEF v
  <2>7. Lists(Seek(v, b, stop), b)
    BY <2>3, <2>4, <2>6, SeekLists
  <2> QED BY <2>1, <2>2, <2>7 DEF Listed
<1>10. ASSUME NEW r \in DOMAIN pc, SelectRank(r) PROVE Listed'
  <2>1. pc[r] \in Addresses
    <3>1. PICK n \in 1..MaxRanks : pc \in [0..n - 1 -> Addresses]
      BY DEF Shape, TypeOK
    <3> QED BY <3>1
  <2>2. view' = ShowRank(view, loaded, pc[r]) /\ loaded' = loaded
    BY <1>10 DEF SelectRank
  <2> QED BY <1>0, <2>1, <2>2, ShowRankLists DEF Listed
<1>11. CASE (\E l \in Lines : ToggleMark(l)) \/ (\E a \in Clicked : ToggleBookmark(a))
  <2>1. view' \in {view, Show(view, view.listing)} /\ loaded' = loaded
    BY <1>11 DEF ToggleMark, ToggleBookmark
  <2>2. Lists(Show(view, view.listing), loaded)
    BY <1>0, ShowLists DEF Lists
  <2> QED BY <1>0, <2>1, <2>2 DEF Listed
<1>12. CASE UNCHANGED <<view, loaded>>
  BY <1>0, <1>12 DEF Listed
<1>13. CASE \/ \E t \in Targets, c \in BOOLEAN : EditSource(t, c)
            \/ \E t \in Targets : OpenSource(t)
            \/ CleanTarget \/ RebuildTarget \/ TerminalRuns \/ Stop
            \/ \E n \in 1..MaxRanks : SetRankCount(n)
            \/ UNCHANGED vars
  <2>1. UNCHANGED <<view, loaded>>
    BY <1>13 DEF EditSource, OpenSource, CleanTarget, RebuildTarget, TerminalRuns, Stop,
                 SetRankCount, vars
  <2> QED BY <1>12, <2>1
<1> QED BY <1>2, <1>3, <1>4, <1>6, <1>7, <1>8, <1>9, <1>10, <1>11, <1>13 DEF Next

(* A rank that is said to have exited did so in a session, at a return,    *)
(* and has not been moved nor its binary been exchanged since.             *)
Ended ==
  status \in {"EXITED", "COMPLETED"} =>
    /\ active
    /\ mover = "user" \/ pc[selected] \in Returns(loaded) \cup Fixture

LEMMA EndedStep ==
  ASSUME RunsReturn
  PROVE  Shape /\ Listed /\ Ended /\ [Next]_vars => Ended'
<1> SUFFICES ASSUME Shape, Listed, Ended, [Next]_vars PROVE Ended'
  OBVIOUS
<1>0. /\ loaded \in Binaries \cup {None} /\ view.listing \in Listings(loaded)
      /\ view.listing \in (SUBSET Addresses) \ {{}} /\ view.cursor \in Addresses
  BY DEF Shape, TypeOK, Listed, Lists, Views
<1>1. ASSUME NEW to \in Addresses, MoveRank(to), active PROVE
        active' /\ loaded' = loaded /\ pc'[selected'] = to
  <2>1. PICK n \in 1..MaxRanks : pc \in [0..n - 1 -> Addresses] /\ selected \in 0..n - 1
    BY DEF Shape, TypeOK
  <2> QED BY <1>1, <2>1 DEF MoveRank
<1>2. CASE Step
  <2> DEFINE next == Advance(loaded, view.listing, view.cursor)
  <2>1. /\ active /\ MoveRank(next) /\ next \in Addresses
        /\ status' = IF next = view.cursor THEN "COMPLETED" ELSE "PAUSED"
    BY <1>0, <1>2, AdvanceType DEF Step
  <2>2. next = view.cursor => next \in Returns(loaded) \cup Fixture
    BY <1>0, RestAtReturn
  <2> HIDE DEF next
  <2>3. active' /\ loaded' = loaded /\ pc'[selected'] = next
    BY <1>1, <2>1
  <2> QED BY <2>1, <2>2, <2>3 DEF Ended
<1>3. CASE Continue
  <2> DEFINE stops == Breakpoints(loaded)
             next == Walk(loaded, view.listing, view.cursor, stops)
             hits == Hits(loaded, view.listing, view.cursor, stops)
  <2>1. /\ active /\ MoveRank(next) /\ next \in Addresses
        /\ status' = IF hits THEN "PAUSED" ELSE "EXITED"
    BY <1>0, <1>3, WalkType DEF Continue
  <2>2. ~ hits => next \in Returns(loaded) \cup Fixture
    BY <1>0, WalkReturns
  <2> HIDE DEF next, hits
  <2>3. active' /\ loaded' = loaded /\ pc'[selected'] = next
    BY <1>1, <2>1
  <2> QED BY <2>1, <2>2, <2>3 DEF Ended
<1>4. ASSUME NEW t \in Targets, SelectTarget(t) PROVE Ended'
  <2>1. active => status' = "IDLE"
    BY <1>4 DEF SelectTarget
  <2>2. ~ active => status' = status
    BY <1>4 DEF SelectTarget
  <2> QED BY <2>1, <2>2 DEF Ended
<1>5. CASE BuildTarget \/ CleanTarget \/ RebuildTarget
  <2>1. status' = "BUILDING"
    BY <1>5 DEF BuildTarget, CleanTarget, RebuildTarget, Send
  <2> QED BY <2>1 DEF Ended
<1>6. CASE RunTarget \/ Stop \/ \E r \in DOMAIN pc : SelectRank(r)
  <2>1. status' \in {"PAUSED", "IDLE", "SELECTED"}
    BY <1>6 DEF RunTarget, Stop, SelectRank
  <2> QED BY <2>1 DEF Ended
<1>7. CASE /\ UNCHANGED <<status, active, pc, selected, loaded>>
           /\ mover' \in {mover, "user"}
  BY <1>7 DEF Ended
<1>8. CASE \/ \E t \in Targets, c \in BOOLEAN : EditSource(t, c)
           \/ \E t \in Targets : OpenSource(t)
           \/ TerminalRuns
           \/ \E n \in 1..MaxRanks : SetRankCount(n)
           \/ UNCHANGED vars
  <2>1. UNCHANGED <<status, active, pc, selected, loaded, mover>>
    BY <1>8 DEF EditSource, OpenSource, TerminalRuns, SetRankCount, vars, session, ranks
  <2> QED BY <1>7, <2>1
<1>9. CASE (\E a \in Sought : SeekTo(a)) \/ NavigateBack \/ NavigateForward
  <2>1. UNCHANGED <<status, active, pc, selected, loaded>> /\ mover' = "user"
    BY <1>9 DEF SeekTo, NavigateBack, NavigateForward, Navigate, session, ranks
  <2> QED BY <1>7, <2>1
<1>10. CASE (\E l \in Lines : ToggleMark(l)) \/ (\E a \in Clicked : ToggleBookmark(a))
  <2>1. UNCHANGED <<status, active, pc, selected, loaded>> /\ mover' \in {mover, "user"}
    BY <1>10 DEF ToggleMark, ToggleBookmark, session, ranks
  <2> QED BY <1>7, <2>1
<1> QED BY <1>2, <1>3, <1>4, <1>5, <1>6, <1>8, <1>9, <1>10 DEF Next

(* The window says EXITED or COMPLETED only of a rank at a return, if the  *)
(* functions of the binaries are shorter than the bound and end in one     *)
(* (advanceRankProgramCounter, continueExecutionWorkflow): Step and        *)
(* Continue do not give up in between, wherever the user sought before.    *)
THEOREM ExitedAtReturnHolds ==
  ASSUME RunsReturn
  PROVE  Spec => []ExitedAtReturn
<1>1. Init => Listed /\ Ended
  <2> SUFFICES ASSUME Init PROVE Listed /\ Ended
    OBVIOUS
  <2>1. First(Fixture) \in Addresses /\ Fixture \in (SUBSET Addresses) \ {{}}
    BY FixtureType, FirstIn
  <2> QED BY <2>1, TargetAssumption DEF Init, Listed, Lists, Listings, Views, Ended
<1>2. Shape /\ Listed /\ Ended /\ [Next]_vars => Listed' /\ Ended'
  BY ListedStep, EndedStep
<1>3. Ended => ExitedAtReturn
  BY DEF Ended, ExitedAtReturn
<1> QED BY <1>1, <1>2, <1>3, ShapeHolds, PTL DEF Spec

=============================================================================
