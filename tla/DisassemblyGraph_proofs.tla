----------------------- MODULE DisassemblyGraph_proofs -----------------------
(***************************************************************************)
(* That the blocks of a listing are its control flow, that its decompiled  *)
(* lines and its instructions name each other, and that what is shown      *)
(* follows ranks, cursor, patches and listings, for any listing, binary,   *)
(* language and number of ranks.                                           *)
(*                                                                         *)
(* The first two are about parseDisassembly and decompileToLanguage as     *)
(* functions of a listing: the blocks are the intervals between leaders,   *)
(* and the lines are numbered without gaps.  The third is an invariant of  *)
(* the view, carried through each operation the window composes.           *)
(***************************************************************************)
EXTENDS DisassemblyGraph, WellFoundedInduction, FiniteSetTheorems, TLAPS

-----------------------------------------------------------------------------
(* Numbers.                                                                *)

(* A set of numbers has a least element, a bounded one a greatest. *)
LEMMA SmallestNumber ==
  ASSUME NEW T, T \subseteq Nat, T # {}
  PROVE  \E x \in T : \A y \in T : x <= y
<1> DEFINE Less == {ss \in Nat \X Nat : ss[1] < ss[2]}
<1>1. IsWellFoundedOn(Less, Nat)
  BY NatLessThanWellFounded, SMT DEF OpToRel
<1>2. PICK x \in T : \A y \in T : ~ (<<y, x>> \in Less)
  BY <1>1, WFMin
<1>3. ASSUME NEW y \in T PROVE x <= y
  <2>1. x \in Nat /\ y \in Nat /\ <<y, x>> \notin Less
    BY <1>2
  <2>2. ~ (y < x)
    BY <2>1
  <2> QED BY <2>1, <2>2
<1> QED BY <1>3

LEMMA GreatestNumber ==
  ASSUME NEW n \in Nat, NEW T, T \subseteq 1..n, T # {}
  PROVE  Max(T) \in T /\ \A y \in T : y <= Max(T)
<1>1. PICK k \in {n - t : t \in T} : \A j \in {n - t : t \in T} : k <= j
  <2>1. {n - t : t \in T} \subseteq Nat /\ {n - t : t \in T} # {}
    <3>1. \A t \in T : n - t \in Nat
      OBVIOUS
    <3> QED BY <3>1
  <2> QED BY <2>1, SmallestNumber
<1>2. PICK x \in T : k = n - x
  BY <1>1
<1>3. ASSUME NEW y \in T PROVE x >= y
  <2>1. n - x <= n - y
    BY <1>1, <1>2
  <2> QED BY <2>1
<1>4. Max(T) \in T /\ \A y \in T : Max(T) >= y
  BY <1>3, Zenon DEF Max
<1> QED BY <1>4

-----------------------------------------------------------------------------
(* Listings and their blocks.                                              *)

Code == {l \in Seq([at : Nat \ {0}, kind : Kinds, to : Nat]) :
           \A i, j \in DOMAIN l : i < j => l[i].at < l[j].at}

LEMMA CodeType ==
  ASSUME NEW l \in Code
  PROVE  /\ Len(l) \in Nat /\ DOMAIN l = 1..Len(l)
         /\ \A i \in DOMAIN l : l[i].at \in Nat \ {0} /\ l[i].kind \in Kinds /\ l[i].to \in Nat
         /\ \A i, j \in DOMAIN l : (i < j <=> l[i].at < l[j].at) /\ (i = j <=> l[i].at = l[j].at)
         /\ l # <<>> <=> 1 \in DOMAIN l
<1> DEFINE Instruction == [at : Nat \ {0}, kind : Kinds, to : Nat]
<1>0. l \in Seq(Instruction) /\ \A i, j \in DOMAIN l : i < j => l[i].at < l[j].at
  BY DEF Code
<1> HIDE DEF Instruction
<1>1. /\ Len(l) \in Nat /\ DOMAIN l = 1..Len(l)
      /\ \A i \in DOMAIN l : l[i] \in Instruction
      /\ \A i, j \in DOMAIN l : i < j => l[i].at < l[j].at
      /\ l # <<>> <=> Len(l) # 0
  BY <1>0
<1>2. \A i \in DOMAIN l : l[i].at \in Nat \ {0} /\ l[i].kind \in Kinds /\ l[i].to \in Nat
  BY <1>1 DEF Instruction
<1>3. ASSUME NEW i \in DOMAIN l, NEW j \in DOMAIN l
      PROVE  (i < j <=> l[i].at < l[j].at) /\ (i = j <=> l[i].at = l[j].at)
  <2>1. i < j \/ i = j \/ j < i
    BY <1>1
  <2>2. l[i].at \in Nat /\ l[j].at \in Nat /\ i \in Nat /\ j \in Nat
    BY <1>1, <1>2
  <2>3. (i < j => l[i].at < l[j].at) /\ (j < i => l[j].at < l[i].at)
    BY <1>1
  <2> QED BY <2>1, <2>2, <2>3
<1>4. l # <<>> <=> 1 \in DOMAIN l
  BY <1>1
<1> QED BY <1>1, <1>2, <1>3, <1>4

(* First and last instruction of the block of an instruction. *)
FirstOf(l, i) == Max({s \in Starts(l) : s <= i})
LastOf(l, i)  == Max({j \in DOMAIN l : FirstOf(l, j) = FirstOf(l, i)})

(* A block begins at the last leader before the instruction and reaches up *)
(* to the next one.                                                        *)
LEMMA BlockBounds ==
  ASSUME NEW l \in Code, NEW i \in DOMAIN l
  PROVE  /\ FirstOf(l, i) \in Starts(l) /\ LastOf(l, i) \in DOMAIN l
         /\ FirstOf(l, i) <= i /\ i <= LastOf(l, i)
         /\ FirstOf(l, LastOf(l, i)) = FirstOf(l, i)
         /\ \A s \in Starts(l) : s <= i => s <= FirstOf(l, i)
         /\ \A j \in DOMAIN l : FirstOf(l, j) = FirstOf(l, i) => j <= LastOf(l, i)
<1>1. Starts(l) \subseteq DOMAIN l /\ 1 \in Starts(l)
  <2>1. l[1].at \in Leaders(l) /\ 1 \in DOMAIN l
    BY CodeType DEF Leaders
  <2> QED BY <2>1 DEF Starts
<1>2. Len(l) \in Nat /\ DOMAIN l = 1..Len(l)
  BY CodeType
<1>3. ASSUME NEW j \in DOMAIN l
      PROVE  /\ FirstOf(l, j) \in Starts(l) /\ FirstOf(l, j) <= j
             /\ \A s \in Starts(l) : s <= j => s <= FirstOf(l, j)
  <2> DEFINE T == {s \in Starts(l) : s <= j}
  <2>1. T \subseteq 1..Len(l) /\ T # {}
    BY <1>1, <1>2
  <2>2. Max(T) \in T /\ \A y \in T : y <= Max(T)
    BY <1>2, <2>1, GreatestNumber
  <2> QED BY <2>2 DEF FirstOf
<1>4. /\ LastOf(l, i) \in DOMAIN l /\ FirstOf(l, LastOf(l, i)) = FirstOf(l, i)
      /\ \A j \in DOMAIN l : FirstOf(l, j) = FirstOf(l, i) => j <= LastOf(l, i)
  <2> DEFINE T == {j \in DOMAIN l : FirstOf(l, j) = FirstOf(l, i)}
  <2>1. T \subseteq 1..Len(l) /\ T # {}
    BY <1>2
  <2>2. Max(T) \in T /\ \A y \in T : y <= Max(T)
    BY <1>2, <2>1, GreatestNumber
  <2> QED BY <2>2 DEF LastOf
<1> QED BY <1>3, <1>4

(* An instruction is in the block of another one exactly between the two   *)
(* ends of that block; then the blocks are the same.                       *)
LEMMA SameBlock ==
  ASSUME NEW l \in Code, NEW i \in DOMAIN l, NEW j \in DOMAIN l
  PROVE  /\ FirstOf(l, j) = FirstOf(l, i) <=> FirstOf(l, i) <= j /\ j <= LastOf(l, i)
         /\ FirstOf(l, j) = FirstOf(l, i) => LastOf(l, j) = LastOf(l, i)
<1>0. DOMAIN l \subseteq Nat /\ Starts(l) \subseteq DOMAIN l
  BY CodeType DEF Starts
<1>1. FirstOf(l, j) = FirstOf(l, i) => FirstOf(l, i) <= j /\ j <= LastOf(l, i)
  BY BlockBounds
<1>2. ASSUME FirstOf(l, i) <= j, j <= LastOf(l, i)
      PROVE  FirstOf(l, j) = FirstOf(l, i)
  <2> DEFINE f == FirstOf(l, i)  g == FirstOf(l, j)  z == LastOf(l, i)
  <2>1. f \in Starts(l) /\ g \in Starts(l) /\ z \in DOMAIN l /\ FirstOf(l, z) = f /\ g <= j
    BY BlockBounds
  <2>2. f <= g
    BY <1>2, <2>1, BlockBounds
  <2>3. g <= z
    BY <1>0, <1>2, <2>1
  <2>4. g <= f
    BY <2>1, <2>3, BlockBounds
  <2> QED BY <1>0, <2>1, <2>2, <2>4
<1>3. FirstOf(l, j) = FirstOf(l, i) => LastOf(l, j) = LastOf(l, i)
  BY DEF LastOf
<1> QED BY <1>1, <1>2, <1>3

BlockOf(l, i) ==
  [start |-> l[FirstOf(l, i)].at, end |-> l[LastOf(l, i)].at,
   successors |-> Successors(l, LastOf(l, i))]

(* The extents that parseDisassembly computes are these blocks. *)
LEMMA ExtentsAre ==
  ASSUME NEW l
  PROVE  Extents(l) = [i \in DOMAIN l |-> [first |-> FirstOf(l, i), last |-> LastOf(l, i)]]
<1> DEFINE first == [i \in DOMAIN l |-> Max({s \in Starts(l) : s <= i})]
<1>1. \A i \in DOMAIN l : first[i] = FirstOf(l, i)
  BY DEF FirstOf
<1>2. Extents(l) = [i \in DOMAIN l |-> [first |-> first[i],
                                       last |-> Max({j \in DOMAIN l : first[j] = first[i]})]]
  BY DEF Extents
<1> HIDE DEF first
<1>3. ASSUME NEW i \in DOMAIN l
      PROVE  Max({j \in DOMAIN l : first[j] = first[i]}) = LastOf(l, i)
  <2>1. {j \in DOMAIN l : first[j] = first[i]} = {j \in DOMAIN l : FirstOf(l, j) = FirstOf(l, i)}
    BY <1>1
  <2> QED BY <2>1 DEF LastOf
<1> QED BY <1>1, <1>2, <1>3

LEMMA BlocksAre ==
  ASSUME NEW l
  PROVE  Blocks(l) = {BlockOf(l, i) : i \in DOMAIN l}
<1> DEFINE Block(x) == [start |-> l[x.first].at, end |-> l[x.last].at,
                        successors |-> Successors(l, x.last)]
           extent(i) == [first |-> FirstOf(l, i), last |-> LastOf(l, i)]
<1>1. Range(Extents(l)) = {extent(i) : i \in DOMAIN l}
  BY ExtentsAre DEF Range
<1>2. \A i : Block(extent(i)) = BlockOf(l, i)
  BY DEF BlockOf
<1>3. Blocks(l) = {Block(x) : x \in Range(Extents(l))}
  BY DEF Blocks
<1> HIDE DEF Block, extent
<1> QED BY <1>1, <1>2, <1>3

(* The block of an instruction is the only one around its address. *)
LEMMA OneAround ==
  ASSUME NEW l \in Code, NEW i \in DOMAIN l
  PROVE  /\ Around(Blocks(l), l[i].at) = {BlockOf(l, i)}
         /\ BlockOf(l, i) \in Blocks(l)
         /\ BlockOf(l, i).start \in Addrs(l) /\ BlockOf(l, i).end \in Addrs(l)
<1>1. ASSUME NEW k \in DOMAIN l
      PROVE  l[i].at \in BlockOf(l, k).start..BlockOf(l, k).end <=> FirstOf(l, i) = FirstOf(l, k)
  <2>1. FirstOf(l, k) \in DOMAIN l /\ LastOf(l, k) \in DOMAIN l
    BY BlockBounds DEF Starts
  <2>2. /\ l[FirstOf(l, k)].at <= l[i].at <=> FirstOf(l, k) <= i
        /\ l[i].at <= l[LastOf(l, k)].at <=> i <= LastOf(l, k)
    BY <2>1, CodeType
  <2>3. l[i].at \in Nat /\ l[FirstOf(l, k)].at \in Nat /\ l[LastOf(l, k)].at \in Nat
    BY <2>1, CodeType
  <2> QED BY <2>2, <2>3, SameBlock DEF BlockOf
<1>2. ASSUME NEW k \in DOMAIN l, FirstOf(l, i) = FirstOf(l, k)
      PROVE  BlockOf(l, k) = BlockOf(l, i)
  BY <1>2, SameBlock DEF BlockOf
<1>3. FirstOf(l, i) \in DOMAIN l /\ LastOf(l, i) \in DOMAIN l
  BY BlockBounds DEF Starts
<1>4. BlockOf(l, i).start \in Addrs(l) /\ BlockOf(l, i).end \in Addrs(l)
  BY <1>3 DEF BlockOf, Addrs
<1> QED BY <1>1, <1>2, <1>4, BlocksAre DEF Around

(* Within a block control passes on; a block ends where it may not. *)
LEMMA BlockEnds ==
  ASSUME NEW l \in Code, NEW i \in DOMAIN l, i + 1 \in DOMAIN l
  PROVE  /\ BlockOf(l, i) = BlockOf(l, i + 1) <=> i + 1 \notin Starts(l)
         /\ i + 1 \in Starts(l) => LastOf(l, i) = i /\ FirstOf(l, i + 1) = i + 1
<1>0. DOMAIN l \subseteq Nat /\ Starts(l) \subseteq DOMAIN l
  BY CodeType DEF Starts
<1>1. ASSUME i + 1 \notin Starts(l)
      PROVE  FirstOf(l, i + 1) = FirstOf(l, i)
  <2> DEFINE f == FirstOf(l, i)  g == FirstOf(l, i + 1)
  <2>1. f \in Starts(l) /\ g \in Starts(l) /\ f <= i /\ g <= i + 1 /\ g # i + 1
    BY <1>1, BlockBounds
  <2>2. g <= i /\ f <= i + 1
    BY <1>0, <2>1
  <2>3. g <= f /\ f <= g
    BY <2>1, <2>2, BlockBounds
  <2> QED BY <1>0, <2>1, <2>3
<1>2. ASSUME i + 1 \in Starts(l)
      PROVE  LastOf(l, i) = i /\ FirstOf(l, i + 1) = i + 1
  <2>1. FirstOf(l, i + 1) \in Starts(l) /\ FirstOf(l, i + 1) <= i + 1 /\ i + 1 <= FirstOf(l, i + 1)
    BY <1>0, <1>2, BlockBounds
  <2>2. FirstOf(l, i + 1) = i + 1
    BY <1>0, <2>1
  <2>3. FirstOf(l, i) \in DOMAIN l /\ FirstOf(l, i) <= i
    BY <1>0, BlockBounds
  <2>4. ~ (i + 1 <= LastOf(l, i))
    <3>1. FirstOf(l, i) <= i + 1 /\ FirstOf(l, i) # i + 1
      BY <1>0, <2>3
    <3> QED BY <2>2, <3>1, SameBlock
  <2>5. LastOf(l, i) \in DOMAIN l /\ i <= LastOf(l, i)
    BY BlockBounds
  <2> QED BY <1>0, <2>2, <2>4, <2>5
<1>3. ASSUME i + 1 \in Starts(l) PROVE BlockOf(l, i) # BlockOf(l, i + 1)
  <2>1. FirstOf(l, i) \in DOMAIN l /\ FirstOf(l, i) <= i
    BY BlockBounds DEF Starts
  <2>2. l[FirstOf(l, i)].at # l[i + 1].at
    BY <1>0, <2>1, CodeType
  <2> QED BY <1>2, <1>3, <2>2 DEF BlockOf
<1>4. FirstOf(l, i + 1) = FirstOf(l, i) => BlockOf(l, i) = BlockOf(l, i + 1)
  BY SameBlock DEF BlockOf
<1> QED BY <1>1, <1>2, <1>3, <1>4

-----------------------------------------------------------------------------
(* Instructions that have a leader after them. *)
LEMMA LeaderAfter ==
  ASSUME NEW l \in Code, NEW i \in DOMAIN l, i + 1 \in DOMAIN l,
         l[i].kind \in Jumps \cup {"ret"}
  PROVE  i + 1 \in Starts(l)
<1>1. i \in Nat /\ i + 1 > 1 /\ (i + 1) - 1 = i
  BY CodeType
<1>2. l[i + 1].at \in Leaders(l)
  BY <1>1 DEF Leaders
<1> QED BY <1>2 DEF Starts

(* An instruction that may transfer control ends its block. *)
LEMMA TransferEnds ==
  ASSUME NEW l \in Code, NEW i \in DOMAIN l, l[i].kind \in Jumps \cup {"ret"}
  PROVE  LastOf(l, i) = i
<1>1. CASE i + 1 \in DOMAIN l
  BY <1>1, LeaderAfter, BlockEnds
<1>2. CASE i + 1 \notin DOMAIN l
  <2>1. i = Len(l) /\ DOMAIN l = 1..Len(l) /\ Len(l) \in Nat
    BY <1>2, CodeType
  <2> QED BY <2>1, BlockBounds
<1> QED BY <1>1, <1>2

(* Steps within blocks are steps of the program. *)
LEMMA WithinFollows ==
  ASSUME NEW l \in Code
  PROVE  Within(l, Blocks(l)) \subseteq Follows(l)
<1> SUFFICES ASSUME NEW i \in 1..(Len(l) - 1),
                    Around(Blocks(l), l[i].at) = Around(Blocks(l), l[i + 1].at)
             PROVE  l[i].kind \notin {"jmp", "ret"}
  BY DEF Within, Follows
<1>1. i \in DOMAIN l /\ i + 1 \in DOMAIN l
  BY CodeType
<1>2. BlockOf(l, i) = BlockOf(l, i + 1)
  BY <1>1, OneAround
<1>3. i + 1 \notin Starts(l)
  BY <1>1, <1>2, BlockEnds
<1> QED BY <1>1, <1>3, LeaderAfter DEF Jumps

(* What ends a block leads to a block only where the program may go on. *)
LEMMA BetweenFollows ==
  ASSUME NEW l \in Code
  PROVE  Between(Blocks(l)) \subseteq Follows(l)
<1> SUFFICES ASSUME NEW e \in Between(Blocks(l)) PROVE e \in Follows(l)
  OBVIOUS
<1>1. PICK i \in DOMAIN l, k \in DOMAIN l :
        e = <<BlockOf(l, i).end, BlockOf(l, k).start>> /\ e[2] \in BlockOf(l, i).successors
  BY BlocksAre DEF Between
<1> DEFINE m == LastOf(l, i)
           a == l[FirstOf(l, k)].at
<1>2. /\ m \in DOMAIN l /\ e = <<l[m].at, a>> /\ a \in Successors(l, m) /\ a \in Addrs(l)
  BY <1>1, BlockBounds, OneAround DEF BlockOf
<1>3. /\ Len(l) \in Nat /\ DOMAIN l = 1..Len(l) /\ l[m].kind \in Kinds
  BY <1>2, CodeType
<1> HIDE DEF m, a
<1>4. CASE l[m].kind \in Jumps /\ a \in {l[m].to} \ {0}
  BY <1>2, <1>4 DEF Follows, Arcs
<1>5. CASE /\ l[m].kind \notin {"jmp", "ret"}
           /\ a \in IF m < Len(l) THEN {l[m + 1].at} ELSE {}
  <2>1. m \in 1..(Len(l) - 1) /\ a = l[m + 1].at
    BY <1>2, <1>3, <1>5
  <2> QED BY <1>2, <1>5, <2>1 DEF Follows
<1> QED BY <1>2, <1>3, <1>4, <1>5 DEF Successors, Conditional, Jumps

(* Every step the program may take is one of the graph. *)
LEMMA FollowsCovered ==
  ASSUME NEW l \in Code
  PROVE  Follows(l) \subseteq Within(l, Blocks(l)) \cup Between(Blocks(l))
<1>1. ASSUME NEW i \in 1..(Len(l) - 1), l[i].kind \notin {"jmp", "ret"}
      PROVE  <<l[i].at, l[i + 1].at>> \in Within(l, Blocks(l)) \cup Between(Blocks(l))
  <2>1. i \in DOMAIN l /\ i + 1 \in DOMAIN l /\ i < Len(l)
    BY CodeType
  <2>2. CASE i + 1 \notin Starts(l)
    <3>1. Around(Blocks(l), l[i].at) = Around(Blocks(l), l[i + 1].at)
      <4>1. BlockOf(l, i) = BlockOf(l, i + 1)
        BY <2>1, <2>2, BlockEnds
      <4>2. /\ Around(Blocks(l), l[i].at) = {BlockOf(l, i)}
            /\ Around(Blocks(l), l[i + 1].at) = {BlockOf(l, i + 1)}
        BY <2>1, OneAround
      <4> QED BY <4>1, <4>2, Zenon
    <3> QED BY <3>1 DEF Within
  <2>3. CASE i + 1 \in Starts(l)
    <3> DEFINE b == BlockOf(l, i)  c == BlockOf(l, i + 1)
    <3>1. b \in Blocks(l) /\ c \in Blocks(l)
      BY <2>1, OneAround
    <3>2. b.end = l[i].at /\ b.successors = Successors(l, i) /\ c.start = l[i + 1].at
      BY <2>1, <2>3, BlockEnds DEF BlockOf
    <3>3. l[i + 1].at \in Successors(l, i)
      BY <1>1, <2>1 DEF Successors
    <3> QED BY <3>1, <3>2, <3>3 DEF Between
  <2> QED BY <2>2, <2>3
<1>2. ASSUME NEW i \in DOMAIN l, l[i].kind \in Jumps, l[i].to \in Addrs(l)
      PROVE  <<l[i].at, l[i].to>> \in Between(Blocks(l))
  <2>1. PICK k \in DOMAIN l : l[k].at = l[i].to
    BY <1>2 DEF Addrs
  <2>2. k \in Starts(l)
    <3>1. <<l[i].at, l[i].to>> \in Arcs(l)
      BY <1>2 DEF Arcs
    <3>2. l[i].to \in {a[2] : a \in Arcs(l)}
      BY <3>1
    <3> QED BY <2>1, <3>2 DEF Starts, Leaders
  <2>3. FirstOf(l, k) = k
    <3>1. FirstOf(l, k) <= k /\ k <= FirstOf(l, k) /\ FirstOf(l, k) \in DOMAIN l /\ DOMAIN l \subseteq Nat
      BY <2>2, BlockBounds, CodeType DEF Starts
    <3> QED BY <3>1
  <2>4. LastOf(l, i) = i
    BY <1>2, TransferEnds
  <2> DEFINE b == BlockOf(l, i)  c == BlockOf(l, k)
  <2>5. b \in Blocks(l) /\ c \in Blocks(l)
    BY OneAround
  <2>6. b.end = l[i].at /\ b.successors = Successors(l, i) /\ c.start = l[i].to
    BY <2>1, <2>3, <2>4 DEF BlockOf
  <2>7. l[i].to \in Successors(l, i)
    <3>1. l[i].to # 0
      BY <2>1, CodeType
    <3> QED BY <1>2, <3>1 DEF Successors, Jumps, Conditional
  <2> QED BY <2>5, <2>6, <2>7 DEF Between
<1> QED BY <1>1, <1>2 DEF Follows, Arcs

(* For every listing the blocks parseDisassembly makes are its control     *)
(* flow: each instruction is in one block, and control passes along the    *)
(* blocks and their edges exactly as it does along the instructions.       *)
THEOREM BlocksFaithful == \A l \in Code : FlowGraph(l, Blocks(l))
<1> SUFFICES ASSUME NEW l \in Code PROVE FlowGraph(l, Blocks(l))
  OBVIOUS
<1>1. ASSUME NEW a \in Addrs(l) PROVE Cardinality(Around(Blocks(l), a)) = 1
  <2>1. PICK i \in DOMAIN l : a = l[i].at
    BY DEF Addrs
  <2>2. Around(Blocks(l), a) = {BlockOf(l, i)}
    BY <2>1, OneAround
  <2> QED BY <2>2, FS_Singleton, Zenon
<1>2. {b.start : b \in Blocks(l)} \cup {b.end : b \in Blocks(l)} \subseteq Addrs(l)
  BY BlocksAre, OneAround
<1> QED BY <1>1, <1>2, WithinFollows, BetweenFollows, FollowsCovered DEF FlowGraph

-----------------------------------------------------------------------------
(* The decompiled text.                                                    *)

(* What is emitted is finite, and comes from instructions. *)
LEMMA EmittedType ==
  ASSUME NEW l \in Code
  PROVE  /\ Emitted(l) \subseteq (DOMAIN l) \X (1..3)
         /\ IsFiniteSet(Emitted(l))
<1>1. Emitted(l) \subseteq (DOMAIN l) \X (1..3)
  BY DEF Emitted, Starts
<1>2. IsFiniteSet(1..3) /\ IsFiniteSet(DOMAIN l)
  <2>1. \A n \in Nat : IsFiniteSet(1..n)
    BY FS_Interval
  <2>2. 3 \in Nat /\ DOMAIN l = 1..Len(l) /\ Len(l) \in Nat
    BY CodeType
  <2> QED BY <2>1, <2>2
<1>3. IsFiniteSet((DOMAIN l) \X (1..3))
  BY <1>2, FS_Product
<1> QED BY <1>1, <1>3, FS_Subset

(* The place of what is emitted. *)
Place(l, e) == Cardinality({d \in Emitted(l) : ~ Precedes(e, d)})

(* Places are the numbers from 1 on, without gaps: what precedes counts    *)
(* less, and as many numbers as there are things emitted are all taken.    *)
LEMMA PlacesExact ==
  ASSUME NEW l \in Code
  PROVE  /\ Cardinality(Emitted(l)) \in Nat
         /\ \A e \in Emitted(l) : Place(l, e) \in 1..Cardinality(Emitted(l))
         /\ \A d, e \in Emitted(l) : Place(l, d) = Place(l, e) => d = e
         /\ \A n \in 1..Cardinality(Emitted(l)) : \E e \in Emitted(l) : Place(l, e) = n
<1> DEFINE E == Emitted(l)
           upto(e) == {d \in E : ~ Precedes(e, d)}
<1>1. E \subseteq Nat \X Nat /\ IsFiniteSet(E)
  BY EmittedType, CodeType
<1> HIDE DEF E
<1>2. Cardinality(E) \in Nat
  BY <1>1, FS_CardinalityType
<1>3. ASSUME NEW e \in E PROVE e \in upto(e)
  BY <1>1 DEF Precedes
<1>4. ASSUME NEW d \in E, NEW e \in E, Precedes(d, e)
      PROVE  upto(d) \subseteq upto(e) /\ e \notin upto(d)
  <2>1. ASSUME NEW c \in E, Precedes(e, c) PROVE Precedes(d, c)
    BY <1>1, <1>4, <2>1 DEF Precedes
  <2> QED BY <1>4, <2>1
<1>5. ASSUME NEW d \in E, NEW e \in E PROVE Precedes(d, e) \/ Precedes(e, d) \/ d = e
  BY <1>1 DEF Precedes
<1>6. ASSUME NEW e \in E
      PROVE  Cardinality(upto(e)) \in 1..Cardinality(E) /\ IsFiniteSet(upto(e))
  <2>1. upto(e) \subseteq E
    OBVIOUS
  <2> HIDE DEF upto
  <2>2. IsFiniteSet(upto(e)) /\ Cardinality(upto(e)) <= Cardinality(E)
    BY <1>1, <2>1, FS_Subset
  <2>3. Cardinality(upto(e)) \in Nat /\ Cardinality(upto(e)) # 0
    BY <1>3, <2>2, FS_CardinalityType, FS_EmptySet
  <2> QED BY <1>2, <2>2, <2>3
<1>7. ASSUME NEW d \in E, NEW e \in E, Precedes(d, e)
      PROVE  Cardinality(upto(d)) # Cardinality(upto(e))
  <2>1. upto(d) \subseteq upto(e) /\ upto(d) # upto(e)
    BY <1>3, <1>4, <1>7
  <2>2. IsFiniteSet(upto(e))
    BY <1>6
  <2> HIDE DEF upto
  <2> QED BY <2>1, <2>2, FS_Subset
<1> HIDE DEF upto
<1>8. ASSUME NEW d \in E, NEW e \in E, Cardinality(upto(d)) = Cardinality(upto(e))
      PROVE  d = e
  BY <1>5, <1>7, <1>8
<1> DEFINE f == [e \in E |-> Cardinality(upto(e))]
           N == 1..Cardinality(E)
<1>9. f \in [E -> N] /\ \A d, e \in E : f[d] = f[e] => d = e
  BY <1>6, <1>8
<1>10. IsFiniteSet(N) /\ Cardinality(N) = Cardinality(E)
  BY <1>2, FS_Interval
<1> HIDE DEF f, N
<1>11. f \in Injection(E, N)
  BY <1>9 DEF Injection, IsInjective
<1>12. f \in Surjection(E, N)
  BY <1>10, <1>11, FS_Injection
<1>13. \A n \in N : \E e \in E : f[e] = n
  BY <1>12 DEF Surjection
<1>14. \A e \in E : Place(l, e) = Cardinality(upto(e))
  BY DEF Place, upto, E
<1> QED BY <1>2, <1>6, <1>8, <1>13, <1>14 DEF E, f, N

(* The numbers of the lines emitted, and the addresses behind them. *)
Numbers(l, header) == [e \in Emitted(l) |-> header + Place(l, e)]

SourceOf(l, e) == IF l[e[1]].kind = "jg" THEN l[FirstOf(l, e[1])].at ELSE l[e[1]].at

Emission(l, header) ==
  [n \in 1..Cardinality(Emitted(l)) |->
     SourceOf(l, CHOOSE e \in Emitted(l) : Numbers(l, header)[e] = header + n)]

Signature(l, header)    == [n \in 1..header |-> l[1].at]
Closing(l, language)    == IF language \in Closed THEN <<l[Len(l)].at>> ELSE <<>>
ExtentOf(l, i)          == [first |-> FirstOf(l, i), last |-> LastOf(l, i)]

(* What decompileToLanguage makes, in these words. *)
LEMMA DecompiledIs ==
  ASSUME NEW l \in Code, NEW language \in DOMAIN Headers
  PROVE  /\ Decompiled(l, language).address =
              Signature(l, Headers[language]) \o Emission(l, Headers[language])
                \o Closing(l, language)
         /\ DOMAIN Decompiled(l, language).line = Addrs(l)
         /\ \A i \in DOMAIN l : Decompiled(l, language).line[l[i].at] =
              LineOf(l, Headers[language], Numbers(l, Headers[language]), ExtentOf(l, i), i)
<1> DEFINE header == Headers[language]
           text == Decompiled(l, language)
           number == [e \in Emitted(l) |->
                        header + Cardinality({d \in Emitted(l) : ~ Precedes(e, d)})]
           extents == Extents(l)
           Address(e) == IF l[e[1]].kind = "jg" THEN l[extents[e[1]].first].at ELSE l[e[1]].at
           address == [n \in 1..Cardinality(Emitted(l)) |->
                         Address(CHOOSE e \in Emitted(l) : number[e] = header + n)]
           index == [a \in Addrs(l) |-> CHOOSE i \in DOMAIN l : l[i].at = a]
<1>0. header \in Nat
  BY GraphAssumption
<1>1. number = Numbers(l, header)
  BY DEF Numbers, Place
<1>2. /\ text.address = Signature(l, header) \o address \o Closing(l, language)
      /\ text.line = [a \in Addrs(l) |-> LineOf(l, header, number, extents[index[a]], index[a])]
  BY DEF Decompiled, Signature, Closing
<1> HIDE DEF header, text, extents
<1>3. \A i \in DOMAIN l : extents[i] = ExtentOf(l, i)
  BY ExtentsAre DEF extents, ExtentOf
<1>4. address = Emission(l, header)
  <2>1. ASSUME NEW n \in 1..Cardinality(Emitted(l))
        PROVE  LET c == CHOOSE e \in Emitted(l) : number[e] = header + n
               IN Address(c) = SourceOf(l, c)
    <3> DEFINE c == CHOOSE e \in Emitted(l) : number[e] = header + n
    <3>1. \E e \in Emitted(l) : number[e] = header + n
      BY PlacesExact DEF Place
    <3>2. c \in Emitted(l)
      BY <3>1
    <3> HIDE DEF c
    <3>3. c[1] \in DOMAIN l
      BY <3>2, EmittedType
    <3>4. extents[c[1]].first = FirstOf(l, c[1])
      <4>1. extents[c[1]] = ExtentOf(l, c[1])
        BY <1>3, <3>3
      <4> QED BY <4>1 DEF ExtentOf
    <3> QED BY <3>4 DEF SourceOf, c
  <2> HIDE DEF Address, number
  <2> QED BY <1>1, <2>1 DEF Emission
<1>5. ASSUME NEW i \in DOMAIN l PROVE index[l[i].at] = i
  BY CodeType DEF Addrs
<1>6. ASSUME NEW i \in DOMAIN l PROVE l[i].at \in Addrs(l)
  BY DEF Addrs
<1> HIDE DEF index, number
<1>7. ASSUME NEW i \in DOMAIN l
      PROVE  text.line[l[i].at] = LineOf(l, header, number, ExtentOf(l, i), i)
  <2> DEFINE a == l[i].at
  <2>1. a \in Addrs(l) /\ index[a] = i
    BY <1>5, <1>6
  <2>2. text.line[a] = LineOf(l, header, number, extents[index[a]], index[a])
    BY <1>2, <2>1
  <2> HIDE DEF a
  <2>3. text.line[a] = LineOf(l, header, number, extents[i], i)
    BY <2>1, <2>2
  <2>4. extents[i] = ExtentOf(l, i)
    BY <1>3
  <2> QED BY <2>3, <2>4 DEF a
<1>8. text.address = Signature(l, header) \o Emission(l, header) \o Closing(l, language)
  BY <1>2, <1>4
<1>9. DOMAIN text.line = Addrs(l)
  BY <1>2
<1> HIDE DEF address
<1>10. \A i \in DOMAIN l : text.line[l[i].at] =
         LineOf(l, header, Numbers(l, header), ExtentOf(l, i), i)
  BY <1>1, <1>7
<1> QED BY <1>8, <1>9, <1>10 DEF header, text

(* The line of an instruction is in the text, and the address behind that  *)
(* line is of the block of the instruction, unless it is the signature     *)
(* that stands for an instruction of a prologue.                           *)
LineRight(l, language, text, i) ==
  LET n == text.line[l[i].at]
  IN /\ n \in DOMAIN text.address /\ n \in Nat \ {0}
     /\ \/ text.address[n] \in BlockOf(l, i).start..BlockOf(l, i).end
        \/ l[i].kind = "endbr" /\ n = Headers[language]

(* What lies between the ends of a block has an address in it. *)
LEMMA InBlock ==
  ASSUME NEW l \in Code, NEW i \in DOMAIN l, NEW j \in FirstOf(l, i)..LastOf(l, i)
  PROVE  /\ j \in DOMAIN l /\ FirstOf(l, j) = FirstOf(l, i)
         /\ l[j].at \in BlockOf(l, i).start..BlockOf(l, i).end
         /\ l[FirstOf(l, i)].at \in BlockOf(l, i).start..BlockOf(l, i).end
<1>1. /\ FirstOf(l, i) \in DOMAIN l /\ LastOf(l, i) \in DOMAIN l
      /\ DOMAIN l = 1..Len(l) /\ Len(l) \in Nat
  BY BlockBounds, CodeType DEF Starts
<1>2. j \in DOMAIN l /\ FirstOf(l, i) <= j /\ j <= LastOf(l, i)
  BY <1>1
<1>3. /\ l[j].at \in Nat /\ l[FirstOf(l, i)].at \in Nat /\ l[LastOf(l, i)].at \in Nat
      /\ FirstOf(l, i) = j \/ l[FirstOf(l, i)].at < l[j].at
      /\ LastOf(l, i) = j \/ l[j].at < l[LastOf(l, i)].at
  BY <1>1, <1>2, CodeType
<1>4. l[FirstOf(l, i)].at <= l[j].at /\ l[j].at <= l[LastOf(l, i)].at
  BY <1>3
<1>5. FirstOf(l, j) = FirstOf(l, i)
  BY <1>2, SameBlock
<1> QED BY <1>2, <1>3, <1>4, <1>5 DEF BlockOf

(* The number of what is emitted for an instruction of a block leads to an *)
(* address of the block.                                                   *)
LEMMA EmittedRight ==
  ASSUME NEW l \in Code, NEW i \in DOMAIN l, NEW language \in DOMAIN Headers,
         NEW e \in Emitted(l), e[1] \in FirstOf(l, i)..LastOf(l, i)
  PROVE  LET text == Decompiled(l, language)
             n == Numbers(l, Headers[language])[e]
         IN /\ n \in DOMAIN text.address /\ n \in Nat \ {0}
            /\ text.address[n] \in BlockOf(l, i).start..BlockOf(l, i).end
<1> DEFINE header == Headers[language]
           text == Decompiled(l, language)
           size == Cardinality(Emitted(l))
           n == Numbers(l, header)[e]
           S == Signature(l, header)
           E == Emission(l, header)
           C == Closing(l, language)
<1>1. header \in Nat \ {0} /\ size \in Nat
  BY GraphAssumption, PlacesExact
<1>2. n = header + Place(l, e) /\ Place(l, e) \in 1..size
  BY PlacesExact DEF Numbers
<1>3. text.address = (S \o E) \o C
  BY DecompiledIs
<1>4. /\ E[Place(l, e)] = SourceOf(l, e)
  <2>1. (CHOOSE d \in Emitted(l) : Numbers(l, header)[d] = header + Place(l, e)) = e
    <3>1. \A d \in Emitted(l) : Numbers(l, header)[d] = header + Place(l, e) => d = e
      <4>1. \A d \in Emitted(l) : Place(l, d) \in Nat
        BY <1>1, PlacesExact
      <4> QED BY <1>1, <4>1, PlacesExact DEF Numbers
    <3>2. Numbers(l, header)[e] = header + Place(l, e)
      BY DEF Numbers
    <3> HIDE DEF header
    <3> QED BY <3>1, <3>2
  <2> QED BY <1>2, <2>1 DEF Emission
<1>5. SourceOf(l, e) \in BlockOf(l, i).start..BlockOf(l, i).end
  BY InBlock DEF SourceOf
<1> HIDE DEF header, text, size
<1>6. /\ DOMAIN S = 1..header /\ S = [k \in 1..header |-> l[1].at]
      /\ DOMAIN E = 1..size /\ E = [k \in 1..size |-> E[k]]
  BY DEF Signature, Emission, size
<1>7. \E m \in Nat : DOMAIN C = 1..m /\ Len(C) = m
  <2>1. C = <<>> \/ C = <<l[Len(l)].at>>
    BY DEF Closing
  <2>2. DOMAIN <<>> = 1..0 /\ Len(<<>>) = 0
    OBVIOUS
  <2>3. DOMAIN <<l[Len(l)].at>> = 1..1 /\ Len(<<l[Len(l)].at>>) = 1
    OBVIOUS
  <2> HIDE DEF C
  <2> QED BY <2>1, <2>2, <2>3
<1>8. text.address[n] = E[Place(l, e)] /\ n \in DOMAIN text.address
  <2> HIDE DEF S, E, C
  <2> QED BY <1>1, <1>2, <1>3, <1>6, <1>7
<1>9. n \in Nat \ {0}
  BY <1>1, <1>2
<1> QED BY <1>4, <1>5, <1>8, <1>9 DEF header, text

(* The lines of the signature stand for the first instruction. *)
LEMMA SignatureRight ==
  ASSUME NEW l \in Code, l # <<>>, NEW language \in DOMAIN Headers
  PROVE  /\ Headers[language] \in DOMAIN Decompiled(l, language).address
         /\ Decompiled(l, language).address[Headers[language]] = l[1].at
<1> DEFINE header == Headers[language]
           S == Signature(l, header)
           E == Emission(l, header)
           C == Closing(l, language)
<1>1. header \in Nat \ {0} /\ Cardinality(Emitted(l)) \in Nat
  BY GraphAssumption, PlacesExact
<1>2. /\ S = [k \in 1..header |-> l[1].at]
      /\ E = [k \in 1..Cardinality(Emitted(l)) |-> E[k]]
      /\ C = <<>> \/ C = <<l[Len(l)].at>>
  BY DEF Signature, Emission, Closing
<1> HIDE DEF S, E, C, header
<1>3. ((S \o E) \o C)[header] = l[1].at /\ header \in DOMAIN ((S \o E) \o C)
  <2>1. CASE C = <<>>
    BY <1>1, <1>2, <2>1
  <2>2. CASE C = <<l[Len(l)].at>>
    BY <1>1, <1>2, <2>2
  <2> QED BY <1>2, <2>1, <2>2
<1> QED BY <1>3, DecompiledIs DEF S, E, C, header

(* decompileToLanguage gives every instruction a line of its own block. *)
LEMMA LinesRight ==
  ASSUME NEW l \in Code, NEW i \in DOMAIN l, NEW language \in DOMAIN Headers
  PROVE  LineRight(l, language, Decompiled(l, language), i)
<1> DEFINE header == Headers[language]
           number == Numbers(l, header)
           x == ExtentOf(l, i)
           f == FirstOf(l, i)
           z == LastOf(l, i)
           statements == {j \in f..z : l[j].kind \in Statements}
           n == LineOf(l, header, number, x, i)
<1>1. Decompiled(l, language).line[l[i].at] = n
  BY DecompiledIs
<1>2. /\ f \in Starts(l) /\ f \in f..z /\ z \in f..z /\ i \in f..z
      /\ f..z \subseteq DOMAIN l /\ DOMAIN l = 1..Len(l) /\ Len(l) \in Nat
  BY BlockBounds, CodeType DEF Starts
<1>3. ASSUME NEW e \in Emitted(l), e[1] \in f..z, n = number[e]
      PROVE  LineRight(l, language, Decompiled(l, language), i)
  BY <1>1, <1>3, EmittedRight DEF LineRight
<1>4. ASSUME NEW j \in statements PROVE <<j, 3>> \in Emitted(l)
  BY <1>2 DEF Emitted
<1>5. <<f, 2>> \in Emitted(l)
  BY <1>2 DEF Emitted
<1>6. header \in Nat \ {0} /\ header \in DOMAIN Decompiled(l, language).address
      /\ Decompiled(l, language).address[header] = l[1].at
  BY <1>2, SignatureRight, GraphAssumption, CodeType
<1>7. n = IF i = f /\ l[z].kind = "jg" THEN number[<<z, 3>>]
          ELSE IF l[i].kind = "endbr" THEN header
          ELSE IF i \in statements THEN number[<<i, 3>>]
          ELSE IF i # f /\ statements # {} THEN number[<<Max(statements), 3>>]
          ELSE IF f = 1 THEN header
          ELSE number[<<f, 2>>]
  BY DEF LineOf, ExtentOf
<1>8. statements # {} => Max(statements) \in statements
  BY <1>2, GreatestNumber
<1>9. CASE \E j \in statements : n = number[<<j, 3>>]
  <2>1. PICK j \in statements : n = number[<<j, 3>>]
    BY <1>9
  <2>2. <<j, 3>> \in Emitted(l) /\ <<j, 3>>[1] \in f..z
    BY <1>4
  <2> HIDE DEF n, number, f, z, statements
  <2> QED BY <1>3, <2>1, <2>2
<1>10. CASE l[i].kind = "endbr" /\ n = header
  BY <1>1, <1>6, <1>10 DEF LineRight
<1>11. CASE f = 1 /\ n = header
  <2>1. l[f].at \in BlockOf(l, i).start..BlockOf(l, i).end
    BY <1>2, InBlock
  <2> QED BY <1>1, <1>6, <1>11, <2>1 DEF LineRight
<1>12. CASE n = number[<<f, 2>>]
  <2>1. <<f, 2>>[1] \in f..z
    BY <1>2
  <2> HIDE DEF n, number, f, z
  <2> QED BY <1>3, <1>5, <1>12, <2>1
<1>13. l[z].kind = "jg" => z \in statements
  BY <1>2 DEF Statements
<1> HIDE DEF n, number, f, z, statements, header, x
<1> QED BY <1>7, <1>8, <1>9, <1>10, <1>11, <1>12, <1>13

(* Every line of the text has an address. *)
LEMMA AddressesType ==
  ASSUME NEW l \in Code, l # <<>>, NEW language \in DOMAIN Headers
  PROVE  Decompiled(l, language).address \in Seq(Nat \ {0})
<1> DEFINE header == Headers[language]
           S == Signature(l, header)
           E == Emission(l, header)
           C == Closing(l, language)
<1>1. header \in Nat \ {0} /\ Cardinality(Emitted(l)) \in Nat
  BY GraphAssumption, PlacesExact
<1>2. l[1].at \in Nat \ {0} /\ l[Len(l)].at \in Nat \ {0}
  <2>1. 1 \in DOMAIN l /\ Len(l) \in DOMAIN l
    BY CodeType
  <2> QED BY <2>1, CodeType
<1>3. ASSUME NEW n \in 1..Cardinality(Emitted(l)) PROVE E[n] \in Nat \ {0}
  <2> DEFINE e == CHOOSE d \in Emitted(l) : Numbers(l, header)[d] = header + n
  <2>1. \E d \in Emitted(l) : Numbers(l, header)[d] = header + n
    BY PlacesExact DEF Numbers
  <2>2. e \in Emitted(l)
    BY <2>1
  <2>3. e[1] \in DOMAIN l
    BY <2>2, EmittedType
  <2>4. E[n] = SourceOf(l, e)
    BY DEF Emission
  <2> HIDE DEF e, E
  <2>5. FirstOf(l, e[1]) \in DOMAIN l
    BY <2>3, BlockBounds DEF Starts
  <2> QED BY <2>3, <2>4, <2>5, CodeType DEF SourceOf
<1>4. S \in Seq(Nat \ {0})
  BY <1>1, <1>2 DEF Signature
<1>5. E \in Seq(Nat \ {0})
  <2>1. E = [n \in 1..Cardinality(Emitted(l)) |-> E[n]]
    BY DEF Emission
  <2> HIDE DEF E
  <2> QED BY <1>1, <1>3, <2>1
<1>6. C \in Seq(Nat \ {0})
  <2>1. C = <<>> \/ C = <<l[Len(l)].at>>
    BY DEF Closing
  <2>2. <<>> \in Seq(Nat \ {0})
    OBVIOUS
  <2>3. \A a \in Nat \ {0} : <<a>> \in Seq(Nat \ {0})
    OBVIOUS
  <2> HIDE DEF C
  <2> QED BY <1>2, <2>1, <2>2, <2>3
<1> HIDE DEF S, E, C
<1>7. (S \o E) \o C \in Seq(Nat \ {0})
  BY <1>4, <1>5, <1>6
<1> QED BY <1>7, DecompiledIs DEF S, E, C

-----------------------------------------------------------------------------
(* Views.                                                                  *)

Fields == {"startup", "base", "patches", "listing", "blocks", "cursor", "text", "line",
           "scene", "graph", "split", "decompiler", "language", "pcs", "cycle", "texts",
           "focus", "selected", "loaded", "fallback", "code"}

Sources == Listings \cup Reports \cup Binary

TextOK(text) ==
  /\ text.address \in Seq(Nat \ {0})
  /\ \A a \in DOMAIN text.line : text.line[a] \in DOMAIN text.address

(* What a view holds, whatever it shows of it. *)
Held(v) ==
  /\ DOMAIN v = Fields
  /\ v.startup \in Listings /\ v.base \in Sources
  /\ DOMAIN v.patches \subseteq Nat /\ \A a \in DOMAIN v.patches : v.patches[a] \in Replacements
  /\ v.cursor \in Nat \ {0} /\ v.line \in Nat \ {0}
  /\ v.language \in DOMAIN Headers /\ TextOK(v.text)
  /\ DOMAIN v.pcs \subseteq Ranks /\ \A r \in DOMAIN v.pcs : v.pcs[r] \in Places
  /\ \A r \in DOMAIN v.texts : v.texts[r] \subseteq Reports
  /\ v.cycle \subseteq Ranks /\ v.focus \in Ranks /\ v.selected \in Ranks
  /\ v.graph \in BOOLEAN /\ v.split \in BOOLEAN /\ v.decompiler \in BOOLEAN
  /\ v.loaded \in BOOLEAN /\ v.fallback \in BOOLEAN /\ v.code \in BOOLEAN
  /\ v.split => v.graph

(* The listing is the patched text, the blocks are its blocks. *)
Parsed(v) ==
  /\ v.listing = Patched(v.base, v.patches)
  /\ v.blocks = IF v.listing = <<>> THEN {} ELSE Blocks(v.listing)

(* The decompiled text is of the listing, the line highlighted the cursor's. *)
TextRight(v) == v.listing # <<>> => v.text = Decompiled(v.listing, v.language)

LineAt(v) == v.listing # <<>> /\ v.cursor \in Addrs(v.listing) => v.line = v.text.line[v.cursor]

(* What is visible is drawn. *)
Seen(v)    == v.split \/ (v.graph /\ ~ v.decompiler)
Current(v) == Seen(v) => v.scene = Draw(v).scene

Ready(v) == Held(v) /\ Parsed(v) /\ TextRight(v)
Good(v)  == Ready(v) /\ LineAt(v) /\ Current(v)

(* Only some members differ. *)
Except(u, v, some) == DOMAIN u = DOMAIN v /\ \A f \in Fields \ some : u[f] = v[f]

LEMMA PatchedCode ==
  ASSUME NEW l \in Sources, NEW patches, DOMAIN patches \subseteq Nat,
         \A a \in DOMAIN patches : patches[a] \in Replacements
  PROVE  Patched(l, patches) \in Code /\ DOMAIN Patched(l, patches) = DOMAIN l
<1> DEFINE Instruction == [at : Nat \ {0}, kind : Kinds, to : Nat]
           m(i) == IF l[i].at \in DOMAIN patches
                   THEN [l[i] EXCEPT !.kind = patches[l[i].at][1], !.to = patches[l[i].at][2]]
                   ELSE l[i]
<1>1. l \in Seq(Instruction) /\ \A i, j \in DOMAIN l : i < j => l[i].at < l[j].at
  BY GraphAssumption DEF Sources
<1>2. /\ DOMAIN l = 1..Len(l) /\ Len(l) \in Nat /\ \A i \in DOMAIN l : l[i] \in Instruction
  <2> HIDE DEF Instruction
  <2> QED BY <1>1
<1>3. ASSUME NEW i \in DOMAIN l PROVE m(i) \in Instruction /\ m(i).at = l[i].at
  <2>1. CASE l[i].at \in DOMAIN patches
    <3>1. patches[l[i].at] \in Kinds \X Nat
      BY <2>1, GraphAssumption
    <3>2. patches[l[i].at][1] \in Kinds /\ patches[l[i].at][2] \in Nat
      <4> HIDE DEF Kinds
      <4> QED BY <3>1
    <3> QED BY <1>2, <2>1, <3>2
  <2>2. CASE l[i].at \notin DOMAIN patches
    BY <1>2, <2>2
  <2> QED BY <2>1, <2>2
<1>4. Patched(l, patches) = [i \in DOMAIN l |-> m(i)]
  BY DEF Patched
<1> HIDE DEF m
<1>5. Patched(l, patches) \in Seq(Instruction)
  <2> HIDE DEF Instruction
  <2> QED BY <1>2, <1>3, <1>4
<1>6. \A i, j \in DOMAIN l : i < j => Patched(l, patches)[i].at < Patched(l, patches)[j].at
  BY <1>1, <1>3, <1>4
<1> QED BY <1>4, <1>5, <1>6 DEF Code

LEMMA ParsedCode ==
  ASSUME NEW v, Held(v), Parsed(v)
  PROVE  v.listing \in Code /\ DOMAIN v.listing = DOMAIN v.base
BY PatchedCode DEF Held, Parsed

-----------------------------------------------------------------------------
(* The operations of the view.                                             *)

(* What is drawn depends on blocks, listing, cursor, ranks and deadlock. *)
LEMMA SameScene ==
  ASSUME NEW u, NEW v, DOMAIN u = Fields, DOMAIN v = Fields,
         u.blocks = v.blocks, u.listing = v.listing, u.cursor = v.cursor,
         u.pcs = v.pcs, u.cycle = v.cycle
  PROVE  Draw(u).scene = Draw(v).scene
<1>1. \A b : RanksAt(u, b) = RanksAt(v, b)
  BY DEF RanksAt
<1>2. "scene" \in Fields
  BY DEF Fields
<1> DEFINE Boxes(x) == {[start |-> b.start, ranks |-> RanksAt(x, b),
                         deadlock |-> RanksAt(x, b) \cap x.cycle # {}] : b \in x.blocks}
           Marked(x) == {x.cursor} \cap Addrs(x.listing)
           Edges(x) == {e \in {b.start : b \in x.blocks} \X {b.start : b \in x.blocks} :
                          \E b \in x.blocks : b.start = e[1] /\ e[2] \in b.successors}
<1>3. ASSUME NEW x, DOMAIN x = Fields
      PROVE  Draw(x).scene = [boxes |-> Boxes(x), marked |-> Marked(x), edges |-> Edges(x)]
  BY <1>2, <1>3 DEF Draw
<1>4. Boxes(u) = Boxes(v)
  BY <1>1
<1>5. Marked(u) = Marked(v) /\ Edges(u) = Edges(v)
  OBVIOUS
<1> HIDE DEF Boxes, Marked, Edges
<1> QED BY <1>3, <1>4, <1>5

(* Drawing shows what there is and changes nothing else. *)
LEMMA DrawKeeps ==
  ASSUME NEW v, Held(v)
  PROVE  /\ Held(Draw(v)) /\ Current(Draw(v)) /\ Except(Draw(v), v, {"scene"})
         /\ Parsed(v) => Parsed(Draw(v))
         /\ TextRight(v) => TextRight(Draw(v))
         /\ LineAt(v) => LineAt(Draw(v))
         /\ Ready(v) /\ LineAt(v) => Good(Draw(v))
<1>1. Except(Draw(v), v, {"scene"})
  BY DEF Draw, Except, Held, Fields
<1>2. Held(Draw(v))
  BY <1>1 DEF Except, Held, Fields
<1>3. Draw(Draw(v)).scene = Draw(v).scene
  BY <1>1, SameScene DEF Held, Except, Fields
<1>4. Parsed(v) => Parsed(Draw(v))
  BY <1>1 DEF Except, Fields, Parsed
<1>5. TextRight(v) => TextRight(Draw(v))
  BY <1>1 DEF Except, Fields, TextRight
<1>6. LineAt(v) => LineAt(Draw(v))
  BY <1>1 DEF Except, Fields, LineAt
<1> QED BY <1>1, <1>2, <1>3, <1>4, <1>5, <1>6 DEF Current, Ready, Good

LEMMA MappedType ==
  ASSUME NEW v, Held(v), NEW a
  PROVE  MappedLine(v, a) \in Nat
<1> DEFINE around == {b \in v.blocks : a \in b.start..b.end /\ b.start \in DOMAIN v.text.line}
<1>1. \A x \in DOMAIN v.text.line : v.text.line[x] \in Nat
  BY DEF Held, TextOK
<1>2. around # {} => (CHOOSE b \in around : TRUE).start \in DOMAIN v.text.line
  OBVIOUS
<1> QED BY <1>1, <1>2 DEF MappedLine

(* The line follows the cursor wherever there is a line for it. *)
LEMMA FollowKeeps ==
  ASSUME NEW v, Held(v)
  PROVE  /\ Held(Follow(v)) /\ Except(Follow(v), v, {"line"})
         /\ Parsed(v) => Parsed(Follow(v))
         /\ TextRight(v) => TextRight(Follow(v))
         /\ Ready(v) => LineAt(Follow(v))
<1>1. Follow(v) = IF MappedLine(v, v.cursor) > 0
                  THEN [v EXCEPT !.line = MappedLine(v, v.cursor)] ELSE v
  BY DEF Follow
<1>2. MappedLine(v, v.cursor) \in Nat
  BY MappedType
<1>3. Except(Follow(v), v, {"line"})
  BY <1>1 DEF Except, Held, Fields
<1>4. Follow(v).line \in Nat \ {0}
  BY <1>1, <1>2 DEF Held, Fields
<1>5. Held(Follow(v))
  BY <1>3, <1>4 DEF Except, Held, Fields
<1>6. Parsed(v) => Parsed(Follow(v))
  BY <1>3 DEF Except, Fields, Parsed
<1>7. TextRight(v) => TextRight(Follow(v))
  BY <1>3 DEF Except, Fields, TextRight
<1>8. ASSUME Ready(v), v.listing # <<>>, v.cursor \in Addrs(v.listing)
      PROVE  Follow(v).line = v.text.line[v.cursor]
  <2>1. v.text = Decompiled(v.listing, v.language) /\ v.listing \in Code
    BY <1>8, ParsedCode DEF Ready, TextRight
  <2>2. v.cursor \in DOMAIN v.text.line
    BY <1>8, <2>1, DecompiledIs DEF Held
  <2>3. MappedLine(v, v.cursor) = v.text.line[v.cursor]
    BY <2>2 DEF MappedLine
  <2>4. v.text.line[v.cursor] > 0
    BY <2>2 DEF Held, TextOK
  <2> QED BY <1>1, <2>3, <2>4 DEF Held, Fields
<1>9. Ready(v) => LineAt(Follow(v))
  <2>1. /\ Follow(v).listing = v.listing /\ Follow(v).cursor = v.cursor
        /\ Follow(v).text = v.text
    BY <1>3 DEF Except, Fields
  <2> QED BY <1>8, <2>1 DEF LineAt
<1> QED BY <1>3, <1>5, <1>6, <1>7, <1>9

LEMMA TemplateType ==
  ASSUME NEW language \in DOMAIN Headers
  PROVE  TextOK(Template(language))
<1> DEFINE n == Headers[language] + IF language \in Closed THEN 3 ELSE 2
           t == Template(language)
<1>1. n \in Nat /\ Headers[language] \in Nat /\ Entry \in Nat \ {0} /\ Headers[language] + 2 \in 1..n
  BY GraphAssumption
<1>2. /\ t.address = [k \in 1..n |-> Entry] /\ DOMAIN t.line = {Entry}
      /\ t.line[Entry] = Headers[language] + 2
  BY DEF Template
<1> HIDE DEF n, t
<1>3. t.address \in Seq(Nat \ {0}) /\ DOMAIN t.address = 1..n
  BY <1>1, <1>2
<1> QED BY <1>1, <1>2, <1>3 DEF TextOK, t

LEMMA DecompiledType ==
  ASSUME NEW l \in Code, l # <<>>, NEW language \in DOMAIN Headers
  PROVE  TextOK(Decompiled(l, language))
<1>1. ASSUME NEW a \in Addrs(l)
      PROVE  Decompiled(l, language).line[a] \in DOMAIN Decompiled(l, language).address
  BY LinesRight DEF LineRight, Addrs
<1> QED BY <1>1, AddressesType, DecompiledIs DEF TextOK

(* A text that is made again is of the listing, and its line the cursor's. *)
LEMMA RefreshKeeps ==
  ASSUME NEW v, Held(v), Parsed(v)
  PROVE  /\ Ready(Refresh(v)) /\ LineAt(Refresh(v))
         /\ Except(Refresh(v), v, {"text", "line"})
<1> DEFINE text == IF v.blocks = {} THEN Template(v.language)
                   ELSE Decompiled(v.listing, v.language)
           u == [v EXCEPT !.text = text]
<1>1. Refresh(v) = Follow(u)
  BY DEF Refresh
<1>2. v.listing \in Code /\ (v.blocks = {} <=> v.listing = <<>>)
  <2>1. v.listing \in Code
    BY ParsedCode
  <2>2. v.listing # <<>> => Blocks(v.listing) # {}
    BY <2>1, OneAround, CodeType
  <2> QED BY <2>1, <2>2 DEF Parsed
<1>3. TextOK(text)
  BY <1>2, TemplateType, DecompiledType DEF Held
<1>4. v.listing # <<>> => text = Decompiled(v.listing, v.language)
  BY <1>2
<1> HIDE DEF text
<1>5. Except(u, v, {"text"}) /\ u.text = text
  BY DEF Except, Held, Fields
<1> HIDE DEF u
<1>6. Held(u)
  BY <1>3, <1>5 DEF Except, Held, Fields
<1>7. Parsed(u) /\ TextRight(u)
  BY <1>4, <1>5 DEF Except, Fields, Parsed, TextRight
<1>8. Ready(Follow(u)) /\ LineAt(Follow(u)) /\ Except(Follow(u), u, {"line"})
  BY <1>6, <1>7, FollowKeeps DEF Ready
<1>9. Except(Follow(u), v, {"text", "line"})
  BY <1>5, <1>8 DEF Except
<1> QED BY <1>1, <1>8, <1>9

(* What showing something may change. *)
Shown == {"base", "listing", "blocks", "cursor", "text", "line", "scene", "graph", "split",
          "decompiler", "fallback"}

(* What may differ in a few members may differ in more. *)
LEMMA ExceptWider ==
  ASSUME NEW u, NEW v, NEW some, NEW more, Except(u, v, some), some \subseteq more
  PROVE  Except(u, v, more)
BY DEF Except

LEMMA ShownOthers == Shown \subseteq Fields \ {"startup", "texts", "pcs"}
BY DEF Shown, Fields

LEMMA ExceptTrans ==
  ASSUME NEW u, NEW v, NEW w, Except(u, v, Shown), Except(v, w, Shown)
  PROVE  Except(u, w, Shown)
BY DEF Except

LEMMA ExceptLess ==
  ASSUME NEW u, NEW v, NEW some \in SUBSET Shown, Except(u, v, some)
  PROVE  Except(u, v, Shown)
BY DEF Except

(* A listing that is parsed replaces blocks, text and line together. *)
LEMMA ParseKeeps ==
  ASSUME NEW v, Held(v)
  PROVE  LET u == Parse(v, Patched(v.base, v.patches))
         IN Ready(u) /\ LineAt(u) /\ Except(u, v, Shown)
<1> DEFINE l == Patched(v.base, v.patches)
           u == Parse(v, l)
<1>1. l \in Code
  BY PatchedCode DEF Held
<1> HIDE DEF l
<1>2. CASE l = <<>>
  <2>1. u = [v EXCEPT !.listing = l, !.blocks = {}]
    BY <1>2 DEF Parse
  <2>2. Except(u, v, {"listing", "blocks"}) /\ u.listing = <<>> /\ u.blocks = {}
    BY <1>2, <2>1 DEF Except, Held, Fields
  <2>3. Held(u)
    BY <2>2 DEF Except, Held, Fields
  <2>4. Parsed(u)
    BY <1>2, <2>2 DEF Except, Fields, Parsed, l
  <2>5. TextRight(u) /\ LineAt(u)
    BY <2>2 DEF TextRight, LineAt
  <2>6. Except(u, v, Shown)
    BY <2>2, ExceptLess DEF Shown
  <2> QED BY <2>3, <2>4, <2>5, <2>6 DEF Ready, l
<1>3. CASE l # <<>>
  <2> DEFINE w == [v EXCEPT !.listing = l, !.blocks = Blocks(l),
                            !.cursor = IF @ \in Addrs(l) THEN @ ELSE l[1].at]
  <2>1. u = Refresh(w)
    BY <1>3 DEF Parse
  <2>2. /\ Except(w, v, {"listing", "blocks", "cursor"})
        /\ w.listing = l /\ w.blocks = Blocks(l)
        /\ w.cursor \in {v.cursor, l[1].at}
    BY DEF Except, Held, Fields
  <2>3. l[1].at \in Nat \ {0}
    BY <1>1, <1>3, CodeType
  <2> HIDE DEF w
  <2>4. Held(w)
    BY <2>2, <2>3 DEF Except, Held, Fields
  <2>5. Parsed(w)
    BY <1>3, <2>2 DEF Except, Fields, Parsed, l
  <2>6. Ready(u) /\ LineAt(u) /\ Except(u, w, {"text", "line"})
    BY <2>1, <2>4, <2>5, RefreshKeeps
  <2>7. Except(w, v, Shown) /\ Except(u, w, Shown)
    BY <2>2, <2>6, ExceptLess DEF Shown
  <2>8. Except(u, v, Shown)
    BY <2>7, ExceptTrans
  <2> QED BY <2>6, <2>8 DEF l
<1> QED BY <1>2, <1>3

(* updateDisassembly: whatever was shown, the listing shown next is drawn. *)
LEMMA UpdateKeeps ==
  ASSUME NEW v, Held(v), NEW texts \in SUBSET Sources
  PROVE  Good(Update(v, texts)) /\ Except(Update(v, texts), v, Shown)
<1> DEFINE base == IF texts = {} THEN v.startup ELSE CHOOSE l \in texts : TRUE
           w == [v EXCEPT !.base = base]
           u == Parse(w, Patched(w.base, w.patches))
<1>1. base \in Sources
  BY DEF Held, Sources
<1>2. Update(v, texts) = Draw(Parse(w, Patched(base, v.patches)))
  BY DEF Update
<1> HIDE DEF base
<1>3. Except(w, v, {"base"}) /\ w.base = base /\ w.patches = v.patches
  BY DEF Except, Held, Fields
<1> HIDE DEF w
<1>4. Held(w) /\ Except(w, v, Shown)
  <2>1. Held(w)
    BY <1>1, <1>3 DEF Except, Held, Fields
  <2> QED BY <1>3, <2>1, ExceptLess DEF Shown
<1>5. Ready(u) /\ LineAt(u) /\ Except(u, w, Shown)
  BY <1>4, ParseKeeps
<1>6. Update(v, texts) = Draw(u)
  BY <1>2, <1>3
<1> HIDE DEF u
<1>7. Good(Draw(u)) /\ Except(Draw(u), u, {"scene"})
  BY <1>5, DrawKeeps DEF Ready
<1>8. Except(Draw(u), u, Shown)
  BY <1>7, ExceptLess DEF Shown
<1> QED BY <1>4, <1>5, <1>6, <1>7, <1>8, ExceptTrans

(* seekToAddress of the view. *)
LEMMA SoughtKeeps ==
  ASSUME NEW v, Ready(v), NEW a \in Nat \ {0}
  PROVE  Good(Sought(v, a)) /\ Except(Sought(v, a), v, Shown)
<1> DEFINE w == [v EXCEPT !.cursor = a]
           u == Follow(w)
<1>1. Except(w, v, {"cursor"}) /\ w.cursor = a
  BY DEF Except, Ready, Held, Fields
<1>2. Sought(v, a) = Draw(u)
  BY DEF Sought
<1> HIDE DEF w
<1>3. Held(w)
  BY <1>1 DEF Except, Ready, Held, Fields
<1>4. Parsed(w) /\ TextRight(w)
  BY <1>1 DEF Except, Ready, Fields, Parsed, TextRight
<1>5. Ready(u) /\ LineAt(u) /\ Except(u, w, {"line"})
  BY <1>3, <1>4, FollowKeeps DEF Ready
<1> HIDE DEF u
<1>6. Good(Draw(u)) /\ Except(Draw(u), u, {"scene"})
  BY <1>5, DrawKeeps DEF Ready
<1>7. Except(w, v, Shown) /\ Except(u, w, Shown) /\ Except(Draw(u), u, Shown)
  BY <1>1, <1>5, <1>6, ExceptLess DEF Shown
<1> QED BY <1>2, <1>6, <1>7, ExceptTrans

(* updateViewModeLayout: what becomes visible is drawn, whatever happened  *)
(* while it was hidden.                                                    *)
LEMMA RelayoutKeeps ==
  ASSUME NEW v, Ready(v), LineAt(v)
  PROVE  Good(Relayout(v)) /\ Except(Relayout(v), v, Shown)
<1>1. CASE v.split
  <2> DEFINE u == Draw(v)
  <2>1. Good(u) /\ Except(u, v, {"scene"})
    BY DrawKeeps DEF Ready
  <2> HIDE DEF u
  <2>2. Ready(Refresh(u)) /\ LineAt(Refresh(u)) /\ Except(Refresh(u), u, {"text", "line"})
    BY <2>1, RefreshKeeps DEF Good, Ready
  <2>3. Current(Refresh(u))
    <3>1. Draw(Refresh(u)).scene = Draw(u).scene
      BY <2>1, <2>2, SameScene DEF Except, Good, Ready, Held, Fields
    <3>2. Seen(u) /\ Refresh(u).scene = u.scene
      BY <1>1, <2>1, <2>2 DEF Except, Fields, Seen
    <3> QED BY <2>1, <3>1, <3>2 DEF Good, Current
  <2>4. Except(u, v, Shown) /\ Except(Refresh(u), u, Shown)
    BY <2>1, <2>2, ExceptLess DEF Shown
  <2>5. Relayout(v) = Refresh(u)
    BY <1>1 DEF Relayout, u
  <2> QED BY <2>2, <2>3, <2>4, <2>5, ExceptTrans DEF Good
<1>2. CASE ~ v.split /\ v.decompiler
  <2>1. Ready(Refresh(v)) /\ LineAt(Refresh(v)) /\ Except(Refresh(v), v, {"text", "line"})
    BY RefreshKeeps DEF Ready
  <2>2. ~ Seen(Refresh(v))
    BY <1>2, <2>1 DEF Except, Fields, Seen
  <2>3. Except(Refresh(v), v, Shown)
    BY <2>1, ExceptLess DEF Shown
  <2> QED BY <1>2, <2>1, <2>2, <2>3 DEF Relayout, Good, Current
<1>3. CASE ~ v.split /\ ~ v.decompiler /\ v.graph
  <2>1. Good(Draw(v)) /\ Except(Draw(v), v, {"scene"})
    BY DrawKeeps DEF Ready
  <2>2. Except(Draw(v), v, Shown)
    BY <2>1, ExceptLess DEF Shown
  <2> QED BY <1>3, <2>1, <2>2 DEF Relayout
<1>4. CASE ~ v.split /\ ~ v.decompiler /\ ~ v.graph
  BY <1>4 DEF Relayout, Good, Current, Seen, Except
<1> QED BY <1>1, <1>2, <1>3, <1>4

-----------------------------------------------------------------------------
(* What neither the text nor the drawing is made of. *)
Beside == {"startup", "texts", "focus", "selected", "loaded", "fallback", "code"}

LEMMA BesideKeeps ==
  ASSUME NEW u, NEW v, Held(u), Held(v), Except(u, v, Beside)
  PROVE  /\ Ready(v) => Ready(u)
         /\ LineAt(v) => LineAt(u)
         /\ Current(v) => Current(u)
<1>1. Draw(u).scene = Draw(v).scene
  BY SameScene DEF Held, Except, Fields, Beside
<1>2. Current(v) => Current(u)
  BY <1>1 DEF Except, Fields, Beside, Current, Seen
<1>3. Parsed(v) => Parsed(u)
  BY DEF Except, Fields, Beside, Parsed
<1>4. TextRight(v) => TextRight(u)
  BY DEF Except, Fields, Beside, TextRight
<1>5. LineAt(v) => LineAt(u)
  BY DEF Except, Fields, Beside, LineAt
<1> QED BY <1>2, <1>3, <1>4, <1>5 DEF Ready

(* What the text is not made of, but the drawing may be. *)
Modes == {"graph", "split", "decompiler", "pcs", "cycle", "scene"}

LEMMA ModesKeep ==
  ASSUME NEW u, NEW v, Held(u), Held(v), Except(u, v, Modes \cup Beside)
  PROVE  (Ready(v) => Ready(u)) /\ (LineAt(v) => LineAt(u))
<1>1. Parsed(v) => Parsed(u)
  BY DEF Except, Fields, Beside, Modes, Parsed
<1>2. TextRight(v) => TextRight(u)
  BY DEF Except, Fields, Beside, Modes, TextRight
<1>3. LineAt(v) => LineAt(u)
  BY DEF Except, Fields, Beside, Modes, LineAt
<1> QED BY <1>1, <1>2, <1>3 DEF Ready

LEMMA RefreshGood ==
  ASSUME NEW v, Held(v), Parsed(v), Current(v)
  PROVE  Good(Refresh(v)) /\ Except(Refresh(v), v, {"text", "line"})
<1>1. Ready(Refresh(v)) /\ LineAt(Refresh(v)) /\ Except(Refresh(v), v, {"text", "line"})
  BY RefreshKeeps
<1>2. Draw(Refresh(v)).scene = Draw(v).scene
  BY <1>1, SameScene DEF Except, Ready, Held, Fields
<1>3. Current(Refresh(v))
  BY <1>1, <1>2 DEF Except, Fields, Current, Seen
<1> QED BY <1>1, <1>3 DEF Good

(* setSplitViewEnabled, setDecompilerEnabled and setGraphModeEnabled. *)
LEMMA LayoutKeeps ==
  ASSUME NEW v, Ready(v), LineAt(v),
         NEW split \in BOOLEAN, NEW decompiler \in BOOLEAN, NEW graph \in BOOLEAN,
         split => graph,
         NEW w, w = [v EXCEPT !.split = split, !.decompiler = decompiler, !.graph = graph]
  PROVE  Good(Relayout(w)) /\ Except(Relayout(w), v, Shown)
<1>1. /\ Except(w, v, {"split", "decompiler", "graph"})
      /\ w.split = split /\ w.decompiler = decompiler /\ w.graph = graph
  BY DEF Except, Ready, Held, Fields
<1>2. Held(w)
  BY <1>1 DEF Except, Ready, Held, Fields
<1>3. Except(w, v, Modes \cup Beside) /\ Except(w, v, Shown)
  BY <1>1 DEF Except, Modes, Shown
<1>4. Ready(w) /\ LineAt(w)
  BY <1>2, <1>3, ModesKeep DEF Ready
<1>5. Good(Relayout(w)) /\ Except(Relayout(w), w, Shown)
  BY <1>4, RelayoutKeeps
<1> QED BY <1>3, <1>5, ExceptTrans

LEMMA SplitKeeps ==
  ASSUME NEW v, Ready(v), LineAt(v), NEW on \in BOOLEAN
  PROVE  Good(SetSplit(v, on)) /\ Except(SetSplit(v, on), v, Shown)
<1>1. SetSplit(v, on) =
        Relayout([v EXCEPT !.split = on, !.decompiler = on, !.graph = on \/ v.graph])
  BY DEF SetSplit, Ready, Held, Fields
<1>2. (on \/ v.graph) \in BOOLEAN
  BY DEF Ready, Held
<1> QED BY <1>1, <1>2, LayoutKeeps

LEMMA DecompilerKeeps ==
  ASSUME NEW v, Ready(v), LineAt(v), NEW on \in BOOLEAN
  PROVE  Good(SetDecompiler(v, on)) /\ Except(SetDecompiler(v, on), v, Shown)
<1>1. [v EXCEPT !.split = FALSE, !.decompiler = on] =
        [v EXCEPT !.split = FALSE, !.decompiler = on, !.graph = v.graph]
  BY DEF Ready, Held, Fields
<1>2. v.graph \in BOOLEAN
  BY DEF Ready, Held
<1> QED BY <1>1, <1>2, LayoutKeeps DEF SetDecompiler

LEMMA GraphKeeps ==
  ASSUME NEW v, Ready(v), LineAt(v), NEW on \in BOOLEAN
  PROVE  Good(SetGraph(v, on)) /\ Except(SetGraph(v, on), v, Shown)
BY LayoutKeeps DEF SetGraph

(* setRankAddresses and setDeadlockCycleRanks: what is not drawn is not    *)
(* visible either.                                                         *)
LEMMA DrawIfGraph ==
  ASSUME NEW v, NEW w, Held(w), Ready(v), LineAt(v), Except(w, v, {"pcs", "cycle"})
  PROVE  /\ Good(IF v.graph THEN Draw(w) ELSE w)
         /\ Except(IF v.graph THEN Draw(w) ELSE w, w, {"scene"})
<1>1. Except(w, v, Modes \cup Beside)
  BY DEF Except, Modes
<1>2. Ready(w) /\ LineAt(w)
  BY <1>1, ModesKeep DEF Ready
<1>3. CASE v.graph
  BY <1>2, <1>3, DrawKeeps
<1>4. CASE ~ v.graph
  <2>1. ~ Seen(w)
    BY <1>4 DEF Seen, Held, Except, Fields
  <2> QED BY <1>2, <1>4, <2>1 DEF Good, Current, Except
<1> QED BY <1>3, <1>4

LEMMA RankAddressesKeep ==
  ASSUME NEW v, Ready(v), LineAt(v), NEW pcs, DOMAIN pcs \subseteq Ranks,
         \A r \in DOMAIN pcs : pcs[r] \in Places
  PROVE  LET u == SetRankAddresses(v, pcs)
         IN Good(u) /\ u.pcs = pcs /\ Except(u, v, {"pcs", "scene"})
<1> DEFINE w == [v EXCEPT !.pcs = pcs]
           u == SetRankAddresses(v, pcs)
<1>1. Except(w, v, {"pcs"}) /\ w.pcs = pcs
  BY DEF Except, Ready, Held, Fields
<1>2. u = IF v.graph THEN Draw(w) ELSE w
  BY DEF SetRankAddresses
<1> HIDE DEF w, u
<1>3. Held(w)
  BY <1>1 DEF Except, Ready, Held, Fields
<1>4. Except(w, v, {"pcs", "cycle"})
  BY <1>1 DEF Except
<1>5. Good(u) /\ Except(u, w, {"scene"})
  BY <1>2, <1>3, <1>4, DrawIfGraph
<1> QED BY <1>1, <1>5 DEF Except, Fields, u

LEMMA DeadlockKeeps ==
  ASSUME NEW v, Ready(v), LineAt(v), NEW cycle \in SUBSET Ranks
  PROVE  LET u == SetDeadlockCycleRanks(v, cycle)
         IN Good(u) /\ Except(u, v, {"cycle", "scene"})
<1> DEFINE w == [v EXCEPT !.cycle = cycle]
           u == SetDeadlockCycleRanks(v, cycle)
<1>1. Except(w, v, {"cycle"}) /\ w.cycle = cycle
  BY DEF Except, Ready, Held, Fields
<1>2. u = IF v.graph THEN Draw(w) ELSE w
  BY DEF SetDeadlockCycleRanks
<1> HIDE DEF w, u
<1>3. Held(w)
  BY <1>1 DEF Except, Ready, Held, Fields
<1>4. Except(w, v, {"pcs", "cycle"})
  BY <1>1 DEF Except
<1>5. Good(u) /\ Except(u, w, {"scene"})
  BY <1>2, <1>3, <1>4, DrawIfGraph
<1> QED BY <1>1, <1>5 DEF Except, Fields, u

-----------------------------------------------------------------------------
(* What the window makes of them.                                          *)

LEMMA FallbackKeeps ==
  ASSUME NEW v, Ready(v), LineAt(v), NEW b \in BOOLEAN
  PROVE  LET w == [v EXCEPT !.fallback = b]
         IN Ready(w) /\ LineAt(w) /\ Except(w, v, Shown)
<1> DEFINE w == [v EXCEPT !.fallback = b]
<1>1. Except(w, v, {"fallback"}) /\ w.fallback = b
  BY DEF Except, Ready, Held, Fields
<1> HIDE DEF w
<1>2. Held(w)
  BY <1>1 DEF Except, Ready, Held, Fields
<1>3. Except(w, v, Beside) /\ Except(w, v, Shown)
  BY <1>1 DEF Except, Beside, Shown
<1>4. Ready(w) /\ LineAt(w)
  BY <1>2, <1>3, BesideKeeps DEF Ready
<1> QED BY <1>3, <1>4 DEF w

LEMMA LinearKeeps ==
  ASSUME NEW v, Ready(v), LineAt(v)
  PROVE  Good(SetLinear(v)) /\ Except(SetLinear(v), v, Shown)
<1> DEFINE w == [v EXCEPT !.fallback = FALSE]
           u == SetSplit(w, FALSE)
<1>1. Ready(w) /\ LineAt(w) /\ Except(w, v, Shown)
  BY FallbackKeeps
<1>2. SetLinear(v) = SetGraph(u, FALSE)
  BY DEF SetLinear
<1> HIDE DEF w
<1>3. Good(u) /\ Except(u, w, Shown)
  BY <1>1, SplitKeeps
<1> HIDE DEF u
<1>4. Good(SetGraph(u, FALSE)) /\ Except(SetGraph(u, FALSE), u, Shown)
  BY <1>3, GraphKeeps DEF Good
<1> QED BY <1>1, <1>2, <1>3, <1>4, ExceptTrans

(* seekToAddress of the window, wherever it loads a function, falls back   *)
(* to the decompiled text or comes back from it.                           *)
LEMMA SeekKeeps ==
  ASSUME NEW v, Ready(v), NEW a \in Nat \ {0}
  PROVE  Good(SeekToAddress(v, a)) /\ Except(SeekToAddress(v, a), v, Shown)
<1> DEFINE functions == {f \in Binary : v.loaded /\ a \in f[1].at..f[Len(f)].at}
           t == IF functions = {} THEN v ELSE Update(v, functions)
           u == Sought(t, a)
           w == [u EXCEPT !.fallback = TRUE]
<1>1. Ready(t) /\ Except(t, v, Shown)
  <2>1. functions \in SUBSET Sources
    BY DEF Sources
  <2>2. Except(v, v, Shown)
    BY DEF Except
  <2> HIDE DEF functions
  <2> QED BY <2>1, <2>2, UpdateKeeps DEF Ready, Good
<1>2. SeekToAddress(v, a) = IF a \notin Mapped THEN SetSplit(w, TRUE)
                            ELSE IF u.fallback THEN SetLinear(u) ELSE u
  BY DEF SeekToAddress
<1> HIDE DEF t
<1>3. Good(u) /\ Except(u, t, Shown)
  BY <1>1, SoughtKeeps
<1> HIDE DEF u
<1>4. Ready(u) /\ LineAt(u) /\ Except(u, v, Shown)
  BY <1>1, <1>3, ExceptTrans DEF Good
<1>5. Ready(w) /\ LineAt(w) /\ Except(w, u, Shown)
  BY <1>4, FallbackKeeps
<1> HIDE DEF w
<1>6. Good(SetSplit(w, TRUE)) /\ Except(SetSplit(w, TRUE), w, Shown)
  BY <1>5, SplitKeeps
<1>7. Except(SetSplit(w, TRUE), v, Shown)
  BY <1>4, <1>5, <1>6, ExceptTrans
<1>8. Good(SetLinear(u)) /\ Except(SetLinear(u), v, Shown)
  BY <1>4, LinearKeeps, ExceptTrans
<1> QED BY <1>2, <1>3, <1>4, <1>6, <1>7, <1>8

LEMMA SeekLinearKeeps ==
  ASSUME NEW v, Ready(v), NEW a \in Nat \ {0}
  PROVE  Good(SeekKeepingLinear(v, a)) /\ Except(SeekKeepingLinear(v, a), v, Shown)
<1> DEFINE u == SeekToAddress(v, a)
<1>1. Good(u) /\ Except(u, v, Shown)
  BY SeekKeeps
<1>2. SeekKeepingLinear(v, a) \in {u, SetLinear(u)}
  BY DEF SeekKeepingLinear
<1> HIDE DEF u
<1>3. Good(SetLinear(u)) /\ Except(SetLinear(u), u, Shown)
  BY <1>1, LinearKeeps DEF Good
<1> QED BY <1>1, <1>2, <1>3, ExceptTrans

(* The rack: a rank that moves brings those below it along. *)
LEMMA RankStateKeeps ==
  ASSUME NEW v, Good(v), NEW r \in Ranks, NEW a \in Places
  PROVE  LET u == UpdateRankState(v, r, a)
         IN /\ Good(u) /\ Except(u, v, {"pcs", "scene"})
            /\ DOMAIN u.pcs = DOMAIN v.pcs \cup 0..r
<1> DEFINE pcs == [q \in DOMAIN v.pcs \cup 0..r |->
                     IF q = r THEN a ELSE IF q \in DOMAIN v.pcs THEN v.pcs[q] ELSE Home[q]]
           u == UpdateRankState(v, r, a)
<1>1. 0..r \subseteq Ranks
  BY GraphAssumption DEF Ranks
<1>2. DOMAIN pcs \subseteq Ranks /\ DOMAIN pcs = DOMAIN v.pcs \cup 0..r
  BY <1>1 DEF Good, Ready, Held
<1>3. \A q \in DOMAIN pcs : pcs[q] \in Places
  BY <1>1, GraphAssumption DEF Good, Ready, Held
<1>4. u = SetRankAddresses(v, pcs)
  BY DEF UpdateRankState
<1> HIDE DEF pcs, u
<1>5. Good(u) /\ u.pcs = pcs /\ Except(u, v, {"pcs", "scene"})
  BY <1>2, <1>3, <1>4, RankAddressesKeep DEF Good
<1> QED BY <1>2, <1>5 DEF u

(* selectRank of the rack, as the window answers it. *)
LEMMA SelectedKeeps ==
  ASSUME NEW v, Good(v), NEW r \in Ranks, r \in DOMAIN v.pcs
  PROVE  LET u == RankSelected(v, r)
         IN Good(u) /\ Except(u, v, Shown \cup {"focus"})
<1> DEFINE w == [v EXCEPT !.focus = r]
           shown == IF r \in DOMAIN w.texts THEN Update(w, w.texts[r]) ELSE w
           drawn == IF v.graph THEN Draw(shown) ELSE shown
           u == SeekToAddress(drawn, v.pcs[r])
<1>1. Except(w, v, {"focus"}) /\ w.focus = r
  BY DEF Except, Good, Ready, Held, Fields
<1>2. w.texts = v.texts
  BY <1>1 DEF Except, Fields
<1>3. RankSelected(v, r) = u
  BY <1>2 DEF RankSelected
<1> HIDE DEF w
<1>4. Held(w)
  BY <1>1 DEF Except, Good, Ready, Held, Fields
<1>5. Good(w)
  <2>1. Except(w, v, Beside)
    BY <1>1 DEF Except, Beside
  <2> QED BY <1>4, <2>1, BesideKeeps DEF Good, Ready
<1>6. Good(shown) /\ Except(shown, w, Shown)
  <2>1. CASE r \in DOMAIN w.texts
    <3>1. w.texts[r] \in SUBSET Sources
      BY <1>4, <2>1 DEF Held, Sources
    <3> QED BY <1>4, <2>1, <3>1, UpdateKeeps
  <2>2. CASE r \notin DOMAIN w.texts
    BY <1>5, <2>2 DEF Except
  <2> QED BY <2>1, <2>2
<1> HIDE DEF shown
<1>7. Ready(drawn) /\ Except(drawn, shown, Shown)
  <2>1. Good(Draw(shown)) /\ Except(Draw(shown), shown, {"scene"})
    BY <1>6, DrawKeeps DEF Good, Ready
  <2>2. Except(Draw(shown), shown, Shown) /\ Except(shown, shown, Shown)
    BY <2>1 DEF Except, Shown
  <2> QED BY <1>6, <2>1, <2>2 DEF Good
<1> HIDE DEF drawn
<1>8. v.pcs[r] \in Nat \ {0}
  BY GraphAssumption DEF Good, Ready, Held
<1>9. Good(u) /\ Except(u, drawn, Shown)
  BY <1>7, <1>8, SeekKeeps
<1>10. Except(u, w, Shown)
  BY <1>6, <1>7, <1>9, ExceptTrans
<1> HIDE DEF u
<1>11. Except(u, v, Shown \cup {"focus"})
  BY <1>1, <1>10 DEF Except
<1> QED BY <1>3, <1>9, <1>11

-----------------------------------------------------------------------------
(* The invariant: the members of the view agree, and whoever sent a        *)
(* listing has an address.                                                 *)
Consistent(v) == Good(v) /\ DOMAIN v.texts \subseteq DOMAIN v.pcs

LEMMA StillConsistent ==
  ASSUME NEW v, Consistent(v), NEW u, Good(u), Except(u, v, Fields \ {"startup", "texts", "pcs"})
  PROVE  Consistent(u) /\ u.startup = v.startup
BY DEF Consistent, Except, Fields

(* A view to which one of these members is given still agrees. *)
LEMMA BesideConsistent ==
  ASSUME NEW v, Good(v), NEW w, Held(w), Except(w, v, Beside)
  PROVE  Good(w)
BY BesideKeeps DEF Good, Ready

LEMMA ReportConsistent ==
  ASSUME Consistent(view), NEW r \in Ranks, NEW a \in Places,
         NEW texts \in {{}} \cup {{l} : l \in Reports}, OnRankStateChanged(r, a, texts)
  PROVE  Consistent(view') /\ view'.startup = view.startup
<1> DEFINE heard == [q \in DOMAIN view.texts \cup {r} |-> IF q = r THEN texts ELSE view.texts[q]]
           w == [view EXCEPT !.texts = heard]
           u == UpdateRankState(w, r, a)
<1>1. Except(w, view, {"texts"}) /\ w.texts = heard
  BY DEF Except, Consistent, Good, Ready, Held, Fields
<1>2. view' = IF r = u.focus /\ texts # {} THEN Update(u, texts) ELSE u
  <2>1. w = [view EXCEPT !.texts = [q \in DOMAIN @ \cup {r} |-> IF q = r THEN texts ELSE @[q]]]
    BY DEF Consistent, Good, Ready, Held, Fields
  <2> HIDE DEF w
  <2> QED BY <2>1 DEF OnRankStateChanged, Becomes
<1> HIDE DEF w
<1>3. /\ DOMAIN heard = DOMAIN view.texts \cup {r} /\ texts \subseteq Reports
      /\ \A q \in DOMAIN heard : heard[q] \subseteq Reports
  BY DEF Consistent, Good, Ready, Held
<1> HIDE DEF heard
<1>4. Held(w)
  BY <1>1, <1>3 DEF Except, Consistent, Good, Ready, Held, Fields
<1>5. Good(w)
  <2>1. Except(w, view, Beside)
    BY <1>1 DEF Except, Beside
  <2> QED BY <1>4, <2>1, BesideConsistent DEF Consistent
<1>6. Good(u) /\ Except(u, w, {"pcs", "scene"}) /\ DOMAIN u.pcs = DOMAIN w.pcs \cup 0..r
  BY <1>5, RankStateKeeps
<1> HIDE DEF u
<1>7. /\ DOMAIN u.texts \subseteq DOMAIN u.pcs
      /\ u.startup = view.startup
  <2>1. u.texts = heard /\ w.pcs = view.pcs /\ u.startup = view.startup
    BY <1>1, <1>6 DEF Except, Fields
  <2>2. r \in 0..r
    BY GraphAssumption DEF Ranks
  <2> QED BY <1>3, <1>6, <2>1, <2>2 DEF Consistent
<1>8. Good(Update(u, texts)) /\ Except(Update(u, texts), u, Shown)
  <2>1. texts \in SUBSET Sources
    BY <1>3 DEF Sources
  <2> QED BY <1>6, <2>1, UpdateKeeps DEF Good, Ready
<1>9. Update(u, texts).texts = u.texts /\ Update(u, texts).pcs = u.pcs
      /\ Update(u, texts).startup = u.startup
  BY <1>8 DEF Except, Fields, Shown
<1> QED BY <1>2, <1>6, <1>7, <1>8, <1>9 DEF Consistent

LEMMA SelectConsistent ==
  ASSUME Consistent(view), NEW r \in Ranks, SelectRank(r)
  PROVE  Consistent(view') /\ view'.startup = view.startup
<1> DEFINE w == [view EXCEPT !.selected = r]
<1>1. Except(w, view, {"selected"}) /\ w.selected = r
  BY DEF Except, Consistent, Good, Ready, Held, Fields
<1>2. r \in DOMAIN view.pcs /\ view' = RankSelected(w, r)
  BY DEF SelectRank, Becomes
<1> HIDE DEF w
<1>3. Held(w)
  BY <1>1 DEF Except, Consistent, Good, Ready, Held, Fields
<1>4. Good(w) /\ r \in DOMAIN w.pcs
  <2>1. Except(w, view, Beside)
    BY <1>1 DEF Except, Beside
  <2>2. w.pcs = view.pcs
    BY <1>1 DEF Except, Fields
  <2> QED BY <1>2, <1>3, <2>1, <2>2, BesideConsistent DEF Consistent
<1>5. Good(view') /\ Except(view', w, Shown \cup {"focus"})
  BY <1>2, <1>4, SelectedKeeps
<1>6. Except(view', view, Fields \ {"startup", "texts", "pcs"})
  BY <1>1, <1>5 DEF Except, Fields, Shown
<1> QED BY <1>5, <1>6, StillConsistent

LEMMA MoveConsistent ==
  ASSUME Consistent(view), NEW a \in Places, MoveRank(a)
  PROVE  Consistent(view') /\ view'.startup = view.startup
<1> DEFINE r == view.selected
           w == [view EXCEPT !.focus = r]
           u == UpdateRankState(w, r, a)
           known == [q \in DOMAIN u.texts \cup {r} |->
                       IF q \in DOMAIN u.texts THEN u.texts[q] ELSE {}]
           t == [u EXCEPT !.texts = known]
<1>1. r \in Ranks
  BY DEF Consistent, Good, Ready, Held
<1>2. view' = SeekKeepingLinear(t, a)
  BY DEF MoveRank, Becomes
<1> HIDE DEF r
<1>3. Except(w, view, {"focus"}) /\ w.focus = r
  BY DEF Except, Consistent, Good, Ready, Held, Fields
<1> HIDE DEF w
<1>4. Held(w)
  BY <1>1, <1>3 DEF Except, Consistent, Good, Ready, Held, Fields
<1>5. Good(w)
  <2>1. Except(w, view, Beside)
    BY <1>3 DEF Except, Beside
  <2> QED BY <1>4, <2>1, BesideConsistent DEF Consistent
<1>6. Good(u) /\ Except(u, w, {"pcs", "scene"}) /\ DOMAIN u.pcs = DOMAIN w.pcs \cup 0..r
  BY <1>1, <1>5, RankStateKeeps
<1> HIDE DEF u
<1>7. /\ DOMAIN known = DOMAIN u.texts \cup {r}
      /\ \A q \in DOMAIN known : known[q] \subseteq Reports
  BY <1>6 DEF Good, Ready, Held
<1> HIDE DEF known
<1>8. Except(t, u, {"texts"}) /\ t.texts = known
  BY <1>6 DEF Except, Good, Ready, Held, Fields
<1> HIDE DEF t
<1>9. Held(t)
  BY <1>6, <1>7, <1>8 DEF Except, Good, Ready, Held, Fields
<1>10. Good(t)
  <2>1. Except(t, u, Beside)
    BY <1>8 DEF Except, Beside
  <2> QED BY <1>6, <1>9, <2>1, BesideConsistent
<1>11. Good(view') /\ Except(view', t, Shown)
  BY <1>2, <1>10, GraphAssumption, SeekLinearKeeps DEF Good
<1>12. DOMAIN view'.texts \subseteq DOMAIN view'.pcs /\ view'.startup = view.startup
  <2>1. /\ view'.texts = known /\ view'.pcs = u.pcs /\ view'.startup = view.startup
        /\ u.texts = view.texts /\ w.pcs = view.pcs
    BY <1>3, <1>6, <1>8, <1>11 DEF Except, Fields, Shown
  <2>2. r \in 0..r
    BY <1>1, GraphAssumption DEF Ranks
  <2> QED BY <1>6, <1>7, <2>1, <2>2 DEF Consistent
<1> QED BY <1>11, <1>12 DEF Consistent

LEMMA StartConsistent ==
  ASSUME Consistent(view), NEW n \in 1..RankCount, NEW a \in Places, NEW deadlock \in BOOLEAN,
         StartTargetWorkflow(n, a, deadlock)
  PROVE  Consistent(view') /\ view'.startup = view.startup
<1> DEFINE ranks == 0..(n - 1)
           preserve == view.selected
           cleared == SetDeadlockCycleRanks(view, {})
           texts == [r \in ranks |-> {}]
           pcs == [r \in ranks |-> a]
           selected == IF preserve \in ranks THEN cleared.selected ELSE 0
           fresh == [cleared EXCEPT !.texts = texts, !.focus = preserve, !.selected = selected]
           placed == SetRankAddresses(fresh, pcs)
           chosen == IF preserve \in ranks THEN RankSelected(placed, preserve) ELSE placed
           shown == SeekKeepingLinear(chosen, a)
<1>1. ranks \subseteq Ranks /\ 0 \in Ranks /\ preserve \in Ranks
  BY GraphAssumption DEF Ranks, Consistent, Good, Ready, Held
<1>2. Good(cleared) /\ Except(cleared, view, {"cycle", "scene"})
  BY DeadlockKeeps DEF Consistent, Good
<1>3. view' = IF deadlock THEN SetDeadlockCycleRanks(shown, ranks) ELSE shown
  <2>1. fresh = [cleared EXCEPT !.texts = texts, !.focus = preserve,
                   !.selected = IF preserve \in ranks THEN @ ELSE 0]
    BY <1>2 DEF Good, Ready, Held, Fields
  <2> HIDE DEF fresh
  <2> QED BY <2>1 DEF StartTargetWorkflow, Becomes
<1> HIDE DEF cleared, ranks, preserve
<1>4. /\ DOMAIN texts = ranks /\ \A r \in ranks : texts[r] \subseteq Reports
      /\ DOMAIN pcs = ranks /\ \A r \in ranks : pcs[r] \in Places
  OBVIOUS
<1> HIDE DEF texts, pcs
<1>5. selected \in Ranks
  BY <1>1, <1>2 DEF Good, Ready, Held
<1> HIDE DEF selected
<1>6. /\ Except(fresh, cleared, {"texts", "focus", "selected"})
      /\ fresh.texts = texts /\ fresh.focus = preserve /\ fresh.selected = selected
  BY <1>2 DEF Except, Good, Ready, Held, Fields
<1> HIDE DEF fresh
<1>7. Good(fresh)
  <2>1. Held(fresh)
    BY <1>1, <1>2, <1>4, <1>5, <1>6 DEF Except, Good, Ready, Held, Fields
  <2>2. Except(fresh, cleared, Beside)
    BY <1>6 DEF Except, Beside
  <2> QED BY <1>2, <2>1, <2>2, BesideConsistent
<1>8. Good(placed) /\ placed.pcs = pcs /\ Except(placed, fresh, {"pcs", "scene"})
  BY <1>1, <1>4, <1>7, RankAddressesKeep DEF Good
<1> HIDE DEF placed
<1>9. Good(chosen) /\ Except(chosen, placed, Shown \cup {"focus"})
  <2>1. CASE preserve \in ranks
    BY <1>1, <1>4, <1>8, <2>1, SelectedKeeps
  <2>2. CASE preserve \notin ranks
    BY <1>8, <2>2 DEF Except
  <2> QED BY <2>1, <2>2
<1> HIDE DEF chosen
<1>10. Good(shown) /\ Except(shown, chosen, Shown)
  BY <1>9, GraphAssumption, SeekLinearKeeps DEF Good
<1> HIDE DEF shown
<1>11. /\ Good(SetDeadlockCycleRanks(shown, ranks))
       /\ Except(SetDeadlockCycleRanks(shown, ranks), shown, {"cycle", "scene"})
  BY <1>1, <1>10, DeadlockKeeps DEF Good
<1>12. Good(view') /\ Except(view', shown, {"cycle", "scene"})
  BY <1>3, <1>10, <1>11 DEF Except
<1>13. view'.texts = texts /\ view'.pcs = pcs /\ view'.startup = view.startup
  BY <1>2, <1>6, <1>8, <1>9, <1>10, <1>12 DEF Except, Fields, Shown
<1> QED BY <1>4, <1>12, <1>13 DEF Consistent

LEMMA LoadConsistent ==
  ASSUME Consistent(view), NEW f \in Binary, NEW debug \in BOOLEAN, LoadBinary(f, debug)
  PROVE  Consistent(view') /\ view'.startup = view.startup
<1> DEFINE w == [view EXCEPT !.loaded = TRUE]
<1>1. Except(w, view, {"loaded"}) /\ w.loaded = TRUE
  BY DEF Except, Consistent, Good, Ready, Held, Fields
<1>2. view' \in {SeekKeepingLinear(w, f[1].at), SeekToAddress(w, f[1].at)}
  BY DEF LoadBinary, Becomes
<1> HIDE DEF w
<1>3. Held(w)
  BY <1>1 DEF Except, Consistent, Good, Ready, Held, Fields
<1>4. Good(w)
  <2>1. Except(w, view, Beside)
    BY <1>1 DEF Except, Beside
  <2> QED BY <1>3, <2>1, BesideConsistent DEF Consistent
<1>5. f[1].at \in Nat \ {0}
  <2>1. f \in Code /\ f # <<>>
    BY GraphAssumption DEF Code
  <2> QED BY <2>1, CodeType
<1>6. Good(view') /\ Except(view', w, Shown)
  BY <1>2, <1>4, <1>5, SeekKeeps, SeekLinearKeeps DEF Good
<1>7. Except(view', w, Fields \ {"startup", "texts", "pcs"})
  BY <1>6, ExceptWider, ShownOthers
<1>8. Except(view', view, Fields \ {"startup", "texts", "pcs"})
  BY <1>1, <1>7 DEF Except, Fields
<1> QED BY <1>6, <1>8, StillConsistent

LEMMA SeekConsistent ==
  ASSUME Consistent(view), NEW a \in Places, SeekTo(a) \/ SelectSourceLine(a)
  PROVE  Consistent(view') /\ view'.startup = view.startup
<1>1. Good(view') /\ Except(view', view, Shown)
  BY GraphAssumption, SeekKeeps, SeekLinearKeeps
     DEF SeekTo, SelectSourceLine, Becomes, Consistent, Good
<1>2. Except(view', view, Fields \ {"startup", "texts", "pcs"})
  BY <1>1, ExceptWider, ShownOthers
<1> QED BY <1>1, <1>2, StillConsistent

LEMMA ClickConsistent ==
  ASSUME Consistent(view), NEW a \in Addrs(view.listing), ClickGraph(a)
  PROVE  Consistent(view') /\ view'.startup = view.startup
<1>1. a \in Nat \ {0}
  <2>1. view.listing \in Code
    BY ParsedCode DEF Consistent, Good, Ready
  <2> QED BY <2>1, CodeType DEF Addrs
<1>2. Good(Sought(view, a)) /\ Except(Sought(view, a), view, Shown)
  BY <1>1, SoughtKeeps DEF Consistent, Good
<1>3. Good(view') /\ Except(view', Sought(view, a), Shown)
  BY <1>1, <1>2, SeekKeeps DEF ClickGraph, Becomes, Good
<1>4. Except(view', view, Fields \ {"startup", "texts", "pcs"})
  BY <1>2, <1>3 DEF Except, Fields, Shown
<1> QED BY <1>3, <1>4, StillConsistent

LEMMA LineConsistent ==
  ASSUME Consistent(view), NEW n \in DOMAIN view.text.address, SelectDecompilerLine(n)
  PROVE  Consistent(view') /\ view'.startup = view.startup
<1> DEFINE a == view.text.address[n]
           w == [view EXCEPT !.line = n]
           u == Sought(w, a)
<1>1. n \in Nat \ {0} /\ a \in Nat \ {0}
  BY DEF Consistent, Good, Ready, Held, TextOK
<1>2. view' = SeekToAddress(u, a)
  BY DEF SelectDecompilerLine, Becomes
<1> HIDE DEF a
<1>3. Except(w, view, {"line"}) /\ w.line = n
  BY DEF Except, Consistent, Good, Ready, Held, Fields
<1> HIDE DEF w
<1>4. Ready(w)
  <2>1. Held(w)
    BY <1>1, <1>3 DEF Except, Consistent, Good, Ready, Held, Fields
  <2>2. Parsed(w) /\ TextRight(w)
    BY <1>3 DEF Except, Consistent, Good, Ready, Fields, Parsed, TextRight
  <2> QED BY <2>1, <2>2 DEF Ready
<1>5. Good(u) /\ Except(u, w, Shown)
  BY <1>1, <1>4, SoughtKeeps
<1> HIDE DEF u
<1>6. Good(view') /\ Except(view', u, Shown)
  BY <1>1, <1>2, <1>5, SeekKeeps DEF Good
<1>7. Except(view', view, Fields \ {"startup", "texts", "pcs"})
  BY <1>3, <1>5, <1>6 DEF Except, Fields, Shown
<1> QED BY <1>6, <1>7, StillConsistent

LEMMA PatchConsistent ==
  ASSUME Consistent(view), NEW p \in Replacements, PatchInstruction(p)
  PROVE  Consistent(view') /\ view'.startup = view.startup
<1> DEFINE patches == [a \in DOMAIN view.patches \cup {view.cursor} |->
                         IF a = view.cursor THEN p ELSE view.patches[a]]
           w == [view EXCEPT !.patches = patches]
           u == Update(w, {view.base})
<1>1. view' = Refresh(u)
  <2>1. w = [view EXCEPT !.patches = [a \in DOMAIN @ \cup {view.cursor} |->
                                        IF a = view.cursor THEN p ELSE @[a]]]
    BY DEF Consistent, Good, Ready, Held, Fields
  <2> HIDE DEF w
  <2> QED BY <2>1 DEF PatchInstruction, Becomes
<1>2. Except(w, view, {"patches"}) /\ w.patches = patches
  BY DEF Except, Consistent, Good, Ready, Held, Fields
<1> HIDE DEF w
<1>3. DOMAIN patches \subseteq Nat /\ \A a \in DOMAIN patches : patches[a] \in Replacements
  BY DEF Consistent, Good, Ready, Held
<1> HIDE DEF patches
<1>4. Held(w)
  BY <1>2, <1>3 DEF Except, Consistent, Good, Ready, Held, Fields
<1>5. {view.base} \in SUBSET Sources
  BY DEF Consistent, Good, Ready, Held
<1>6. Good(u) /\ Except(u, w, Shown)
  BY <1>4, <1>5, UpdateKeeps
<1> HIDE DEF u
<1>7. Good(view') /\ Except(view', u, {"text", "line"})
  BY <1>1, <1>6, RefreshGood DEF Good, Ready
<1>8. Except(view', view, Fields \ {"startup", "texts", "pcs"})
  BY <1>2, <1>6, <1>7 DEF Except, Fields, Shown
<1> QED BY <1>7, <1>8, StillConsistent

LEMMA LanguageConsistent ==
  ASSUME Consistent(view), NEW language \in DOMAIN Headers, SetDecompilerTargetLanguage(language)
  PROVE  Consistent(view') /\ view'.startup = view.startup
<1> DEFINE w == [view EXCEPT !.language = language]
<1>1. Except(w, view, {"language"}) /\ w.language = language
  BY DEF Except, Consistent, Good, Ready, Held, Fields
<1>2. view' = Refresh(w)
  BY DEF SetDecompilerTargetLanguage, Becomes
<1> HIDE DEF w
<1>3. Held(w)
  BY <1>1 DEF Except, Consistent, Good, Ready, Held, Fields
<1>4. Parsed(w)
  BY <1>1 DEF Except, Consistent, Good, Ready, Fields, Parsed
<1>5. Current(w)
  <2>1. Draw(w).scene = Draw(view).scene
    BY <1>1, <1>3, SameScene DEF Except, Consistent, Good, Ready, Held, Fields
  <2> QED BY <1>1, <2>1 DEF Except, Fields, Consistent, Good, Current, Seen
<1>6. Good(view') /\ Except(view', w, {"text", "line"})
  BY <1>2, <1>3, <1>4, <1>5, RefreshGood
<1>7. Except(view', view, Fields \ {"startup", "texts", "pcs"})
  BY <1>1, <1>6 DEF Except, Fields
<1> QED BY <1>6, <1>7, StillConsistent

LEMMA PerspectiveConsistent ==
  ASSUME Consistent(view), NEW p, SetWorkspacePerspective(p)
  PROVE  Consistent(view') /\ view'.startup = view.startup
<1> DEFINE code == (p = "Code")
           w == [view EXCEPT !.code = code]
<1>1. Except(w, view, {"code"}) /\ w.code = code /\ code \in BOOLEAN
  BY DEF Except, Consistent, Good, Ready, Held, Fields
<1>2. view' \in {w, SetSplit(w, TRUE)}
  BY DEF SetWorkspacePerspective, Becomes
<1> HIDE DEF code, w
<1>3. Held(w)
  BY <1>1 DEF Except, Consistent, Good, Ready, Held, Fields
<1>4. Good(w)
  <2>1. Except(w, view, Beside)
    BY <1>1 DEF Except, Beside
  <2> QED BY <1>3, <2>1, BesideConsistent DEF Consistent
<1>5. Good(SetSplit(w, TRUE)) /\ Except(SetSplit(w, TRUE), w, Shown)
  BY <1>4, SplitKeeps DEF Good
<1>6. Good(view') /\ Except(view', w, Shown)
  BY <1>2, <1>4, <1>5 DEF Except
<1>7. Except(view', view, Fields \ {"startup", "texts", "pcs"})
  BY <1>1, <1>6 DEF Except, Fields, Shown
<1> QED BY <1>6, <1>7, StillConsistent

LEMMA LayoutConsistent ==
  ASSUME Consistent(view), NEW on \in BOOLEAN,
         view' \in {SetSplit(view, on), SetDecompiler(view, on), SetGraph(view, on)}
  PROVE  Consistent(view') /\ view'.startup = view.startup
<1>1. Good(view') /\ Except(view', view, Shown)
  BY SplitKeeps, DecompilerKeeps, GraphKeeps DEF Consistent, Good
<1>2. Except(view', view, Fields \ {"startup", "texts", "pcs"})
  BY <1>1 DEF Except, Fields, Shown
<1> QED BY <1>1, <1>2, StillConsistent

LEMMA StopConsistent ==
  ASSUME Consistent(view), StopTargetWorkflow
  PROVE  Consistent(view') /\ view'.startup = view.startup
<1>1. Good(view') /\ Except(view', view, {"cycle", "scene"})
  BY DeadlockKeeps DEF StopTargetWorkflow, Becomes, Consistent, Good
<1>2. Except(view', view, Fields \ {"startup", "texts", "pcs"})
  BY <1>1 DEF Except, Fields
<1> QED BY <1>1, <1>2, StillConsistent

-----------------------------------------------------------------------------
(* The invariant of the specification.                                     *)
Inv == Consistent(view) /\ spent \in 0..MaxActs[view.startup]

LEMMA BlankHeld ==
  ASSUME NEW l \in Listings
  PROVE  Held(Blank(l)) /\ Blank(l).startup = l
<1>1. /\ Entry \in Nat \ {0} /\ "C" \in DOMAIN Headers /\ 0 \in Ranks
  BY GraphAssumption DEF Ranks
<1>2. <<>> \in Seq(Nat \ {0})
  OBVIOUS
<1>3. TextOK([address |-> <<>>, line |-> [a \in {} |-> 0]])
  BY <1>2 DEF TextOK
<1> DEFINE b == Blank(l)
<1>4. DOMAIN b = Fields
  BY DEF Blank, Fields
<1>5. /\ b.startup = l /\ b.base = l /\ b.cursor = Entry /\ b.line = 1 /\ b.language = "C"
      /\ b.patches = [a \in {} |-> <<>>] /\ b.pcs = [r \in {} |-> 0]
      /\ b.text = [address |-> <<>>, line |-> [a \in {} |-> 0]]
      /\ b.texts = [r \in Ranks |-> {}]
  BY DEF Blank
<1>6. /\ b.cycle = {} /\ b.focus = 0 /\ b.selected = 0
      /\ ~ b.graph /\ ~ b.split /\ ~ b.decompiler /\ ~ b.loaded /\ ~ b.fallback /\ b.code
      /\ {b.graph, b.split, b.decompiler, b.loaded, b.fallback, b.code} \subseteq BOOLEAN
  BY DEF Blank
<1> HIDE DEF b
<1>7. TextOK(b.text) /\ b.base \in Sources
  BY <1>3, <1>5 DEF Sources
<1>8. /\ DOMAIN b.patches \subseteq Nat /\ \A a \in DOMAIN b.patches : b.patches[a] \in Replacements
      /\ DOMAIN b.pcs \subseteq Ranks /\ \A r \in DOMAIN b.pcs : b.pcs[r] \in Places
      /\ \A r \in DOMAIN b.texts : b.texts[r] \subseteq Reports
  BY <1>5
<1>9. Held(b)
  BY <1>1, <1>4, <1>5, <1>6, <1>7, <1>8 DEF Held
<1> QED BY <1>5, <1>9 DEF b

LEMMA InitConsistent ==
  ASSUME Init
  PROVE  Inv
<1>1. PICK l \in Listings : view = SetRankAddresses(Update(Blank(l), {}), Home)
  BY DEF Init
<1> DEFINE u == Update(Blank(l), {})
<1>2. Good(u) /\ Except(u, Blank(l), Shown)
  BY BlankHeld, UpdateKeeps
<1> HIDE DEF u
<1>3. DOMAIN Home = Ranks /\ \A r \in Ranks : Home[r] \in Places
  BY GraphAssumption
<1>4. Good(view) /\ view.pcs = Home /\ Except(view, u, {"pcs", "scene"})
  BY <1>1, <1>2, <1>3, RankAddressesKeep DEF Good, u
<1>5. view.startup = l /\ DOMAIN view.texts = Ranks
  <2>1. view.startup = Blank(l).startup /\ view.texts = Blank(l).texts
    BY <1>2, <1>4 DEF Except, Fields, Shown
  <2>2. Blank(l).texts = [r \in Ranks |-> {}]
    BY DEF Blank
  <2> QED BY <2>1, <2>2, BlankHeld
<1>6. spent \in 0..MaxActs[view.startup]
  BY <1>5, GraphAssumption DEF Init
<1> QED BY <1>3, <1>4, <1>5, <1>6 DEF Inv, Consistent

LEMMA StepConsistent ==
  ASSUME Inv, [Next]_vars
  PROVE  Inv'
<1>1. CASE UNCHANGED vars
  BY <1>1 DEF vars, Inv, Consistent, Good, Ready, Held, TextOK, Parsed, TextRight, LineAt, Current,
              Seen
<1>2. CASE Next
  <2>1. Consistent(view) /\ spent' = spent + 1 /\ spent < MaxActs[view.startup]
    BY <1>2 DEF Next, Inv
  <2>2. Consistent(view') /\ view'.startup = view.startup
    <3>1. CASE \E a \in Places, r \in Ranks, texts \in {{}} \cup {{l} : l \in Reports} :
                 OnRankStateChanged(r, a, texts)
      BY <2>1, <3>1, ReportConsistent
    <3>2. CASE \E a \in Places : MoveRank(a)
      BY <2>1, <3>2, MoveConsistent
    <3>3. CASE \E a \in Places, n \in 1..RankCount, deadlock \in BOOLEAN :
                 StartTargetWorkflow(n, a, deadlock)
      BY <2>1, <3>3, StartConsistent
    <3>4. CASE \E a \in Places : SeekTo(a) \/ SelectSourceLine(a)
      BY <2>1, <3>4, SeekConsistent
    <3>5. CASE \E r \in Ranks : SelectRank(r)
      BY <2>1, <3>5, SelectConsistent
    <3>6. CASE StopTargetWorkflow
      BY <2>1, <3>6, StopConsistent
    <3>7. CASE \E f \in Binary : LoadBinary(f, TRUE) \/ LoadBinary(f, FALSE)
      BY <2>1, <3>7, LoadConsistent
    <3>8. CASE \E a \in Addrs(view.listing) : ClickGraph(a)
      BY <2>1, <3>8, ClickConsistent
    <3>9. CASE \E n \in DOMAIN view.text.address : SelectDecompilerLine(n)
      BY <2>1, <3>9, LineConsistent
    <3>10. CASE \E p \in Replacements : PatchInstruction(p)
      BY <2>1, <3>10, PatchConsistent
    <3>11. CASE \E language \in DOMAIN Headers : SetDecompilerTargetLanguage(language)
      BY <2>1, <3>11, LanguageConsistent
    <3>12. CASE \E p \in {"Code", "Reverse", "MPI"} : SetWorkspacePerspective(p)
      BY <2>1, <3>12, PerspectiveConsistent
    <3>13. CASE \/ \E on \in BOOLEAN : view' = SetSplit(view, on) \/ view' = SetDecompiler(view, on)
                \/ view' = SetGraph(view, ~ view.graph)
      <4>1. (~ view.graph) \in BOOLEAN
        OBVIOUS
      <4> QED BY <2>1, <3>13, <4>1, LayoutConsistent
    <3> QED BY <1>2, <3>1, <3>2, <3>3, <3>4, <3>5, <3>6, <3>7, <3>8, <3>9, <3>10, <3>11, <3>12,
               <3>13 DEF Next, Becomes
  <2>3. spent' \in 0..MaxActs[view'.startup]
    <3>1. MaxActs[view.startup] \in Nat
      BY <2>1, GraphAssumption DEF Consistent, Good, Ready, Held
    <3>2. spent \in 0..MaxActs[view.startup]
      BY DEF Inv
    <3> QED BY <2>1, <2>2, <3>1, <3>2
  <2> QED BY <2>2, <2>3 DEF Inv, Consistent, Good, Ready, Held, TextOK, Parsed, TextRight, LineAt,
                            Current, Seen
<1> QED BY <1>1, <1>2

THEOREM AlwaysConsistent == Spec => []Inv
<1>1. Init => Inv
  BY InitConsistent
<1>2. Inv /\ [Next]_vars => Inv'
  BY StepConsistent
<1> QED BY <1>1, <1>2, PTL DEF Spec

-----------------------------------------------------------------------------
(* Members hold what they are declared for, and the listing shown is as    *)
(* long as the one it was patched from.                                    *)
THEOREM TypeCorrect == Spec => []TypeOK
<1>1. ASSUME Inv PROVE TypeOK
  <2>1. DOMAIN view.listing = DOMAIN view.base
    BY <1>1, ParsedCode DEF Inv, Consistent, Good, Ready
  <2>2. Range(view.patches) \subseteq Replacements /\ Range(view.pcs) \subseteq Places
    BY <1>1 DEF Inv, Consistent, Good, Ready, Held, Range
  <2>3. /\ Range(view.text.address) \subseteq Nat \ {0}
        /\ Range(view.text.line) \subseteq DOMAIN view.text.address
    BY <1>1 DEF Inv, Consistent, Good, Ready, Held, TextOK, Range
  <2> QED BY <1>1, <2>1, <2>2, <2>3 DEF Inv, Consistent, Good, Ready, Held, TypeOK, Sources
<1> QED BY <1>1, AlwaysConsistent, PTL

(* The blocks shown are the control flow of the listing as it is patched,  *)
(* after any reports, seeks, loads and patches (parseDisassembly,          *)
(* updateDisassembly).                                                     *)
THEOREM GraphFaithfulHolds == Spec => []GraphFaithful
<1>1. ASSUME Inv PROVE GraphFaithful
  <2>1. view.listing \in Code /\ Parsed(view)
    BY <1>1, ParsedCode DEF Inv, Consistent, Good, Ready
  <2>2. view.blocks = Blocks(view.listing)
    <3>1. Blocks(<<>>) = {}
      BY BlocksAre
    <3> QED BY <2>1, <3>1 DEF Parsed
  <2> QED BY <2>1, <2>2, BlocksFaithful DEF Parsed, GraphFaithful
<1> QED BY <1>1, AlwaysConsistent, PTL

(* A graph that is visible is up to date, also with what happened while it *)
(* was hidden, and the line highlighted is of the cursor's block           *)
(* (setRankAddresses, setDeadlockCycleRanks, updateViewModeLayout,         *)
(* addressToDecompilerLine).                                               *)
THEOREM ViewsCurrentHolds == Spec => []ViewsCurrent
<1>1. ASSUME Inv PROVE GraphCurrent
  BY <1>1 DEF Inv, Consistent, Good, Current, Seen, GraphCurrent, Visible
<1>2. ASSUME Inv PROVE LineCurrent
  <2> DEFINE l == view.listing
  <2>1. l \in Code /\ Parsed(view) /\ TextRight(view) /\ LineAt(view) /\ Held(view)
    BY <1>2, ParsedCode DEF Inv, Consistent, Good, Ready
  <2>2. ASSUME NEW i \in DOMAIN l, l[i].at = view.cursor
        PROVE  \/ \E b \in view.blocks :
                     {view.cursor, view.text.address[view.line]} \subseteq b.start..b.end
               \/ l[i].kind = "endbr" /\ view.line = Headers[view.language]
    <3>1. l # <<>> /\ view.cursor \in Addrs(l)
      BY <2>2 DEF Addrs
    <3>2. /\ view.text = Decompiled(l, view.language) /\ view.line = view.text.line[l[i].at]
          /\ view.blocks = Blocks(l) /\ view.language \in DOMAIN Headers
      BY <2>1, <2>2, <3>1 DEF Parsed, TextRight, LineAt, Held
    <3>3. LineRight(l, view.language, view.text, i)
      BY <2>1, <3>2, LinesRight
    <3>4. /\ BlockOf(l, i) \in view.blocks
          /\ view.cursor \in BlockOf(l, i).start..BlockOf(l, i).end
      BY <2>1, <2>2, <3>2, OneAround DEF Around
    <3> HIDE DEF l
    <3> QED BY <3>2, <3>3, <3>4 DEF LineRight
  <2> QED BY <2>2 DEF LineCurrent
<1> QED BY <1>1, <1>2, AlwaysConsistent, PTL DEF ViewsCurrent

=============================================================================
