------------------------ MODULE PmmAllocator_proofs ------------------------
(***************************************************************************)
(* The memory manager, proved for any region, header and sizes: pmm_malloc *)
(* and pmm_free keep the region tiled by blocks while the backward links   *)
(* do no harm, and merge what they free while these links are exact.       *)
(*                                                                         *)
(* The chain of blocks is defined by a recursive function.  The lemmas on  *)
(* it are proved by induction from the end of the region, as a minimal     *)
(* counterexample (WFMin), since the theorems on induction take operators. *)
(***************************************************************************)
EXTENDS PmmAllocator, TLAPS, WellFoundedInduction

LEMMA LeastNat ==
  ASSUME NEW T, T \subseteq Nat, T # {}
  PROVE  \E x \in T : \A y \in T : x <= y
<1>1. \E x \in T : \A y \in T : ~(<<y, x>> \in OpToRel(<, Nat))
  BY WFMin, NatLessThanWellFounded, Zenon
<1>2. ASSUME NEW x \in Nat, NEW y \in Nat, ~(<<y, x>> \in OpToRel(<, Nat))
      PROVE  x <= y
  <2>1. ~(y < x)
    BY <1>2, Zenon DEF OpToRel
  <2>2. QED
    BY <2>1, SMT
<1>3. QED
  BY <1>1, <1>2, Zenon

\* Induction from the end of the region to its beginning.
LEMMA DownInduction ==
  ASSUME NEW Q,
         \A o \in Nat : o >= ByteNumber => o \in Q,
         \A o \in Nat : (\A x \in Nat : x > o => x \in Q) => o \in Q
  PROVE  Nat \subseteq Q
<1> DEFINE T == {k \in Nat : \A x \in Nat : x >= k => x \in Q}
<1>1. ByteNumber \in Nat
  BY RegionIsLongEnough
<1>2. T # {} /\ T \subseteq Nat
  BY <1>1
<1> HIDE DEF T
<1>3. PICK k \in T : \A y \in T : k <= y
  BY <1>2, LeastNat
<1>4. k = 0
  <2>1. SUFFICES ASSUME k # 0 PROVE FALSE
    OBVIOUS
  <2>2. k \in Nat /\ k - 1 \in Nat /\ \A x \in Nat : x > k - 1 => x \in Q
    BY <1>2, <1>3, <2>1 DEF T
  <2>3. k - 1 \in Q
    BY <2>2
  <2>4. k - 1 \in T
    BY <2>2, <2>3 DEF T
  <2>5. QED
    BY <1>3, <2>2, <2>4
<1>5. QED
  BY <1>2, <1>3, <1>4 DEF T

-----------------------------------------------------------------------------
(* The chain of blocks of any headers.                                     *)

\* The headers h lie in the region, and their blocks are not empty.
Inside(h) ==
  \A o \in DOMAIN h : o \in 0..Last /\ h[o].size \in Nat \ {0}

AfterIn(h, o) == o + Meta + h[o].size

WalkOf(h) ==
  CHOOSE walk :
    walk = [o \in Nat |-> IF o \notin DOMAIN h THEN {o}
                          ELSE {o} \cup walk[AfterIn(h, o)]]

ChainOf(h) == WalkOf(h)[0]

LEMMA ChainIs == Chain = ChainOf(header) /\ Chain' = ChainOf(header')
BY DEF Chain, ChainOf, WalkOf, AfterIn, After

WalkAt(h, w, o) ==
  w[o] = IF o \notin DOMAIN h THEN {o} ELSE {o} \cup w[AfterIn(h, o)]

LEMMA AfterIsLater ==
  ASSUME NEW h, Inside(h), NEW o \in DOMAIN h
  PROVE  o \in Nat /\ o < ByteNumber /\ AfterIn(h, o) \in Nat /\ AfterIn(h, o) > o
BY RegionIsLongEnough DEF Inside, AfterIn, Last

LEMMA WalkExists ==
  ASSUME NEW h, Inside(h)
  PROVE  /\ WalkOf(h) \in [Nat -> SUBSET Nat]
         /\ \A o \in Nat : WalkAt(h, WalkOf(h), o)
<1> DEFINE Q == {o \in Nat : \E w \in [Nat -> SUBSET Nat] :
                               \A x \in Nat : x >= o => WalkAt(h, w, x)}
<1>1. ASSUME NEW o \in Nat, o >= ByteNumber
      PROVE  o \in Q
  <2> DEFINE w == [x \in Nat |-> {x}]
  <2>1. w \in [Nat -> SUBSET Nat]
    OBVIOUS
  <2>2. \A x \in Nat : x >= o => x \notin DOMAIN h
    BY <1>1, RegionIsLongEnough DEF Inside, Last
  <2>3. \A x \in Nat : x >= o => WalkAt(h, w, x)
    BY <2>2 DEF WalkAt
  <2>4. QED
    BY <2>1, <2>3
<1>2. ASSUME NEW o \in Nat, \A x \in Nat : x > o => x \in Q
      PROVE  o \in Q
  <2>1. PICK w \in [Nat -> SUBSET Nat] :
          \A x \in Nat : x >= o + 1 => WalkAt(h, w, x)
    BY <1>2
  <2> DEFINE v == [w EXCEPT ![o] = IF o \notin DOMAIN h THEN {o}
                                   ELSE {o} \cup w[AfterIn(h, o)]]
  <2>2. v \in [Nat -> SUBSET Nat]
    BY AfterIsLater
  <2>3. \A x \in Nat : x # o => v[x] = w[x]
    OBVIOUS
  <2>4. v[o] = IF o \notin DOMAIN h THEN {o} ELSE {o} \cup w[AfterIn(h, o)]
    OBVIOUS
  <2> HIDE DEF v
  <2>5. WalkAt(h, v, o)
    BY <2>3, <2>4, AfterIsLater DEF WalkAt
  <2>6. ASSUME NEW x \in Nat, x >= o + 1
        PROVE  WalkAt(h, v, x)
    <3>1. WalkAt(h, w, x) /\ v[x] = w[x]
      BY <2>1, <2>3, <2>6
    <3>2. x \in DOMAIN h => v[AfterIn(h, x)] = w[AfterIn(h, x)]
      BY <2>3, <2>6, AfterIsLater
    <3>3. QED
      BY <3>1, <3>2 DEF WalkAt
  <2>7. \A x \in Nat : x >= o => WalkAt(h, v, x)
    BY <2>5, <2>6
  <2>8. QED
    BY <2>2, <2>7
<1> HIDE DEF Q
<1>3. 0 \in Q
  BY <1>1, <1>2, DownInduction
<1>4. PICK w \in [Nat -> SUBSET Nat] : \A x \in Nat : WalkAt(h, w, x)
  BY <1>3 DEF Q
<1> DEFINE Body(u) == [o \in Nat |-> IF o \notin DOMAIN h THEN {o}
                                     ELSE {o} \cup u[AfterIn(h, o)]]
<1>5. w = Body(w)
  BY <1>4 DEF WalkAt
<1>6. WalkOf(h) = Body(WalkOf(h))
  BY <1>5 DEF WalkOf
<1> DEFINE v == WalkOf(h)
<1> HIDE DEF v
<1>7. \A o \in Nat : WalkAt(h, v, o)
  BY <1>6 DEF WalkAt, v
<1> DEFINE R == {o \in Nat : v[o] \in SUBSET Nat}
<1>8. ASSUME NEW o \in Nat, o >= ByteNumber
      PROVE  o \in R
  <2>1. o \notin DOMAIN h
    BY <1>8, AfterIsLater, RegionIsLongEnough
  <2>2. QED
    BY <1>7, <2>1 DEF WalkAt
<1>9. ASSUME NEW o \in Nat, \A x \in Nat : x > o => x \in R
      PROVE  o \in R
  BY <1>7, <1>9, AfterIsLater DEF WalkAt
<1> HIDE DEF R
<1>10. Nat \subseteq R
  BY <1>8, <1>9, DownInduction
<1>11. \A o \in Nat : v[o] \in SUBSET Nat
  BY <1>10 DEF R
<1>12. v = [o \in Nat |-> v[o]]
  BY <1>6 DEF v
<1>13. QED
  BY <1>7, <1>11, <1>12 DEF v

LEMMA ChainStart ==
  ASSUME NEW h, Inside(h)
  PROVE  0 \in ChainOf(h) /\ ChainOf(h) \subseteq Nat
<1>1. /\ WalkOf(h) \in [Nat -> SUBSET Nat]
      /\ WalkAt(h, WalkOf(h), 0)
  BY WalkExists
<1>2. QED
  BY <1>1 DEF ChainOf, WalkAt

\* The chain goes on after each of its blocks.
LEMMA ChainNext ==
  ASSUME NEW h, Inside(h), NEW o \in ChainOf(h) \cap DOMAIN h
  PROVE  AfterIn(h, o) \in ChainOf(h)
<1> DEFINE w == WalkOf(h)
           Q == {y \in Nat : \A x \in w[y] \cap DOMAIN h : AfterIn(h, x) \in w[y]}
<1>1. \A y \in Nat : WalkAt(h, w, y)
  BY WalkExists
<1> HIDE DEF w
<1>2. ASSUME NEW y \in Nat, y >= ByteNumber
      PROVE  y \in Q
  <2>1. y \notin DOMAIN h
    BY <1>2, AfterIsLater, RegionIsLongEnough
  <2>2. QED
    BY <1>1, <2>1 DEF WalkAt
<1>3. ASSUME NEW y \in Nat, \A z \in Nat : z > y => z \in Q
      PROVE  y \in Q
  <2>1. CASE y \notin DOMAIN h
    BY <1>1, <2>1 DEF WalkAt
  <2>2. CASE y \in DOMAIN h
    <3> DEFINE z == AfterIn(h, y)
    <3>1. z \in Nat /\ z > y
      BY <2>2, AfterIsLater
    <3> HIDE DEF z
    <3>2. w[y] = {y} \cup w[z]
      BY <1>1, <2>2 DEF WalkAt, z
    <3>3. z \in w[z]
      BY <1>1, <3>1 DEF WalkAt
    <3>4. \A x \in w[z] \cap DOMAIN h : AfterIn(h, x) \in w[z]
      BY <1>3, <3>1
    <3>5. QED
      BY <3>2, <3>3, <3>4 DEF z
  <2>3. QED
    BY <2>1, <2>2
<1> HIDE DEF Q
<1>4. 0 \in Q
  BY <1>2, <1>3, DownInduction
<1>5. QED
  BY <1>4 DEF Q, ChainOf, w

\* The chain is the least set that has 0 and goes on after each block.
LEMMA ChainLeast ==
  ASSUME NEW h, Inside(h), NEW S, 0 \in S,
         \A o \in S \cap ChainOf(h) \cap DOMAIN h : AfterIn(h, o) \in S
  PROVE  ChainOf(h) \subseteq S
<1> DEFINE w == WalkOf(h)
           A == S \cap ChainOf(h)
           Q == {y \in Nat : y \in A => w[y] \subseteq A}
<1>1. \A y \in Nat : WalkAt(h, w, y)
  BY WalkExists
<1>2. 0 \in A /\ \A o \in A \cap DOMAIN h : AfterIn(h, o) \in A
  BY ChainStart, ChainNext
<1> HIDE DEF w, A
<1>3. ASSUME NEW y \in Nat, y >= ByteNumber
      PROVE  y \in Q
  <2>1. y \notin DOMAIN h
    BY <1>3, AfterIsLater, RegionIsLongEnough
  <2>2. QED
    BY <1>1, <2>1 DEF WalkAt
<1>4. ASSUME NEW y \in Nat, \A z \in Nat : z > y => z \in Q
      PROVE  y \in Q
  <2>1. CASE y \notin DOMAIN h
    BY <1>1, <2>1 DEF WalkAt
  <2>2. CASE y \in DOMAIN h
    <3> DEFINE z == AfterIn(h, y)
    <3>1. z \in Nat /\ z > y
      BY <2>2, AfterIsLater
    <3>2. w[y] = {y} \cup w[z]
      BY <1>1, <2>2 DEF WalkAt
    <3>3. z \in Q /\ (y \in A => z \in A)
      BY <1>2, <1>4, <2>2, <3>1
    <3>4. QED
      BY <3>1, <3>2, <3>3
  <2>3. QED
    BY <2>1, <2>2
<1> HIDE DEF Q
<1>5. 0 \in Q
  BY <1>3, <1>4, DownInduction
<1>6. QED
  BY <1>2, <1>5 DEF Q, A, ChainOf, w

\* Blocks of the chain lie one after the other.
LEMMA ChainApart ==
  ASSUME NEW h, Inside(h), NEW x \in ChainOf(h), NEW y \in ChainOf(h), x < y
  PROVE  x \in DOMAIN h /\ AfterIn(h, x) <= y
<1> DEFINE C == ChainOf(h)
           Goes(p, q) == p \in DOMAIN h /\ AfterIn(h, p) <= q
           S == {q \in C : \A p \in C : /\ p < q => Goes(p, q)
                                        /\ q < p => Goes(q, p)}
<1>1. C \subseteq Nat /\ 0 \in C
  BY ChainStart
<1>2. \A p \in C \cap DOMAIN h : AfterIn(h, p) \in C /\ AfterIn(h, p) > p
  BY ChainNext, AfterIsLater
<1> HIDE DEF C
<1>3. ASSUME NEW q \in C, \A p \in C : p < q => Goes(p, q)
      PROVE  q \in S
  <2> DEFINE T == {p \in C : q < p => Goes(q, p)}
  <2>1. 0 \in T
    BY <1>1, <1>3
  <2>2. ASSUME NEW p \in T, p \in DOMAIN h
        PROVE  AfterIn(h, p) \in T
    <3>1. p \in C /\ AfterIn(h, p) \in C /\ AfterIn(h, p) > p
      BY <1>2, <2>2
    <3>2. p \in Nat /\ q \in Nat /\ AfterIn(h, p) \in Nat
      BY <1>1, <3>1
    <3>3. CASE p < q
      <4>1. AfterIn(h, p) <= q
        BY <1>3, <3>1, <3>3
      <4>2. QED
        BY <3>1, <3>2, <4>1
    <3>4. CASE p = q
      BY <2>2, <3>1, <3>2, <3>4
    <3>5. CASE q < p
      <4>1. Goes(q, p)
        BY <2>2, <3>5
      <4>2. q \in DOMAIN h /\ AfterIn(h, q) \in Nat
        BY <1>1, <1>2, <4>1
      <4>3. QED
        BY <3>1, <3>2, <4>1, <4>2
    <3>6. QED
      BY <3>2, <3>3, <3>4, <3>5
  <2> HIDE DEF T
  <2>3. C \subseteq T
    BY <2>1, <2>2, ChainLeast DEF C
  <2>4. QED
    BY <1>3, <2>3 DEF T
<1>4. 0 \in S
  <2>1. \A p \in C : ~(p < 0)
    BY <1>1
  <2>2. QED
    BY <1>1, <1>3, <2>1
<1>5. ASSUME NEW q \in S, q \in DOMAIN h
      PROVE  AfterIn(h, q) \in S
  <2> DEFINE z == AfterIn(h, q)
  <2>1. z \in C /\ z > q /\ q \in C
    BY <1>2, <1>5
  <2>2. ASSUME NEW p \in C, p < z
        PROVE  Goes(p, z)
    <3>1. p \in Nat /\ q \in Nat /\ z \in Nat
      BY <1>1, <2>1
    <3>2. CASE p < q
      <4>1. Goes(p, q)
        BY <1>5, <3>2
      <4>2. AfterIn(h, p) \in Nat
        BY <1>1, <1>2, <4>1
      <4>3. QED
        BY <2>1, <3>1, <4>1, <4>2
    <3>3. CASE p = q
      BY <1>5, <3>1, <3>3
    <3>4. CASE q < p
      <4>1. z <= p
        BY <1>5, <3>4
      <4>2. QED
        BY <2>2, <3>1, <4>1
    <3>5. QED
      BY <3>1, <3>2, <3>3, <3>4
  <2> HIDE DEF z
  <2>3. QED
    BY <1>3, <2>1, <2>2 DEF z
<1> HIDE DEF S
<1>6. C \subseteq S
  BY <1>4, <1>5, ChainLeast DEF C
<1>7. QED
  BY <1>6 DEF S, C

\* Headers that differ only beside the chain have the same chain.
LEMMA SameChain ==
  ASSUME NEW h, NEW g, Inside(h), Inside(g),
         \A y \in ChainOf(h) \cap ChainOf(g) :
           /\ y \in DOMAIN h <=> y \in DOMAIN g
           /\ y \in DOMAIN h => AfterIn(h, y) = AfterIn(g, y)
  PROVE  ChainOf(h) = ChainOf(g)
<1> DEFINE C == ChainOf(h)
           D == ChainOf(g)
           B == C \cap D
<1>1. 0 \in B
  BY ChainStart
<1>2. \A y \in B : /\ y \in DOMAIN h => AfterIn(h, y) \in B
                   /\ y \in DOMAIN g => AfterIn(g, y) \in B
  BY ChainNext
<1> HIDE DEF C, D, B
<1>3. ChainOf(h) \subseteq B
  BY <1>1, <1>2, ChainLeast
<1>4. ChainOf(g) \subseteq B
  BY <1>1, <1>2, ChainLeast
<1>5. QED
  BY <1>3, <1>4 DEF B, C, D

\* Block x of g covers blocks x and n of h, and the other blocks are the same:
\* the chain of g is that of h without n.
LEMMA MergedChain ==
  ASSUME NEW h, NEW g, Inside(h), Inside(g),
         NEW x \in DOMAIN h \cap DOMAIN g, NEW n \in DOMAIN h,
         n = AfterIn(h, x), AfterIn(g, x) = AfterIn(h, n),
         \A y \in ChainOf(h) \cap ChainOf(g) : y # x =>
           /\ y \in DOMAIN h <=> y \in DOMAIN g
           /\ y \in DOMAIN h => AfterIn(h, y) = AfterIn(g, y)
                               /\ AfterIn(g, y) # n
  PROVE  /\ ChainOf(g) = ChainOf(h) \ {n}
         /\ x \in ChainOf(g) => n \in ChainOf(h)
<1> DEFINE C == ChainOf(h)
           D == ChainOf(g)
<1>1. /\ 0 \in C /\ 0 \in D /\ n # 0
      /\ AfterIn(h, n) # n /\ n \in Nat /\ x \in Nat
  BY ChainStart, AfterIsLater
<1>2. \A y \in C \cap DOMAIN h : AfterIn(h, y) \in C
  BY ChainNext
<1>3. \A y \in D \cap DOMAIN g : AfterIn(g, y) \in D
  BY ChainNext
<1> HIDE DEF C, D
<1>4. D \subseteq C \ {n}
  <2>1. ASSUME NEW y \in (C \ {n}) \cap D, y \in DOMAIN g
        PROVE  AfterIn(g, y) \in C \ {n}
    <3>1. CASE y = x
      BY <1>1, <1>2, <2>1, <3>1
    <3>2. CASE y # x
      <4>1. y \in DOMAIN h /\ AfterIn(h, y) = AfterIn(g, y) /\ AfterIn(g, y) # n
        BY <2>1, <3>2 DEF C, D
      <4>2. QED
        BY <1>2, <4>1
    <3>3. QED
      BY <3>1, <3>2
  <2>2. QED
    BY <1>1, <2>1, ChainLeast DEF D
<1>5. x \in D => n \in C
  BY <1>2, <1>4
<1> DEFINE S == D \cup {y \in {n} : x \in D}
<1>6. C \subseteq S
  <2>1. 0 \in S
    BY <1>1
  <2>2. ASSUME NEW y \in S \cap C, y \in DOMAIN h
        PROVE  AfterIn(h, y) \in S
    <3>1. CASE y = x
      BY <1>1, <2>2, <3>1, AfterIsLater
    <3>2. CASE y = n
      BY <1>3, <1>4, <2>2, <3>2
    <3>3. CASE y # x /\ y # n
      <4>1. y \in C \cap D
        BY <2>2, <3>3
      <4>2. y \in DOMAIN g /\ AfterIn(h, y) = AfterIn(g, y)
        BY <2>2, <3>3, <4>1 DEF C, D
      <4>3. QED
        BY <1>3, <4>1, <4>2
    <3>4. QED
      BY <3>1, <3>2, <3>3
  <2> HIDE DEF S
  <2>3. QED
    BY <2>1, <2>2, ChainLeast DEF C
<1>7. QED
  BY <1>4, <1>5, <1>6 DEF C, D

-----------------------------------------------------------------------------
(* Every header is a header: types, and that the region is not left.       *)

HeadersOK(h) ==
  /\ Inside(h)
  /\ \A o \in DOMAIN h : h[o] \in [size : Nat, isFree : BOOLEAN, previous : Nat]
  /\ 0 \in DOMAIN h /\ h[0].previous = 0

RegionInv ==
  HeadersOK(header) /\ live \subseteq [start : Nat, size : ReqSizes]

\* What holds when a call is made: see Next.
Callable == RegionInv /\ Chain \subseteq 0..ByteNumber

\* Where the block and the bytes of a block that fits lie.
LEMMA FitFacts ==
  ASSUME Callable, NEW size \in ReqSizes, NEW o, FirstFit(o, size)
  PROVE  /\ size \in Nat \ {0} /\ o \in Nat /\ o \in DOMAIN header
         /\ header[o].size \in Nat /\ header[o].size >= size /\ header[o].isFree
         /\ After(o) \in Chain /\ After(o) <= ByteNumber
<1>1. /\ o \in ChainOf(header) /\ o \in DOMAIN header /\ header[o].isFree
      /\ header[o].size >= size
  BY ChainIs DEF FirstFit, Fits
<1>2. Inside(header)
  BY DEF Callable, RegionInv, HeadersOK
<1>3. After(o) \in Chain
  BY <1>1, <1>2, ChainNext, ChainIs DEF After, AfterIn
<1>4. After(o) <= ByteNumber
  <2>1. After(o) \in 0..ByteNumber
    BY <1>3 DEF Callable
  <2>2. QED
    BY <2>1, RegionIsLongEnough
<1>5. QED
  BY <1>1, <1>2, <1>3, <1>4, ReqSizesArePositive DEF Inside, Last

LEMMA InitRegion == Init => RegionInv
BY RegionIsLongEnough DEF Init, RegionInv, HeadersOK, Inside, Last

LEMMA ReserveRegion ==
  ASSUME Callable, NEW size \in ReqSizes, NEW o, FirstFit(o, size), Reserve(o, size)
  PROVE  RegionInv'
<1> DEFINE rest == o + Meta + size
<1>1. /\ size \in Nat \ {0} /\ o \in Nat /\ o \in DOMAIN header
      /\ header[o].size \in Nat /\ header[o].size >= size
      /\ After(o) <= ByteNumber
  BY FitFacts
<1>2. Meta \in Nat \ {0} /\ ByteNumber \in Nat
  BY RegionIsLongEnough
<1>3. 0 \notin Overwritten(o, size) /\ o \notin Overwritten(o, size)
  BY <1>1, <1>2 DEF Bytes, Overwritten
<1>4. HeadersOK(header)
  BY DEF Callable, RegionInv
<1>5. live' \subseteq [start : Nat, size : ReqSizes]
  BY <1>1 DEF Callable, RegionInv, Reserve
<1>6. CASE MustSplit(o, size)
  <2>1. rest \in 0..Last /\ rest # 0 /\ rest # o
    BY <1>1, <1>2, <1>6 DEF MustSplit, After, Last
  <2>2. /\ SplitBlock(o, size) \in [size : Nat, isFree : BOOLEAN, previous : Nat]
        /\ SplitBlock(o, size).size \in Nat \ {0}
    BY <1>1, <1>2, <1>6 DEF MustSplit, SplitBlock
  <2>3. header' = [x \in (DOMAIN header \ Overwritten(o, size)) \cup {rest} |->
                     IF x = rest THEN SplitBlock(o, size)
                     ELSE IF x = o
                     THEN [header[o] EXCEPT !.isFree = FALSE, !.size = size]
                     ELSE header[x]]
    BY <1>6 DEF Reserve
  <2>4. Inside(header')
    BY <1>1, <1>4, <2>1, <2>2, <2>3 DEF HeadersOK, Inside
  <2>5. QED
    BY <1>1, <1>3, <1>4, <1>5, <2>1, <2>2, <2>3, <2>4 DEF HeadersOK, RegionInv
<1>7. CASE ~MustSplit(o, size)
  <2>1. header' = [x \in DOMAIN header \ Overwritten(o, size) |->
                     IF x = o THEN [header[o] EXCEPT !.isFree = FALSE]
                     ELSE header[x]]
    BY <1>7 DEF Reserve
  <2>2. Inside(header')
    BY <1>1, <1>4, <2>1 DEF HeadersOK, Inside
  <2>3. QED
    BY <1>1, <1>3, <1>4, <1>5, <2>1, <2>2 DEF HeadersOK, RegionInv
<1>8. QED
  BY <1>6, <1>7

\* To change what is before a block changes nothing else.
LEMMA RelinkKeeps ==
  ASSUME NEW h, HeadersOK(h), NEW x \in Nat \ {0}, NEW prev \in Nat
  PROVE  LET g == Relink(h, x, prev)
         IN  /\ HeadersOK(g) /\ DOMAIN g = DOMAIN h
             /\ \A y \in DOMAIN h : /\ g[y].size = h[y].size
                                    /\ g[y].isFree = h[y].isFree
<1>1. CASE Relink(h, x, prev) = h
  BY <1>1
<1>2. CASE Relink(h, x, prev) = [h EXCEPT ![x].previous = prev] /\ x \in DOMAIN h
  <2> DEFINE g == [h EXCEPT ![x].previous = prev]
  <2>1. /\ DOMAIN g = DOMAIN h
        /\ \A y \in DOMAIN h : y # x => g[y] = h[y]
        /\ g[x] = [h[x] EXCEPT !.previous = prev]
    BY <1>2
  <2> HIDE DEF g
  <2>2. \A y \in DOMAIN h : /\ g[y] \in [size : Nat, isFree : BOOLEAN, previous : Nat]
                            /\ g[y].size = h[y].size
                            /\ g[y].isFree = h[y].isFree
    BY <2>1 DEF HeadersOK
  <2>3. HeadersOK(g)
    BY <2>1, <2>2 DEF HeadersOK, Inside
  <2>4. QED
    BY <1>2, <2>1, <2>2, <2>3 DEF g
<1>3. QED
  BY <1>1, <1>2 DEF Relink

\* In g, block x is free and of size s; every other block is as in h.
GrownTo(h, g, x, s) ==
  /\ HeadersOK(g) /\ DOMAIN g = DOMAIN h
  /\ \A y \in DOMAIN h : y # x => /\ g[y].size = h[y].size
                                  /\ g[y].isFree = h[y].isFree
  /\ g[x].size = s /\ g[x].isFree

LEMMA GrowRelink ==
  ASSUME NEW h, HeadersOK(h), NEW x \in DOMAIN h, NEW s \in Nat, s >= h[x].size,
         NEW g, DOMAIN g = DOMAIN h, \A y \in DOMAIN h : y # x => g[y] = h[y],
         g[x] \in [size : Nat, isFree : BOOLEAN, previous : Nat],
         g[x].size = s, g[x].isFree, g[x].previous = h[x].previous,
         NEW z \in Nat \ {0}, NEW prev \in Nat
  PROVE  GrownTo(h, g, x, s) /\ GrownTo(h, Relink(g, z, prev), x, s)
<1>1. \A y \in DOMAIN h : /\ g[y] \in [size : Nat, isFree : BOOLEAN, previous : Nat]
                          /\ g[y].previous = h[y].previous
  BY DEF HeadersOK
<1>2. s \in Nat \ {0}
  BY DEF HeadersOK, Inside
<1>3. HeadersOK(g)
  BY <1>1, <1>2 DEF HeadersOK, Inside
<1> DEFINE f == Relink(g, z, prev)
<1>4. /\ HeadersOK(f) /\ DOMAIN f = DOMAIN g
      /\ \A y \in DOMAIN g : /\ f[y].size = g[y].size
                             /\ f[y].isFree = g[y].isFree
  BY <1>3, RelinkKeeps
<1> HIDE DEF f
<1>5. GrownTo(h, f, x, s)
  BY <1>4 DEF GrownTo
<1>6. QED
  BY <1>3, <1>5 DEF GrownTo, f

NextFree(o) == HasNext(o) /\ header[After(o)].isFree

\* The four ways pmm_free goes: which block is free then, and how long it is.
LEMMA FreedShape ==
  ASSUME RegionInv, NEW o \in DOMAIN header, NEW p \in DOMAIN header,
         p = header[o].previous, NEW n, n = After(o),
         HasNext(o) => n \in DOMAIN header
  PROVE  /\ NextFree(o) /\ header[p].isFree =>
              GrownTo(header, Freed(o), p,
                      header[p].size + header[o].size + header[n].size + 2 * Meta)
         /\ NextFree(o) /\ ~header[p].isFree =>
              GrownTo(header, Freed(o), o, header[o].size + header[n].size + Meta)
         /\ ~NextFree(o) /\ header[p].isFree =>
              GrownTo(header, Freed(o), p, header[p].size + header[o].size + Meta)
         /\ ~NextFree(o) /\ ~header[p].isFree =>
              GrownTo(header, Freed(o), o, header[o].size)
<1>1. HeadersOK(header)
  BY DEF RegionInv
<1>2. /\ o \in Nat /\ p \in Nat /\ n \in Nat \ {0}
      /\ header[o].size \in Nat /\ header[p].size \in Nat
      /\ Meta \in Nat \ {0}
  BY <1>1, RegionIsLongEnough DEF HeadersOK, Inside, Last, After
<1>3. \A y \in DOMAIN header :
        header[y] \in [size : Nat, isFree : BOOLEAN, previous : Nat]
  BY <1>1 DEF HeadersOK
<1>4. ASSUME NextFree(o)
      PROVE  /\ n \in DOMAIN header /\ header[n].size \in Nat
             /\ header[n].previous \in Nat /\ After(n) \in Nat \ {0}
  BY <1>2, <1>3, <1>4 DEF NextFree, After
<1>5. ASSUME NextFree(o), header[p].isFree
      PROVE  GrownTo(header, Freed(o), p,
                     header[p].size + header[o].size + header[n].size + 2 * Meta)
  <2> DEFINE s == header[p].size + header[o].size + header[n].size + 2 * Meta
             g == [header EXCEPT ![p].size = s]
  <2>1. Freed(o) = Relink(g, After(n), p)
    BY <1>5 DEF Freed, FreeBoth, NextFree
  <2>2. s \in Nat /\ s >= header[p].size
    BY <1>2, <1>4, <1>5
  <2> HIDE DEF s
  <2>3. /\ DOMAIN g = DOMAIN header
        /\ \A y \in DOMAIN header : y # p => g[y] = header[y]
        /\ g[p] = [header[p] EXCEPT !.size = s]
    OBVIOUS
  <2> HIDE DEF g
  <2>4. /\ g[p] \in [size : Nat, isFree : BOOLEAN, previous : Nat]
        /\ g[p].size = s /\ g[p].isFree /\ g[p].previous = header[p].previous
    BY <1>3, <1>5, <2>2, <2>3
  <2>5. GrownTo(header, Relink(g, After(n), p), p, s)
    BY <1>1, <1>2, <1>4, <1>5, <2>2, <2>3, <2>4, GrowRelink
  <2>6. QED
    BY <2>1, <2>5 DEF s
<1>6. ASSUME NextFree(o), ~header[p].isFree
      PROVE  GrownTo(header, Freed(o), o, header[o].size + header[n].size + Meta)
  <2> DEFINE s == header[o].size + header[n].size + Meta
             g == [header EXCEPT ![o].size = s, ![o].isFree = TRUE]
  <2>1. Freed(o) = Relink(g, After(n), header[n].previous)
    BY <1>6 DEF Freed, FreeNext, NextFree
  <2>2. s \in Nat /\ s >= header[o].size
    BY <1>2, <1>4, <1>6
  <2> HIDE DEF s
  <2>3. /\ DOMAIN g = DOMAIN header
        /\ \A y \in DOMAIN header : y # o => g[y] = header[y]
        /\ g[o] = [header[o] EXCEPT !.size = s, !.isFree = TRUE]
    OBVIOUS
  <2> HIDE DEF g
  <2>4. /\ g[o] \in [size : Nat, isFree : BOOLEAN, previous : Nat]
        /\ g[o].size = s /\ g[o].isFree /\ g[o].previous = header[o].previous
    BY <1>3, <2>2, <2>3
  <2>5. GrownTo(header, Relink(g, After(n), header[n].previous), o, s)
    BY <1>1, <1>2, <1>4, <1>6, <2>2, <2>3, <2>4, GrowRelink
  <2>6. QED
    BY <2>1, <2>5 DEF s
<1>7. ASSUME ~NextFree(o), header[p].isFree
      PROVE  GrownTo(header, Freed(o), p, header[p].size + header[o].size + Meta)
  <2> DEFINE s == header[p].size + header[o].size + Meta
             g == [header EXCEPT ![p].size = s]
  <2>1. Freed(o) = Relink(g, n, p)
    BY <1>7 DEF Freed, FreePrevious, NextFree
  <2>2. s \in Nat /\ s >= header[p].size
    <3>1. \A i, j, k \in Nat : i + j + k \in Nat /\ i + j + k >= i
      OBVIOUS
    <3>2. QED
      BY <1>2, <3>1
  <2> HIDE DEF s
  <2>3. /\ DOMAIN g = DOMAIN header
        /\ \A y \in DOMAIN header : y # p => g[y] = header[y]
        /\ g[p] = [header[p] EXCEPT !.size = s]
    OBVIOUS
  <2> HIDE DEF g
  <2>4. /\ g[p] \in [size : Nat, isFree : BOOLEAN, previous : Nat]
        /\ g[p].size = s /\ g[p].isFree /\ g[p].previous = header[p].previous
    BY <1>3, <1>7, <2>2, <2>3
  <2>5. GrownTo(header, Relink(g, n, p), p, s)
    <3>1. /\ n \in Nat \ {0} /\ p \in Nat /\ DOMAIN g = DOMAIN header
          /\ \A y \in DOMAIN header : y # p => g[y] = header[y]
      BY <1>2, <2>3
    <3>2. QED
      BY <1>1, <2>2, <2>4, <3>1, GrowRelink, Zenon
  <2>6. QED
    BY <2>1, <2>5 DEF s
<1>8. ASSUME ~NextFree(o), ~header[p].isFree
      PROVE  GrownTo(header, Freed(o), o, header[o].size)
  <2> DEFINE g == [header EXCEPT ![o].isFree = TRUE]
  <2>1. Freed(o) = g
    BY <1>8 DEF Freed, NextFree
  <2>2. /\ DOMAIN g = DOMAIN header
        /\ \A y \in DOMAIN header : y # o => g[y] = header[y]
        /\ g[o] = [header[o] EXCEPT !.isFree = TRUE]
    OBVIOUS
  <2> HIDE DEF g
  <2>3. /\ g[o] \in [size : Nat, isFree : BOOLEAN, previous : Nat]
        /\ g[o].size = header[o].size /\ g[o].isFree
        /\ g[o].previous = header[o].previous
    BY <1>3, <2>2
  <2>4. /\ GrownTo(header, g, o, header[o].size)
        /\ GrownTo(header, Relink(g, n, p), o, header[o].size)
    <3>1. header[o].size >= header[o].size
      BY <1>2
    <3>2. QED
      BY <1>1, <1>2, <2>2, <2>3, <3>1, GrowRelink
  <2>5. QED
    BY <2>1, <2>4
<1>9. QED
  BY <1>5, <1>6, <1>7, <1>8

LEMMA FreeRegion ==
  ASSUME RegionInv, NEW b \in live, Free(b)
  PROVE  RegionInv'
<1> DEFINE o == b.start
           p == header[o].previous
<1>1. /\ o \in DOMAIN header /\ p \in DOMAIN header
      /\ HasNext(o) => After(o) \in DOMAIN header
      /\ header' = Freed(o) /\ live' = live \ {b}
  BY DEF Free
<1>2. \E x, s : GrownTo(header, Freed(o), x, s)
  BY <1>1, FreedShape
<1>3. HeadersOK(header')
  BY <1>1, <1>2 DEF GrownTo
<1>4. QED
  BY <1>1, <1>3 DEF RegionInv

LEMMA NextRegion == RegionInv /\ [Next]_vars => RegionInv'
<1> SUFFICES ASSUME RegionInv, [Next]_vars
             PROVE  RegionInv'
  OBVIOUS
<1>1. CASE UNCHANGED vars
  BY <1>1 DEF vars, RegionInv
<1>2. ASSUME Next, NEW size \in ReqSizes, Malloc(size)
      PROVE  RegionInv'
  <2>1. PICK o \in Chain : FirstFit(o, size) /\ Reserve(o, size)
    BY <1>2 DEF Malloc
  <2>2. QED
    BY <1>2, <2>1, ReserveRegion DEF Next, Callable
<1>3. ASSUME NEW b \in live, Free(b)
      PROVE  RegionInv'
  BY <1>3, FreeRegion
<1>4. QED
  BY <1>1, <1>2, <1>3 DEF Next

LEMMA RegionAlways == Spec => []RegionInv
BY InitRegion, NextRegion, PTL DEF Spec

\* Headers are headers, and blocks are blocks, whatever the callers do.
THEOREM TypeCorrect == Spec => []TypeOK
<1>1. RegionInv => TypeOK
  BY DEF RegionInv, TypeOK, HeadersOK, Inside
<1>2. QED
  BY <1>1, RegionAlways, PTL

-----------------------------------------------------------------------------
(* The chain after a call.                                                 *)

\* pmm_malloc adds the block it cuts off to the chain, and spoils none.
LEMMA ReserveChain ==
  ASSUME Callable, NEW size \in ReqSizes, NEW o, FirstFit(o, size), Reserve(o, size),
         NEW rest, rest = o + Meta + size
  PROVE  /\ \A y \in Chain : y # o => /\ y \in DOMAIN header' <=> y \in DOMAIN header
                                      /\ y \in DOMAIN header => header'[y] = header[y]
         /\ o \in DOMAIN header' /\ ~header'[o].isFree
         /\ MustSplit(o, size) =>
              /\ Chain' = Chain \cup {rest} /\ rest \notin Chain
              /\ rest \in DOMAIN header' /\ header'[rest].isFree
              /\ header'[o].size = size
              /\ AfterIn(header', o) = rest
              /\ AfterIn(header', rest) = After(o)
         /\ ~MustSplit(o, size) =>
              /\ Chain' = Chain /\ header'[o].size = header[o].size
              /\ AfterIn(header', o) = After(o)
<1> DEFINE C == ChainOf(header)
<1>1. /\ size \in Nat \ {0} /\ o \in Nat /\ o \in DOMAIN header
      /\ header[o].size \in Nat /\ header[o].size >= size
      /\ After(o) <= ByteNumber /\ Meta \in Nat \ {0}
  BY FitFacts, RegionIsLongEnough
<1>2. Inside(header) /\ Inside(header')
  <2>1. RegionInv'
    BY ReserveRegion
  <2>2. QED
    BY <2>1 DEF Callable, RegionInv, HeadersOK
<1>3. o \in C
  BY ChainIs DEF FirstFit
<1>4. C \subseteq Nat
  BY <1>2, ChainStart
<1>5. \A y \in C : y > o => y >= After(o)
  BY <1>2, <1>3, ChainApart DEF After, AfterIn
<1>6. \A y \in C : y \notin Overwritten(o, size)
  <2>1. ASSUME NEW y \in C, y \in Overwritten(o, size)
        PROVE  FALSE
    <3>1. y \in Nat
      BY <1>4
    <3>2. y > o /\ y < After(o)
      <4>1. CASE y \in (o + Meta)..(o + Meta + size - 1)
        BY <1>1, <3>1, <4>1 DEF After
      <4>2. CASE MustSplit(o, size) /\ rest < y /\ y < rest + Meta
        BY <1>1, <3>1, <4>2 DEF MustSplit, After
      <4>3. QED
        BY <2>1, <4>1, <4>2 DEF Overwritten, Bytes
    <3>3. y >= After(o)
      BY <1>5, <2>1, <3>2
    <3>4. QED
      BY <1>1, <3>1, <3>2, <3>3 DEF After
  <2>2. QED
    BY <2>1
<1>7. o \notin Overwritten(o, size)
  BY <1>3, <1>6
<1>8. CASE MustSplit(o, size)
  <2>1. header' = [x \in (DOMAIN header \ Overwritten(o, size)) \cup {rest} |->
                     IF x = rest THEN SplitBlock(o, size)
                     ELSE IF x = o
                     THEN [header[o] EXCEPT !.isFree = FALSE, !.size = size]
                     ELSE header[x]]
    BY <1>8 DEF Reserve
  <2>2. rest # o /\ rest > o /\ ~(rest >= After(o)) /\ rest \in Nat
    BY <1>1, <1>8 DEF MustSplit, After
  <2>3. rest \notin C
    BY <1>5, <2>2
  <2>4. /\ o \in DOMAIN header' /\ rest \in DOMAIN header'
        /\ header'[o] = [header[o] EXCEPT !.isFree = FALSE, !.size = size]
        /\ header'[rest] = SplitBlock(o, size)
    BY <1>1, <1>7, <2>1, <2>2
  <2>5. \A y \in C : y # o => /\ y \in DOMAIN header' <=> y \in DOMAIN header
                              /\ y \in DOMAIN header => header'[y] = header[y]
    BY <1>6, <2>1, <2>3
  <2>6. header'[o].size = size /\ ~header'[o].isFree
    <3>1. header[o] \in [size : Nat, isFree : BOOLEAN, previous : Nat]
      BY <1>1 DEF Callable, RegionInv, HeadersOK
    <3>2. QED
      BY <2>4, <3>1
  <2>7. header'[rest].isFree /\ header'[rest].size = header[o].size - size - Meta
    BY <2>4 DEF SplitBlock
  <2>8. AfterIn(header', o) = rest
    BY <2>6 DEF AfterIn
  <2>9. AfterIn(header', rest) = AfterIn(header, o)
    BY <1>1, <2>7 DEF AfterIn
  <2>10. ChainOf(header) = ChainOf(header') \ {rest} /\ rest \in ChainOf(header')
    <3>1. ASSUME NEW y \in ChainOf(header') \cap ChainOf(header), y # o
          PROVE  /\ y \in DOMAIN header' <=> y \in DOMAIN header
                 /\ y \in DOMAIN header' =>
                      /\ AfterIn(header', y) = AfterIn(header, y)
                      /\ AfterIn(header, y) # rest
      <4>1. /\ y \in DOMAIN header' <=> y \in DOMAIN header
            /\ y \in DOMAIN header => header'[y] = header[y]
        <5>1. y \in C /\ y # o
          BY <3>1
        <5>2. QED
          BY <2>5, <5>1, Zenon
      <4>2. y \in DOMAIN header => AfterIn(header, y) \in C
        BY <1>2, <3>1, ChainNext
      <4>3. QED
        BY <2>3, <4>1, <4>2 DEF AfterIn
    <3>2. o \in DOMAIN header' \cap DOMAIN header
      BY <1>1, <2>4
    <3>3. QED
      BY <1>2, <1>3, <2>4, <2>8, <2>9, <3>1, <3>2, MergedChain
  <2>11. Chain' = ChainOf(header')
    BY ChainIs
  <2>12. QED
    BY <1>8, <2>3, <2>4, <2>5, <2>6, <2>7, <2>8, <2>9, <2>10, <2>11, ChainIs
       DEF After, AfterIn
<1>9. CASE ~MustSplit(o, size)
  <2>1. header' = [x \in DOMAIN header \ Overwritten(o, size) |->
                     IF x = o THEN [header[o] EXCEPT !.isFree = FALSE]
                     ELSE header[x]]
    BY <1>9 DEF Reserve
  <2>2. /\ o \in DOMAIN header'
        /\ header'[o] = [header[o] EXCEPT !.isFree = FALSE]
    BY <1>1, <1>7, <2>1
  <2>3. \A y \in C : y # o => /\ y \in DOMAIN header' <=> y \in DOMAIN header
                              /\ y \in DOMAIN header => header'[y] = header[y]
    BY <1>6, <2>1
  <2>4. header'[o].size = header[o].size /\ ~header'[o].isFree
    <3>1. header[o] \in [size : Nat, isFree : BOOLEAN, previous : Nat]
      BY <1>1 DEF Callable, RegionInv, HeadersOK
    <3>2. QED
      BY <2>2, <3>1
  <2>5. ChainOf(header) = ChainOf(header')
    <3>1. ASSUME NEW y \in ChainOf(header) \cap ChainOf(header')
          PROVE  /\ y \in DOMAIN header <=> y \in DOMAIN header'
                 /\ y \in DOMAIN header => AfterIn(header, y) = AfterIn(header', y)
      BY <1>1, <2>2, <2>3, <2>4, <3>1 DEF AfterIn
    <3>2. QED
      BY <1>2, <3>1, SameChain
  <2>6. Chain' = ChainOf(header')
    BY ChainIs
  <2>7. QED
    BY <1>9, <2>2, <2>3, <2>4, <2>5, <2>6, ChainIs DEF After, AfterIn
<1>10. QED
  BY <1>8, <1>9

\* A block that is in use, and what lies around it, when it is given back.
LEMMA HeldFacts ==
  ASSUME Callable, Tiled, LinksHarmless, NEW b \in live, Free(b),
         NEW o, o = b.start, NEW p, p = header[o].previous
  PROVE  /\ o \in Chain /\ o \in DOMAIN header /\ ~header[o].isFree
         /\ p \in DOMAIN header
         /\ header[p].isFree => p \in Chain /\ p < o /\ After(p) = o
         /\ After(o) \in Chain
         /\ HasNext(o) => After(o) \in DOMAIN header
         /\ header' = Freed(o) /\ live' = live \ {b}
<1>1. /\ o \in DOMAIN header /\ p \in DOMAIN header
      /\ HasNext(o) => After(o) \in DOMAIN header
      /\ header' = Freed(o) /\ live' = live \ {b}
  BY DEF Free
<1>2. o \in Blocks /\ ~header[o].isFree
  BY DEF Tiled
<1>3. After(o) \in Chain
  BY <1>1, <1>2, ChainNext, ChainIs
     DEF Callable, RegionInv, HeadersOK, Blocks, After, AfterIn
<1>4. o = 0 => p = 0
  BY DEF Callable, RegionInv, HeadersOK
<1>5. header[p].isFree => p \in Chain /\ p < o /\ After(p) = o
  BY <1>2, <1>4 DEF LinksHarmless, Blocks
<1>6. QED
  BY <1>1, <1>2, <1>3, <1>5 DEF Blocks

\* pmm_free takes the blocks it merges out of the chain, and no others.
LEMMA FreedChain ==
  ASSUME Callable, Tiled, LinksHarmless, NEW b \in live, Free(b),
         NEW o, o = b.start, NEW p, p = header[o].previous, NEW n, n = After(o)
  PROVE  /\ NextFree(o) /\ header[p].isFree =>
              /\ Chain' = Chain \ {o, n} /\ p \in Chain'
              /\ AfterIn(header', p) = After(n)
         /\ NextFree(o) /\ ~header[p].isFree =>
              /\ Chain' = Chain \ {n} /\ o \in Chain'
              /\ AfterIn(header', o) = After(n)
         /\ ~NextFree(o) /\ header[p].isFree =>
              /\ Chain' = Chain \ {o} /\ p \in Chain'
              /\ AfterIn(header', p) = n
         /\ ~NextFree(o) /\ ~header[p].isFree =>
              /\ Chain' = Chain /\ AfterIn(header', o) = n
<1>1. /\ o \in Chain /\ o \in DOMAIN header /\ ~header[o].isFree
      /\ p \in DOMAIN header
      /\ header[p].isFree => p \in Chain /\ p < o /\ After(p) = o
      /\ n \in Chain
      /\ HasNext(o) => n \in DOMAIN header
      /\ header' = Freed(o)
  BY HeldFacts
<1>2. HeadersOK(header) /\ Inside(header)
  BY DEF Callable, RegionInv, HeadersOK
<1>3. Inside(header')
  BY FreeRegion DEF Callable, RegionInv, HeadersOK
<1>4. /\ o \in Nat /\ p \in Nat /\ Meta \in Nat
      /\ header[o].size \in Nat /\ header[p].size \in Nat
      /\ n = o + Meta + header[o].size /\ n > o /\ n \in Nat
      /\ n \in DOMAIN header => header[n].size \in Nat
  BY <1>1, <1>2, RegionIsLongEnough DEF Inside, Last, After
<1>5. /\ ChainOf(header) = Chain /\ ChainOf(header') = Chain'
      /\ Chain \subseteq Nat
  BY <1>2, ChainIs, ChainStart
<1>6. \A y \in Chain : y \in DOMAIN header => AfterIn(header, y) \in Chain
  BY <1>2, <1>5, ChainNext
\* After different blocks come different ones.
<1>7. ASSUME NEW y \in Chain \cap DOMAIN header, NEW z \in Chain \cap DOMAIN header,
             AfterIn(header, y) = AfterIn(header, z)
      PROVE  y = z
  <2>1. /\ y \in Nat /\ z \in Nat
        /\ AfterIn(header, y) \in Nat /\ AfterIn(header, y) > y
        /\ AfterIn(header, z) > z
    BY <1>2, <1>7, AfterIsLater
  <2>2. ~(y < z) /\ ~(z < y)
    BY <1>2, <1>5, <1>7, <2>1, ChainApart
  <2>3. QED
    BY <2>1, <2>2
<1>8. CASE ~NextFree(o) /\ ~header[p].isFree
  <2>1. GrownTo(header, header', o, header[o].size)
    BY <1>1, <1>8, FreedShape DEF Callable
  <2>2. \A y \in DOMAIN header : AfterIn(header', y) = AfterIn(header, y)
    BY <2>1 DEF GrownTo, AfterIn
  <2>3. ChainOf(header) = ChainOf(header')
    BY <1>2, <1>3, <2>1, <2>2, SameChain DEF GrownTo
  <2>4. QED
    BY <1>1, <1>5, <1>8, <2>2, <2>3 DEF AfterIn, After
<1>9. CASE NextFree(o) /\ ~header[p].isFree
  <2>1. GrownTo(header, header', o, header[o].size + header[n].size + Meta)
    BY <1>1, <1>9, FreedShape DEF Callable
  <2>2. n \in DOMAIN header
    BY <1>1, <1>9 DEF NextFree
  <2>3. AfterIn(header', o) = AfterIn(header, n)
    BY <1>4, <2>1, <2>2 DEF GrownTo, AfterIn
  <2>4. ASSUME NEW y \in ChainOf(header) \cap ChainOf(header'), y # o
        PROVE  /\ y \in DOMAIN header <=> y \in DOMAIN header'
               /\ y \in DOMAIN header =>
                    /\ AfterIn(header, y) = AfterIn(header', y)
                    /\ AfterIn(header', y) # n
    <3>1. DOMAIN header' = DOMAIN header
      BY <2>1 DEF GrownTo
    <3>2. y \in DOMAIN header => AfterIn(header, y) = AfterIn(header', y)
      BY <2>1, <2>4 DEF GrownTo, AfterIn
    <3>3. n = AfterIn(header, o)
      BY DEF After, AfterIn
    <3>4. QED
      BY <1>1, <1>5, <1>7, <2>4, <3>1, <3>2, <3>3
  <2>5. n = AfterIn(header, o) /\ o \in DOMAIN header \cap DOMAIN header'
    BY <1>1, <2>1 DEF After, AfterIn, GrownTo
  <2>6. ChainOf(header') = ChainOf(header) \ {n}
    BY <1>2, <1>3, <2>2, <2>3, <2>4, <2>5, MergedChain
  <2>7. QED
    BY <1>1, <1>4, <1>5, <1>9, <2>3, <2>6 DEF AfterIn, After
<1>10. CASE ~NextFree(o) /\ header[p].isFree
  <2>1. GrownTo(header, header', p, header[p].size + header[o].size + Meta)
    BY <1>1, <1>10, FreedShape DEF Callable
  <2>2. o = AfterIn(header, p)
    BY <1>1, <1>10 DEF After, AfterIn
  <2>3. AfterIn(header', p) = AfterIn(header, o)
    <3>1. header'[p].size = header[p].size + header[o].size + Meta
      BY <2>1 DEF GrownTo
    <3>2. o = p + Meta + header[p].size
      BY <2>2 DEF AfterIn
    <3>3. PICK i \in Nat, j \in Nat : i = header[p].size /\ j = header[o].size
      BY <1>4
    <3>4. header'[p].size = i + j + Meta /\ o = p + Meta + i
      BY <3>1, <3>2, <3>3
    <3>5. p + Meta + (i + j + Meta) = (p + Meta + i) + Meta + j
      BY <1>4
    <3>6. QED
      BY <3>3, <3>4, <3>5 DEF AfterIn
  <2>4. ASSUME NEW y \in ChainOf(header) \cap ChainOf(header'), y # p
        PROVE  /\ y \in DOMAIN header <=> y \in DOMAIN header'
               /\ y \in DOMAIN header =>
                    /\ AfterIn(header, y) = AfterIn(header', y)
                    /\ AfterIn(header', y) # o
    <3>1. DOMAIN header' = DOMAIN header
      BY <2>1 DEF GrownTo
    <3>2. y \in DOMAIN header => AfterIn(header, y) = AfterIn(header', y)
      BY <2>1, <2>4 DEF GrownTo, AfterIn
    <3>3. QED
      BY <1>1, <1>5, <1>7, <1>10, <2>2, <2>4, <3>1, <3>2
  <2>5. p \in DOMAIN header \cap DOMAIN header'
    BY <1>1, <2>1 DEF GrownTo
  <2>6. ChainOf(header') = ChainOf(header) \ {o}
    BY <1>1, <1>2, <1>3, <2>2, <2>3, <2>4, <2>5, MergedChain
  <2>7. p # o /\ p \in Chain
    BY <1>1, <1>4, <1>10
  <2>8. QED
    BY <1>5, <1>10, <2>3, <2>6, <2>7 DEF AfterIn, After
<1>11. CASE NextFree(o) /\ header[p].isFree
  <2> DEFINE h == [header EXCEPT ![p].size = header[p].size + header[o].size + Meta]
  <2>1. GrownTo(header, header', p,
                header[p].size + header[o].size + header[n].size + 2 * Meta)
    BY <1>1, <1>11, FreedShape DEF Callable
  <2>2. /\ n \in DOMAIN header /\ o = AfterIn(header, p) /\ n = AfterIn(header, o)
        /\ p # o /\ p \in Chain /\ p < o
    BY <1>1, <1>4, <1>11 DEF NextFree, After, AfterIn
  <2>3. /\ DOMAIN h = DOMAIN header
        /\ \A y \in DOMAIN header : y # p => h[y] = header[y]
        /\ h[p] = [header[p] EXCEPT !.size = header[p].size + header[o].size + Meta]
    BY <1>1
  <2> HIDE DEF h
  <2>4. h[p].size = header[p].size + header[o].size + Meta
    <3>1. header[p] \in [size : Nat, isFree : BOOLEAN, previous : Nat]
      BY <1>1, <1>2 DEF HeadersOK
    <3>2. QED
      BY <2>3, <3>1
  <2>5. Inside(h)
    <3>1. header[p].size \in Nat \ {0}
      BY <1>1, <1>2 DEF Inside
    <3>2. h[p].size \in Nat \ {0}
      BY <1>4, <2>4, <3>1
    <3>3. QED
      BY <1>2, <2>3, <3>2 DEF Inside
  <2>6. AfterIn(h, p) = n
    <3>1. o = p + Meta + header[p].size
      BY <2>2 DEF AfterIn
    <3>2. PICK i \in Nat, j \in Nat : i = header[p].size /\ j = header[o].size
      BY <1>4
    <3>3. h[p].size = i + j + Meta /\ o = p + Meta + i /\ n = o + Meta + j
      BY <1>4, <2>4, <3>1, <3>2
    <3>4. p + Meta + (i + j + Meta) = (p + Meta + i) + Meta + j
      BY <1>4
    <3>5. QED
      BY <3>3, <3>4 DEF AfterIn
  <2>7. ChainOf(h) = ChainOf(header) \ {o}
    <3>1. ASSUME NEW y \in ChainOf(header) \cap ChainOf(h), y # p
          PROVE  /\ y \in DOMAIN header <=> y \in DOMAIN h
                 /\ y \in DOMAIN header =>
                      /\ AfterIn(header, y) = AfterIn(h, y)
                      /\ AfterIn(h, y) # o
      <4>1. y \in DOMAIN header => AfterIn(header, y) = AfterIn(h, y)
        BY <2>3, <3>1 DEF AfterIn
      <4>2. QED
        BY <1>1, <1>5, <1>7, <2>2, <2>3, <3>1, <4>1
    <3>2. p \in DOMAIN header \cap DOMAIN h
      BY <1>1, <2>3
    <3>3. QED
      BY <1>1, <1>2, <2>2, <2>5, <2>6, <3>1, <3>2, MergedChain
  <2>10. p # n
    <3>1. p < o
      BY <2>2
    <3>2. QED
      BY <1>4, <3>1
  <2>8. AfterIn(header', p) = AfterIn(header, n) /\ AfterIn(h, n) = AfterIn(header, n)
    <3>1. n # p /\ h[n] = header[n]
      BY <2>2, <2>3, <2>10
    <3>2. header[n].size \in Nat
      BY <1>4, <2>2
    <3>3. header'[p].size = header[p].size + header[o].size + header[n].size + 2 * Meta
      BY <2>1 DEF GrownTo
    <3>4. n = p + Meta + header[p].size + Meta + header[o].size
      BY <1>4, <2>2 DEF AfterIn
    <3>5. p + Meta + (header[p].size + header[o].size + header[n].size + 2 * Meta)
            = n + Meta + header[n].size
      BY <1>4, <3>2, <3>4
    <3>6. QED
      BY <3>1, <3>3, <3>5 DEF AfterIn
  <2>9. ChainOf(header') = ChainOf(h) \ {n}
    <3>1. ASSUME NEW y \in ChainOf(h) \cap ChainOf(header'), y # p
          PROVE  /\ y \in DOMAIN h <=> y \in DOMAIN header'
                 /\ y \in DOMAIN h =>
                      /\ AfterIn(h, y) = AfterIn(header', y)
                      /\ AfterIn(header', y) # n
      <4>1. DOMAIN header' = DOMAIN header
        BY <2>1 DEF GrownTo
      <4>2. y \in DOMAIN header => AfterIn(header, y) = AfterIn(header', y)
        BY <2>1, <3>1 DEF GrownTo, AfterIn
      <4>3. y \in DOMAIN header => AfterIn(header, y) = AfterIn(h, y)
        BY <2>3, <3>1 DEF AfterIn
      <4>4. y \in Chain /\ y # o
        BY <1>5, <2>7, <3>1
      <4>5. y \in DOMAIN header => AfterIn(header, y) # n
        BY <1>1, <1>7, <2>2, <4>4
      <4>6. QED
        BY <2>3, <4>1, <4>2, <4>3, <4>5
    <3>2. p \in DOMAIN h \cap DOMAIN header' /\ n \in DOMAIN h
      BY <1>1, <2>1, <2>2, <2>3 DEF GrownTo
    <3>3. QED
      BY <1>3, <2>5, <2>6, <2>8, <3>1, <3>2, MergedChain
  <2>11. QED
    BY <1>5, <1>11, <2>2, <2>7, <2>8, <2>9, <2>10 DEF AfterIn, After
<1>12. QED
  BY <1>8, <1>9, <1>10, <1>11

-----------------------------------------------------------------------------
(* The region stays tiled.                                                 *)

LEMMA ReserveTiles ==
  ASSUME Callable, Tiled, NEW size \in ReqSizes, NEW o, FirstFit(o, size),
         Reserve(o, size)
  PROVE  Tiled'
<1> DEFINE rest == o + Meta + size
           got == [start |-> o, size |-> size]
<1>1. /\ \A y \in Chain : y # o => /\ y \in DOMAIN header' <=> y \in DOMAIN header
                                   /\ y \in DOMAIN header => header'[y] = header[y]
      /\ o \in DOMAIN header' /\ ~header'[o].isFree
  BY ReserveChain
<1>2. \/ /\ Chain' = Chain \cup {rest} /\ rest \in DOMAIN header'
         /\ header'[rest].isFree /\ rest \notin Chain /\ header'[o].size = size
      \/ Chain' = Chain /\ header'[o].size = header[o].size
  BY ReserveChain
<1>3. /\ o \in Chain /\ o \in DOMAIN header /\ header[o].isFree
      /\ size \in Nat /\ header[o].size >= size
  BY FitFacts DEF FirstFit
<1>4. live' = live \cup {got}
  BY DEF Reserve
<1>5. \A b \in live : /\ b.start \in Chain /\ b.start \in DOMAIN header
                      /\ ~header[b.start].isFree /\ b.start # o
  BY <1>3 DEF Tiled, Blocks
<1>6. (Chain \subseteq DOMAIN header \cup {ByteNumber})'
  BY <1>1, <1>2, <1>3 DEF Tiled
<1>7. ({y \in Blocks : ~header[y].isFree} = {b.start : b \in live})'
  <2>1. ASSUME NEW y \in Chain', y \in DOMAIN header', ~header'[y].isFree
        PROVE  \E b \in live' : y = b.start
    <3>1. CASE y = o
      <4>1. got \in live' /\ got.start = o
        BY <1>4
      <4>2. QED
        BY <3>1, <4>1
    <3>2. CASE y # o
      <4>1. y \in Chain /\ y \in DOMAIN header /\ ~header[y].isFree
        BY <1>1, <1>2, <2>1, <3>2
      <4>2. QED
        BY <1>4, <4>1 DEF Tiled, Blocks
    <3>3. QED
      BY <3>1, <3>2
  <2>2. ASSUME NEW b \in live'
        PROVE  /\ b.start \in Chain' /\ b.start \in DOMAIN header'
               /\ ~header'[b.start].isFree
    <3>1. CASE b = got
      BY <1>1, <1>2, <1>3, <3>1
    <3>2. CASE b \in live
      BY <1>1, <1>2, <1>5, <3>2
    <3>3. QED
      BY <1>4, <3>1, <3>2
  <2>3. QED
    BY <2>1, <2>2 DEF Blocks
<1>8. (\A b, c \in live : b # c => b.start # c.start)'
  BY <1>4, <1>5 DEF Tiled
<1>9. (\A b \in live : header[b.start].size >= b.size)'
  <2>1. ASSUME NEW b \in live
        PROVE  header'[b.start].size >= b.size
    BY <1>1, <1>5 DEF Tiled
  <2>2. header'[o].size >= size
    BY <1>2, <1>3
  <2>3. header'[got.start].size >= got.size
    BY <2>2
  <2>4. QED
    BY <1>4, <2>1, <2>3
<1>10. QED
  BY <1>6, <1>7, <1>8, <1>9 DEF Tiled

\* A block x that takes free blocks, or the block given back, out of the chain.
LEMMA FreeTiles ==
  ASSUME Tiled, NEW b \in live, live' = live \ {b},
         NEW x, NEW s, GrownTo(header, header', x, s),
         NEW X, Chain' = Chain \ X,
         \A y \in X : y = b.start \/ (y \in DOMAIN header => header[y].isFree),
         x = b.start \/ (header[x].isFree /\ b.start \in X)
  PROVE  Tiled'
<1>1. \A c \in live' :
        /\ c \in live /\ c.start # b.start
        /\ c.start \in Chain /\ c.start \in DOMAIN header /\ ~header[c.start].isFree
  BY DEF Tiled, Blocks
<1>2. \A c \in live' : /\ c.start \in Chain' /\ c.start \in DOMAIN header'
                       /\ c.start # x /\ ~header'[c.start].isFree
                       /\ header'[c.start].size = header[c.start].size
  BY <1>1 DEF GrownTo
<1>3. (Chain \subseteq DOMAIN header \cup {ByteNumber})'
  BY DEF Tiled, GrownTo
<1>4. ({y \in Blocks : ~header[y].isFree} = {c.start : c \in live})'
  <2>1. ASSUME NEW y \in Chain', y \in DOMAIN header', ~header'[y].isFree
        PROVE  \E c \in live' : y = c.start
    <3>1. y # x /\ y \in Chain /\ y \in DOMAIN header /\ ~header[y].isFree
      BY <2>1 DEF GrownTo
    <3>2. y # b.start
      BY <2>1, <3>1
    <3>3. QED
      BY <3>1, <3>2 DEF Tiled, Blocks
  <2>2. QED
    BY <1>2, <2>1 DEF Blocks
<1>5. (\A c, d \in live : c # d => c.start # d.start)'
  BY DEF Tiled
<1>6. (\A c \in live : header[c.start].size >= c.size)'
  BY <1>1, <1>2 DEF Tiled
<1>7. QED
  BY <1>3, <1>4, <1>5, <1>6 DEF Tiled

LEMMA FreeKeepsTiled ==
  ASSUME Callable, Tiled, LinksHarmless, NEW b \in live, Free(b)
  PROVE  Tiled'
<1> DEFINE o == b.start
           p == header[o].previous
           n == After(o)
<1>1. /\ o \in DOMAIN header /\ p \in DOMAIN header
      /\ HasNext(o) => n \in DOMAIN header
      /\ header' = Freed(o) /\ live' = live \ {b}
  BY HeldFacts
<1> DEFINE Taken(x, X) ==
      /\ \E s : GrownTo(header, header', x, s)
      /\ Chain' = Chain \ X
      /\ \A y \in X : y = b.start \/ (y \in DOMAIN header => header[y].isFree)
      /\ x = b.start \/ (header[x].isFree /\ b.start \in X)
<1>2. ASSUME NEW x, NEW X, Taken(x, X)
      PROVE  Tiled'
  <2>1. PICK s : GrownTo(header, header', x, s)
    BY <1>2
  <2>2. QED
    BY <1>1, <1>2, <2>1, FreeTiles
<1> HIDE DEF Taken
<1>3. CASE NextFree(o) /\ header[p].isFree
  <2>1. \E s : GrownTo(header, header', p, s)
    BY <1>1, <1>3, FreedShape DEF Callable
  <2>2. Chain' = Chain \ {o, n}
    BY <1>3, FreedChain
  <2>3. header[n].isFree
    BY <1>3 DEF NextFree
  <2>4. Taken(p, {o, n})
    BY <1>3, <2>1, <2>2, <2>3 DEF Taken
  <2>5. QED
    BY <1>2, <2>4
<1>4. CASE NextFree(o) /\ ~header[p].isFree
  <2>1. \E s : GrownTo(header, header', o, s)
    BY <1>1, <1>4, FreedShape DEF Callable
  <2>2. Chain' = Chain \ {n}
    BY <1>4, FreedChain
  <2>3. header[n].isFree
    BY <1>4 DEF NextFree
  <2>4. Taken(o, {n})
    BY <2>1, <2>2, <2>3 DEF Taken
  <2>5. QED
    BY <1>2, <2>4
<1>5. CASE ~NextFree(o) /\ header[p].isFree
  <2>1. \E s : GrownTo(header, header', p, s)
    BY <1>1, <1>5, FreedShape DEF Callable
  <2>2. Chain' = Chain \ {o}
    BY <1>5, FreedChain
  <2>3. Taken(p, {o})
    BY <1>5, <2>1, <2>2 DEF Taken
  <2>4. QED
    BY <1>2, <2>3
<1>6. CASE ~NextFree(o) /\ ~header[p].isFree
  <2>1. \E s : GrownTo(header, header', o, s)
    BY <1>1, <1>6, FreedShape DEF Callable
  <2>2. Chain' = Chain
    BY <1>6, FreedChain
  <2>3. Taken(o, {})
    BY <2>1, <2>2 DEF Taken
  <2>4. QED
    BY <1>2, <2>3
<1>7. QED
  BY <1>3, <1>4, <1>5, <1>6

\* While no block names a free block further back as its previous, every call
\* of pmm_malloc and pmm_free leaves the region tiled by blocks.
THEOREM HarmlessLinksKeepTiles == Spec => HarmlessKeepsTiled
<1>1. RegionInv /\ [Next]_vars => (Tiled /\ LinksHarmless => Tiled')
  <2> SUFFICES ASSUME RegionInv, [Next]_vars, Tiled, LinksHarmless
               PROVE  Tiled'
    OBVIOUS
  <2>1. CASE UNCHANGED vars
    <3>1. Chain' = Chain
      BY <2>1, ChainIs DEF vars
    <3>2. QED
      BY <2>1, <3>1 DEF vars, Tiled, Blocks
  <2>2. ASSUME Callable, NEW size \in ReqSizes, Malloc(size)
        PROVE  Tiled'
    BY <2>2, ReserveTiles DEF Malloc
  <2>3. ASSUME Callable, NEW b \in live, Free(b)
        PROVE  Tiled'
    BY <2>3, FreeKeepsTiled
  <2>4. QED
    BY <2>1, <2>2, <2>3 DEF Next, Callable
<1>2. QED
  BY <1>1, RegionAlways, PTL DEF Spec, HarmlessKeepsTiled

-----------------------------------------------------------------------------
(* pmm_free merges all it can.                                             *)

LEMMA ReserveMerges ==
  ASSUME Callable, Coalesced, NEW size \in ReqSizes, NEW o, FirstFit(o, size),
         Reserve(o, size)
  PROVE  Coalesced'
<1> DEFINE rest == o + Meta + size
<1>1. /\ \A y \in Chain : y # o => /\ y \in DOMAIN header' <=> y \in DOMAIN header
                                   /\ y \in DOMAIN header => header'[y] = header[y]
      /\ o \in DOMAIN header' /\ ~header'[o].isFree
  BY ReserveChain
<1>2. \/ /\ Chain' = Chain \cup {rest} /\ rest \notin Chain
         /\ AfterIn(header', rest) = After(o)
      \/ Chain' = Chain
  BY ReserveChain
<1>3. /\ o \in Chain /\ o \in DOMAIN header /\ header[o].isFree
      /\ After(o) \in Chain
  BY FitFacts DEF FirstFit
<1>4. \A y \in Chain \cap DOMAIN header : AfterIn(header, y) \in Chain
  BY ChainNext, ChainIs DEF Callable, RegionInv, HeadersOK
<1> HIDE DEF rest
<1>5. ASSUME NEW y \in Chain', y \in DOMAIN header', header'[y].isFree,
             AfterIn(header', y) \in Chain', AfterIn(header', y) \in DOMAIN header'
      PROVE  ~header'[AfterIn(header', y)].isFree
  <2> DEFINE z == AfterIn(header', y)
  <2>1. y # o
    BY <1>1, <1>5
  <2>2. CASE y \in Chain
    <3>1. y \in DOMAIN header /\ header[y].isFree /\ z = AfterIn(header, y)
      BY <1>1, <1>5, <2>1, <2>2 DEF AfterIn
    <3>2. z \in Chain
      BY <1>4, <2>2, <3>1
    <3>3. CASE z = o
      BY <1>1, <3>3
    <3>4. CASE z # o
      <4>1. z \in DOMAIN header /\ header'[z] = header[z]
        BY <1>1, <1>5, <3>2, <3>4
      <4>2. After(y) = z
        BY <3>1 DEF After, AfterIn
      <4>3. QED
        BY <2>2, <3>1, <3>2, <4>1, <4>2 DEF Coalesced, Blocks
    <3>5. QED
      BY <3>3, <3>4
  <2>3. CASE y = rest /\ rest \notin Chain
    <3>1. z = After(o)
      BY <1>2, <1>5, <2>3
    <3>2. CASE z = o
      BY <1>1, <3>2
    <3>3. CASE z # o
      <4>1. z \in DOMAIN header /\ header'[z] = header[z] /\ z \in Chain
        BY <1>1, <1>3, <1>5, <3>1, <3>3
      <4>2. QED
        BY <1>3, <3>1, <4>1 DEF Coalesced, Blocks
    <3>4. QED
      BY <3>2, <3>3
  <2>4. QED
    BY <1>2, <1>5, <2>2, <2>3
<1>6. QED
  BY <1>5 DEF Coalesced, Blocks, After, AfterIn

\* A block x that grew and is free has no free block after or before it.
LEMMA FreeMerges ==
  ASSUME Coalesced, NEW x, NEW s, GrownTo(header, header', x, s),
         Chain' \subseteq Chain,
         AfterIn(header', x) # x,
         AfterIn(header', x) \in Chain \cap DOMAIN header =>
           ~header[AfterIn(header', x)].isFree,
         \A q \in Chain \cap DOMAIN header :
           header[q].isFree => After(q) # x
  PROVE  Coalesced'
<1>1. ASSUME NEW y \in Chain', y \in DOMAIN header', header'[y].isFree,
             AfterIn(header', y) \in Chain', AfterIn(header', y) \in DOMAIN header'
      PROVE  ~header'[AfterIn(header', y)].isFree
  <2> DEFINE z == AfterIn(header', y)
  <2>1. z \in Chain /\ z \in DOMAIN header /\ y \in Chain /\ y \in DOMAIN header
    BY <1>1 DEF GrownTo
  <2>2. CASE y = x
    BY <2>1, <2>2 DEF GrownTo
  <2>3. CASE y # x
    <3>1. header[y].isFree /\ z = After(y)
      BY <1>1, <2>1, <2>3 DEF GrownTo, AfterIn, After
    <3>2. z # x /\ ~header[z].isFree
      BY <2>1, <3>1 DEF Coalesced, Blocks
    <3>3. QED
      BY <2>1, <3>2 DEF GrownTo
  <2>4. QED
    BY <2>2, <2>3
<1>2. QED
  BY <1>1 DEF Coalesced, Blocks, After, AfterIn

LEMMA FreeKeepsCoalesced ==
  ASSUME Callable, Tiled, LinksExact, Coalesced, NEW b \in live, Free(b)
  PROVE  Coalesced'
<1> DEFINE o == b.start
           p == header[o].previous
           n == After(o)
<1>1. Inside(header) /\ Inside(header')
  BY FreeRegion DEF Callable, RegionInv, HeadersOK
<1>2. \A y \in Chain \cap DOMAIN header :
        /\ y \in Nat /\ After(y) \in Nat /\ After(y) > y
        /\ After(y) \in Chain /\ After(y) <= ByteNumber
  <2>1. SUFFICES ASSUME NEW y \in Chain \cap DOMAIN header
                 PROVE  /\ y \in Nat /\ After(y) \in Nat /\ After(y) > y
                        /\ After(y) \in Chain /\ After(y) <= ByteNumber
    OBVIOUS
  <2>2. y \in Nat /\ After(y) \in Nat /\ After(y) > y
    BY <1>1, AfterIsLater DEF After, AfterIn
  <2>3. After(y) \in Chain
    BY <1>1, ChainIs, ChainNext DEF After, AfterIn
  <2>4. After(y) \in 0..ByteNumber
    BY <2>3 DEF Callable
  <2>5. QED
    BY <2>2, <2>3, <2>4, RegionIsLongEnough
\* After different blocks come different ones.
<1>3. ASSUME NEW y \in Chain \cap DOMAIN header, NEW z \in Chain \cap DOMAIN header,
             After(y) = After(z)
      PROVE  y = z
  <2>1. /\ y \in Nat /\ z \in Nat
        /\ After(y) \in Nat /\ After(y) > y /\ After(z) > z
    BY <1>2
  <2>2. ~(y < z) /\ ~(z < y)
    BY <1>1, <1>3, <2>1, ChainApart, ChainIs DEF After, AfterIn
  <2>3. QED
    BY <2>1, <2>2
<1>4. LinksHarmless
  <2>1. ASSUME NEW y \in Blocks \ {0}
        PROVE  LET q == header[y].previous
               IN  q \in Blocks /\ q < y /\ (header[q].isFree => After(q) = y)
    BY <1>2 DEF LinksExact, Blocks
  <2>2. QED
    BY <2>1 DEF LinksHarmless
<1>5. /\ o \in Chain /\ o \in DOMAIN header /\ ~header[o].isFree
      /\ p \in DOMAIN header
      /\ header[p].isFree => p \in Chain /\ p < o /\ After(p) = o
      /\ n \in Chain
      /\ HasNext(o) => n \in DOMAIN header
      /\ header' = Freed(o)
  BY <1>4, HeldFacts
<1>6. o # 0 => p \in Chain \cap DOMAIN header /\ After(p) = o
  BY <1>5 DEF LinksExact, Blocks
\* No block before a free one, and none before o if the one before it is in use.
<1>7. ASSUME NEW q \in Chain \cap DOMAIN header, header[q].isFree, ~header[p].isFree
      PROVE  After(q) # o
  <2>1. SUFFICES ASSUME After(q) = o PROVE FALSE
    OBVIOUS
  <2>2. o # 0
    BY <1>2, <1>7, <2>1
  <2>3. q = p
    BY <1>3, <1>6, <1>7, <2>1, <2>2
  <2>4. QED
    BY <1>7, <2>3
<1>8. ASSUME NEW q \in Chain \cap DOMAIN header, header[q].isFree, header[p].isFree
      PROVE  After(q) # p
  BY <1>5, <1>8 DEF Coalesced, Blocks
\* Every block after o is seen as one.
<1>9. n \in DOMAIN header => HasNext(o)
  <2>1. SUFFICES ASSUME n \in DOMAIN header PROVE n < Last
    BY DEF HasNext
  <2>2. /\ n \in Nat /\ header[n].size \in Nat \ {0}
        /\ n + Meta + header[n].size <= ByteNumber
    BY <1>1, <1>2, <1>5, <2>1 DEF Inside, After
  <2>3. QED
    BY <2>2, RegionIsLongEnough DEF Last
<1>10. Chain' \subseteq Chain
  BY <1>4, FreedChain
<1>11. /\ o \in Nat /\ n \in Nat /\ n > o
       /\ n \in DOMAIN header => After(n) \in Nat /\ After(n) > n
       /\ header[p].isFree => p \in Nat /\ p < o
  BY <1>2, <1>5
<1> HIDE DEF o, p, n
<1>12. CASE NextFree(o) /\ header[p].isFree
  <2>1. PICK s : GrownTo(header, header', p, s)
    BY <1>5, <1>12, FreedShape DEF Callable, p, n
  <2>2. AfterIn(header', p) = After(n)
    BY <1>4, <1>12, FreedChain DEF o, p, n
  <2>3. n \in DOMAIN header /\ header[n].isFree
    BY <1>5, <1>12 DEF NextFree, n
  <2>4. After(n) # p
    BY <1>11, <1>12, <2>3
  <2>5. After(n) \in Chain \cap DOMAIN header => ~header[After(n)].isFree
    BY <1>5, <2>3 DEF Coalesced, Blocks
  <2>6. QED
    BY <1>8, <1>10, <1>12, <2>1, <2>2, <2>4, <2>5, FreeMerges
<1>13. CASE NextFree(o) /\ ~header[p].isFree
  <2>1. PICK s : GrownTo(header, header', o, s)
    BY <1>5, <1>13, FreedShape DEF Callable, p, n
  <2>2. AfterIn(header', o) = After(n)
    BY <1>4, <1>13, FreedChain DEF o, p, n
  <2>3. n \in DOMAIN header /\ header[n].isFree
    BY <1>5, <1>13 DEF NextFree, n
  <2>4. After(n) # o
    BY <1>11, <2>3
  <2>5. After(n) \in Chain \cap DOMAIN header => ~header[After(n)].isFree
    BY <1>5, <2>3 DEF Coalesced, Blocks
  <2>6. QED
    BY <1>7, <1>10, <1>13, <2>1, <2>2, <2>4, <2>5, FreeMerges
<1>14. CASE ~NextFree(o) /\ header[p].isFree
  <2>1. PICK s : GrownTo(header, header', p, s)
    BY <1>5, <1>14, FreedShape DEF Callable, p, n
  <2>2. AfterIn(header', p) = n
    BY <1>4, <1>14, FreedChain DEF o, p, n
  <2>3. n # p
    BY <1>11, <1>14
  <2>4. n \in Chain \cap DOMAIN header => ~header[n].isFree
    BY <1>9, <1>14 DEF NextFree, n
  <2>5. QED
    BY <1>8, <1>10, <1>14, <2>1, <2>2, <2>3, <2>4, FreeMerges
<1>15. CASE ~NextFree(o) /\ ~header[p].isFree
  <2>1. PICK s : GrownTo(header, header', o, s)
    BY <1>5, <1>15, FreedShape DEF Callable, p, n
  <2>2. AfterIn(header', o) = n
    BY <1>4, <1>15, FreedChain DEF o, p, n
  <2>3. n # o
    BY <1>11
  <2>4. n \in Chain \cap DOMAIN header => ~header[n].isFree
    BY <1>9, <1>15 DEF NextFree, n
  <2>5. QED
    BY <1>7, <1>10, <1>15, <2>1, <2>2, <2>3, <2>4, FreeMerges
<1>16. QED
  BY <1>12, <1>13, <1>14, <1>15

\* While every previous is exact, pmm_free merges all it can, so that no two free
\* blocks come to lie side by side.
THEOREM ExactLinksKeepCoalesced == Spec => ExactKeepsCoalesced
<1>1. RegionInv /\ [Next]_vars => (Tiled /\ LinksExact /\ Coalesced => Coalesced')
  <2> SUFFICES ASSUME RegionInv, [Next]_vars, Tiled, LinksExact, Coalesced
               PROVE  Coalesced'
    OBVIOUS
  <2>1. CASE UNCHANGED vars
    <3>1. Chain' = Chain
      BY <2>1, ChainIs DEF vars
    <3>2. QED
      BY <2>1, <3>1 DEF vars, Coalesced, Blocks, After
  <2>2. ASSUME Callable, NEW size \in ReqSizes, Malloc(size)
        PROVE  Coalesced'
    BY <2>2, ReserveMerges DEF Malloc
  <2>3. ASSUME Callable, NEW b \in live, Free(b)
        PROVE  Coalesced'
    BY <2>3, FreeKeepsCoalesced
  <2>4. QED
    BY <2>1, <2>2, <2>3 DEF Next, Callable
<1>2. QED
  BY <1>1, RegionAlways, PTL DEF Spec, ExactKeepsCoalesced

\* LinksKeepBlocks: no call of pmm_malloc or pmm_free breaks the tiling while the
\* backward links are harmless, or leaves two free blocks side by side while they
\* are exact.
THEOREM BlocksAreKept == Spec => LinksKeepBlocks
  BY HarmlessLinksKeepTiles, ExactLinksKeepCoalesced DEF LinksKeepBlocks
=============================================================================
