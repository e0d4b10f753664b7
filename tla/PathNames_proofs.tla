-------------------------- MODULE PathNames_proofs --------------------------
(***************************************************************************)
(* Facts about paths, about lists of which a loop keeps a part, and about  *)
(* functions that recursion gives.                                         *)
(***************************************************************************)
EXTENDS PathNames, SequenceTheorems, FiniteSetTheorems, WellFoundedInduction, TLAPS

-----------------------------------------------------------------------------
(* Paths.                                                                  *)

\* The directories on the way to q are the paths that begin it, "/" aside.
LEMMA PrefixIsAncestor ==
  ASSUME NEW S, NEW p \in Seq(S), NEW q \in Seq(S)
  PROVE  p \in Ancestors(q) <=> p # <<>> /\ IsPrefix(p, q)
<1>1. ASSUME p \in Ancestors(q) PROVE p # <<>> /\ IsPrefix(p, q)
  BY <1>1 DEF Ancestors, IsPrefix
<1>2. ASSUME p # <<>>, IsPrefix(p, q) PROVE p \in Ancestors(q)
  BY <1>2 DEF Ancestors, IsPrefix
<1>3. QED
  BY <1>1, <1>2

\* To begin a path that begins a third one is to begin the third.
LEMMA PrefixTransitive ==
  ASSUME NEW S, NEW p \in Seq(S), NEW q \in Seq(S), NEW r \in Seq(S),
         IsPrefix(p, q), IsPrefix(q, r)
  PROVE  IsPrefix(p, r)
BY DEF IsPrefix

\* Of two paths that begin a third, the longer one begins with the shorter.
LEMMA PrefixesNest ==
  ASSUME NEW S, NEW p \in Seq(S), NEW q \in Seq(S), NEW r \in Seq(S),
         IsPrefix(p, r), IsPrefix(q, r), Len(p) <= Len(q)
  PROVE  IsPrefix(p, q)
BY DEF IsPrefix

\* What begins a path and is shorter begins its parent.
LEMMA ShorterBeginsFront ==
  ASSUME NEW S, NEW p \in Seq(S), NEW q \in Seq(S),
         IsPrefix(p, q), Len(p) < Len(q)
  PROVE  IsPrefix(p, Front(q)) /\ Front(q) \in Seq(S)
BY DEF IsPrefix, Front

\* A parent begins its child.
LEMMA FrontIsPrefix ==
  ASSUME NEW S, NEW p \in Seq(S), p # <<>>
  PROVE  /\ Front(p) \in Seq(S) /\ Len(Front(p)) = Len(p) - 1
         /\ IsPrefix(Front(p), p)
<1>1. PICK n \in Nat : Len(p) = n + 1
  <2>1. Len(p) \in Nat /\ Len(p) # 0
    OBVIOUS
  <2>2. Len(p) - 1 \in Nat /\ Len(p) = (Len(p) - 1) + 1
    BY <2>1
  <2>3. QED
    BY <2>2, Zenon
<1>2. /\ Front(p) \in Seq(S) /\ Len(Front(p)) = n
      /\ \A i \in 1..n : Front(p)[i] = p[i]
  <2>1. Front(p) = SubSeq(p, 1, n)
    BY <1>1 DEF Front
  <2>2. \A i \in 1..n : p[i] \in S
    BY <1>1
  <2>3. /\ SubSeq(p, 1, n) \in Seq(S)
        /\ Len(SubSeq(p, 1, n)) = IF 1 <= n THEN n - 1 + 1 ELSE 0
        /\ \A i \in 1..n - 1 + 1 : SubSeq(p, 1, n)[i] = p[1 + i - 1]
    BY <2>2, SubSeqProperties
  <2>4. QED
    BY <2>1, <2>3
<1>3. IsPrefix(Front(p), p)
  BY <1>1, <1>2 DEF IsPrefix
<1>4. QED
  BY <1>1, <1>2, <1>3

\* Two paths of one length that begin the same path are the same.
LEMMA SameLengthPrefixes ==
  ASSUME NEW S, NEW p \in Seq(S), NEW q \in Seq(S), NEW r \in Seq(S),
         IsPrefix(p, r), IsPrefix(q, r), Len(p) = Len(q)
  PROVE  p = q
BY DEF IsPrefix

-----------------------------------------------------------------------------
(* Lists.                                                                  *)

\* A set of natural numbers has a least one: how an induction over numbers is
\* said where the theorems on induction, which take operators, cannot be used.
LEMMA LeastNat ==
  ASSUME NEW T, T \subseteq Nat, T # {}
  PROVE  \E x \in T : \A y \in T : x <= y
<1>1. \E x \in T : \A y \in T : ~(<<y, x>> \in OpToRel(<, Nat))
  BY WFMin, NatLessThanWellFounded, Zenon
<1>2. ASSUME NEW x \in Nat, NEW y \in Nat, ~(<<y, x>> \in OpToRel(<, Nat))
      PROVE  x <= y
  <2>1. ~(y < x)
    BY <1>2, Zenon DEF OpToRel
  <2>2. QED
    BY <2>1, SMT
<1>3. QED
  BY <1>1, <1>2, Zenon

\* The numbers of I up to k.
UpTo(I, k) == {j \in I : j <= k}

\* The count of the numbers of I up to k + 1, when it is n up to k.
CountOn(I, k, n) == IF k + 1 \in I THEN n + 1 ELSE n

\* How the numbers up to k are counted.
LEMMA UpToFacts ==
  ASSUME NEW N \in Nat, NEW I, I \subseteq 1..N
  PROVE  /\ IsFiniteSet(I) /\ Cardinality(I) \in Nat /\ Cardinality(I) <= N
         /\ \A k \in Nat : /\ IsFiniteSet(UpTo(I, k))
                           /\ Cardinality(UpTo(I, k)) \in Nat
                           /\ Cardinality(UpTo(I, k)) <= Cardinality(I)
         /\ UpTo(I, N) = I /\ UpTo(I, 0) = {}
         /\ \A k \in Nat : Cardinality(UpTo(I, k + 1)) =
              CountOn(I, k, Cardinality(UpTo(I, k)))
         /\ \A k, m \in Nat : k <= m =>
              Cardinality(UpTo(I, k)) <= Cardinality(UpTo(I, m))
         /\ \A k \in Nat, m \in I : k < m =>
              Cardinality(UpTo(I, k)) < Cardinality(UpTo(I, m))
<1>1. IsFiniteSet(1..N) /\ Cardinality(1..N) = N
  BY FS_Interval
<1>2. IsFiniteSet(I) /\ Cardinality(I) \in Nat /\ Cardinality(I) <= N
  BY <1>1, FS_Subset, FS_CardinalityType
<1>3. \A k : UpTo(I, k) \in SUBSET I
  BY DEF UpTo
<1>4. \A k \in Nat : /\ IsFiniteSet(UpTo(I, k))
                     /\ Cardinality(UpTo(I, k)) \in Nat
                     /\ Cardinality(UpTo(I, k)) <= Cardinality(I)
  BY <1>2, <1>3, FS_Subset, FS_CardinalityType
<1>5. UpTo(I, N) = I /\ UpTo(I, 0) = {}
  <2>1. \A j \in I : j \in Nat /\ j <= N /\ ~(j <= 0)
    OBVIOUS
  <2>2. QED
    BY <2>1, Zenon DEF UpTo
<1>6. ASSUME NEW k \in Nat
      PROVE  Cardinality(UpTo(I, k + 1)) =
              CountOn(I, k, Cardinality(UpTo(I, k)))
  <2>0. /\ \A j \in I : j <= k + 1 <=> j <= k \/ j = k + 1
        /\ ~(k + 1 <= k) /\ k + 1 <= k + 1
    <3>1. \A j \in I : j \in Nat
      OBVIOUS
    <3>2. QED
      BY <3>1
  <2>1. CASE k + 1 \in I
    <3>1. UpTo(I, k + 1) = UpTo(I, k) \cup {k + 1} /\ k + 1 \notin UpTo(I, k)
      BY <2>0, <2>1, Zenon DEF UpTo
    <3>2. QED
      BY <1>4, <2>1, <3>1, FS_AddElement DEF CountOn
  <2>2. CASE k + 1 \notin I
    <3>1. UpTo(I, k + 1) = UpTo(I, k)
      BY <2>0, <2>2, Zenon DEF UpTo
    <3>2. QED
      BY <2>2, <3>1 DEF CountOn
  <2>3. QED
    BY <2>1, <2>2
<1>7. ASSUME NEW k \in Nat, NEW m \in Nat, k <= m
      PROVE  UpTo(I, k) \in SUBSET UpTo(I, m)
  <2>1. \A j \in I : j \in Nat
    OBVIOUS
  <2>2. \A j \in I : j <= k => j <= m
    BY <1>7, <2>1
  <2>3. QED
    BY <2>2, Zenon DEF UpTo
<1>8. ASSUME NEW k \in Nat, NEW m \in Nat, k <= m
      PROVE  Cardinality(UpTo(I, k)) <= Cardinality(UpTo(I, m))
  BY <1>4, <1>7, <1>8, FS_Subset
<1>9. ASSUME NEW k \in Nat, NEW m \in I, k < m
      PROVE  Cardinality(UpTo(I, k)) < Cardinality(UpTo(I, m))
  <2>1. m - 1 \in Nat /\ k <= m - 1 /\ (m - 1) + 1 = m /\ m \in Nat
    BY <1>9
  <2>2. Cardinality(UpTo(I, m)) = Cardinality(UpTo(I, m - 1)) + 1
    BY <1>6, <2>1 DEF CountOn
  <2>3. Cardinality(UpTo(I, k)) <= Cardinality(UpTo(I, m - 1))
    BY <1>8, <2>1
  <2>4. QED
    BY <1>4, <2>1, <2>2, <2>3
<1>10. QED
  BY <1>2, <1>4, <1>5, <1>6, <1>8, <1>9

\* Ascending lists the numbers of a set, each once and in order.
LEMMA AscendingFacts ==
  ASSUME NEW N \in Nat, NEW I, I \subseteq 1..N
  PROVE  /\ Cardinality(I) \in Nat /\ Cardinality(I) <= N
         /\ Ascending(I) \in [1..Cardinality(I) -> I]
         /\ \A n \in 1..Cardinality(I) :
              Cardinality(UpTo(I, Ascending(I)[n])) = n
         /\ \A m, n \in 1..Cardinality(I) :
              m < n => Ascending(I)[m] < Ascending(I)[n]
         /\ \A i \in I : \E n \in 1..Cardinality(I) : Ascending(I)[n] = i
<1> DEFINE C == Cardinality(I)
           count == [k \in Nat |-> Cardinality(UpTo(I, k))]
<1>1. /\ C \in Nat /\ C <= N
      /\ \A k \in Nat : count[k] \in Nat /\ count[k] <= C
      /\ count[N] = C /\ count[0] = 0
      /\ \A k \in Nat : count[k + 1] = CountOn(I, k, count[k])
      /\ \A k, m \in Nat : k <= m => count[k] <= count[m]
      /\ \A k \in Nat, m \in I : k < m => count[k] < count[m]
  <2>1. \A k \in Nat : count[k] = Cardinality(UpTo(I, k))
    OBVIOUS
  <2>2. \A k \in Nat : k + 1 \in Nat
    OBVIOUS
  <2>3. \A m \in I : m \in Nat
    OBVIOUS
  <2> HIDE DEF count
  <2>4. 0 \in Nat /\ Cardinality({}) = 0
    BY FS_EmptySet
  <2>5. C \in Nat /\ C <= N
    BY UpToFacts
  <2>6. ASSUME NEW k \in Nat
        PROVE  count[k] \in Nat /\ count[k] <= C
    <3>1. /\ Cardinality(UpTo(I, k)) \in Nat
          /\ Cardinality(UpTo(I, k)) <= Cardinality(I)
      BY UpToFacts
    <3>2. QED
      BY <2>1, <3>1
  <2>7. count[N] = C /\ count[0] = 0
    <3>1. UpTo(I, N) = I /\ UpTo(I, 0) = {}
      BY UpToFacts
    <3>2. QED
      BY <2>1, <2>4, <3>1
  <2>8. ASSUME NEW k \in Nat
        PROVE  count[k + 1] = CountOn(I, k, count[k])
    <3>1. Cardinality(UpTo(I, k + 1)) = CountOn(I, k, Cardinality(UpTo(I, k)))
      BY UpToFacts
    <3>2. QED
      BY <2>1, <2>2, <3>1
  <2>9. ASSUME NEW k \in Nat, NEW m \in Nat, k <= m
        PROVE  count[k] <= count[m]
    <3>1. Cardinality(UpTo(I, k)) <= Cardinality(UpTo(I, m))
      BY <2>9, UpToFacts
    <3>2. QED
      BY <2>1, <3>1
  <2>10. ASSUME NEW k \in Nat, NEW m \in I, k < m
         PROVE  count[k] < count[m]
    <3>1. Cardinality(UpTo(I, k)) < Cardinality(UpTo(I, m))
      BY <2>10, UpToFacts
    <3>2. QED
      BY <2>1, <2>3, <3>1
  <2>11. QED
    BY <2>5, <2>6, <2>7, <2>8, <2>9, <2>10
<1>2. \A n \in 1..C : Ascending(I)[n] = CHOOSE i \in I : count[i] = n
  <2>1. \A i \in I : count[i] = Cardinality({j \in I : j <= i})
    <3>1. \A i \in I : i \in Nat
      OBVIOUS
    <3>2. QED
      BY <3>1 DEF UpTo
  <2> HIDE DEF count
  <2>2. \A n \in 1..C : Ascending(I)[n] =
          CHOOSE i \in I : Cardinality({j \in I : j <= i}) = n
    BY DEF Ascending
  <2>3. QED
    BY <2>1, <2>2
<1>3. DOMAIN Ascending(I) = 1..C /\ Ascending(I) = [n \in 1..C |-> Ascending(I)[n]]
  BY DEF Ascending
<1>4. I \subseteq Nat \ {0}
  OBVIOUS
<1> HIDE DEF C, count
<1>5. ASSUME NEW n \in 1..C
      PROVE  \E i \in I : count[i] = n
  <2> DEFINE T == {k \in Nat : count[k] >= n}
  <2>1. N \in T /\ T \subseteq Nat
    BY <1>1
  <2> HIDE DEF T
  <2>2. PICK k \in T : \A y \in T : k <= y
    BY <2>1, LeastNat
  <2>3. k \in Nat /\ count[k] >= n
    BY DEF T
  <2>4. k # 0
    BY <1>1, <2>3
  <2>5. PICK m \in Nat : k = m + 1
    BY <2>3, <2>4
  <2>6. count[m] < n
    <3>1. m \notin T
      BY <2>2, <2>5
    <3>2. QED
      BY <1>1, <3>1 DEF T
  <2>7. k \in I /\ count[k] = n
    <3>1. n \in Nat /\ count[m] \in Nat /\ count[k] \in Nat
      BY <1>1, <2>3
    <3>2. count[k] = IF k \in I THEN count[m] + 1 ELSE count[m]
      BY <1>1, <2>5 DEF CountOn
    <3>3. k \in I
      BY <2>3, <2>6, <3>1, <3>2
    <3>4. QED
      BY <2>3, <2>6, <3>1, <3>2, <3>3
  <2>8. QED
    BY <2>7
<1>6. \A n \in 1..C : Ascending(I)[n] \in I /\ count[Ascending(I)[n]] = n
  BY <1>2, <1>5
<1>7. Ascending(I) \in [1..C -> I]
  BY <1>3, <1>6
<1>8. ASSUME NEW m \in 1..C, NEW n \in 1..C, m < n
      PROVE  Ascending(I)[m] < Ascending(I)[n]
  <2>1. PICK a \in Nat : a = Ascending(I)[m] /\ count[a] = m
    BY <1>4, <1>6
  <2>2. PICK b \in Nat : b = Ascending(I)[n] /\ count[b] = n
    BY <1>4, <1>6
  <2>3. ~(b <= a)
    BY <1>1, <1>8, <2>1, <2>2
  <2>4. QED
    BY <2>1, <2>2, <2>3
<1>9. ASSUME NEW i \in I
      PROVE  \E n \in 1..C : Ascending(I)[n] = i
  <2>1. i \in Nat /\ 0 < i
    BY <1>4
  <2>2. count[i] \in 1..C
    BY <1>1, <2>1
  <2>3. PICK a \in I : a = Ascending(I)[count[i]] /\ count[a] = count[i]
    BY <1>6, <2>2
  <2>4. a = i
    <3>1. a \in Nat /\ count[a] \in Nat /\ count[i] = count[a]
      BY <1>1, <1>4, <2>3, Zenon
    <3>2. \/ ~(a < i) \/ count[a] < count[i]
      BY <1>1, <3>1, Zenon
    <3>3. \/ ~(i < a) \/ count[i] < count[a]
      BY <1>1, <2>1, Zenon
    <3> HIDE DEF count
    <3>4. QED
      BY <2>1, <3>1, <3>2, <3>3, SMT
  <2>5. QED
    BY <2>2, <2>3, <2>4
<1>10. QED
  <2>1. \A n \in 1..C : Cardinality(UpTo(I, Ascending(I)[n])) = n
    BY <1>4, <1>6 DEF count
  <2>2. QED
    BY <1>1, <1>7, <1>8, <1>9, <2>1 DEF C

\* Where the elements of a kept list were.
Embeds(e, n, I) ==
  /\ e \in [1..n -> I]
  /\ \A k, m \in 1..n : k < m => e[k] < e[m]
  /\ \A i \in I : \E m \in 1..n : e[m] = i

\* A kept list has the elements at the positions kept, in order.
LEMMA KeepFacts ==
  ASSUME NEW T, NEW list \in Seq(T), NEW I, I \subseteq DOMAIN list
  PROVE  /\ Keep(list, I) \in Seq(T)
         /\ Len(Keep(list, I)) = Cardinality(I)
         /\ DOMAIN Keep(list, I) = 1..Cardinality(I)
         /\ \E e : /\ Embeds(e, Cardinality(I), I)
                   /\ \A m \in 1..Cardinality(I) : Keep(list, I)[m] = list[e[m]]
<1>1. Len(list) \in Nat /\ DOMAIN list = 1..Len(list) /\ I \subseteq 1..Len(list)
  OBVIOUS
<1> DEFINE C == Cardinality(I)
           e == Ascending(I)
<1>2. C \in Nat /\ Embeds(e, C, I) /\ DOMAIN e = 1..C
  BY <1>1, AscendingFacts DEF Embeds
<1>3. Keep(list, I) = [m \in 1..C |-> list[e[m]]]
  BY <1>2 DEF Keep
<1> HIDE DEF C, e
<1>4. \A m \in 1..C : list[e[m]] \in T
  BY <1>1, <1>2 DEF Embeds
<1>5. Keep(list, I) \in [1..C -> T]
  BY <1>3, <1>4
<1>6. Keep(list, I) \in Seq(T) /\ Len(Keep(list, I)) = C
  BY <1>2, <1>5
<1>7. QED
  BY <1>2, <1>3, <1>6 DEF C, e

\* What is kept of a list without repetitions has none, and what was at the
\* positions kept.
LEMMA KeptList ==
  ASSUME NEW T, NEW list \in Seq(T), IsInjective(list), NEW I, I \subseteq DOMAIN list
  PROVE  /\ Keep(list, I) \in Seq(T) /\ IsInjective(Keep(list, I))
         /\ Range(Keep(list, I)) = {list[i] : i \in I}
<1> DEFINE l == Keep(list, I)
           n == Cardinality(I)
<1>1. PICK e : /\ Embeds(e, n, I)
               /\ \A m \in 1..n : l[m] = list[e[m]]
  BY KeepFacts
<1>2. l \in Seq(T) /\ DOMAIN l = 1..n
  BY KeepFacts
<1> HIDE DEF l, n
<1>3. /\ e \in [1..n -> I]
      /\ \A k, m \in 1..n : k < m => e[k] < e[m]
      /\ \A i \in I : \E m \in 1..n : e[m] = i
  BY <1>1 DEF Embeds
<1>4. \A i \in I : i \in Nat
  OBVIOUS
<1>5. \A m \in 1..n : m \in Int
  OBVIOUS
<1>6. ASSUME NEW k \in 1..n, NEW m \in 1..n, l[k] = l[m]
      PROVE  k = m
  <2>1. list[e[k]] = list[e[m]] /\ e[k] \in I /\ e[m] \in I
    BY <1>1, <1>3, <1>6
  <2>2. e[k] = e[m]
    BY <2>1 DEF IsInjective
  <2>3. ~(k < m) /\ ~(m < k)
    BY <1>3, <1>4, <2>2
  <2>4. QED
    BY <1>5, <2>3
<1>7. Range(l) = {list[i] : i \in I}
  BY <1>1, <1>2, <1>3 DEF Range
<1>8. QED
  BY <1>2, <1>6, <1>7 DEF IsInjective, l

\* Two lists, one behind the other.
LEMMA ConcatIs ==
  ASSUME NEW T, NEW s \in Seq(T), NEW t \in Seq(T)
  PROVE  /\ s \o t \in Seq(T) /\ DOMAIN (s \o t) = 1..(Len(s) + Len(t))
         /\ Len(s) \in Nat /\ Len(t) \in Nat /\ DOMAIN t = 1..Len(t)
         /\ \A n \in 1..Len(s) : (s \o t)[n] = s[n]
         /\ \A n \in (Len(s) + 1)..(Len(s) + Len(t)) : (s \o t)[n] = t[n - Len(s)]
OBVIOUS

\* A copy of a list without some entries.
LEMMA WithoutFacts ==
  ASSUME NEW T, NEW list \in Seq(T), IsInjective(list), NEW gone
  PROVE  /\ Without(list, gone) \in Seq(T) /\ IsInjective(Without(list, gone))
         /\ Range(Without(list, gone)) = Range(list) \ gone
<1> DEFINE I == {i \in DOMAIN list : list[i] \notin gone}
<1>1. Without(list, gone) = Keep(list, I)
  BY DEF Without
<1>2. {list[i] : i \in I} = Range(list) \ gone
  BY DEF Range
<1>3. I \subseteq DOMAIN list
  OBVIOUS
<1> HIDE DEF I
<1>4. QED
  BY <1>1, <1>2, <1>3, KeptList

\* A list without repetitions, and at its end what it does not hold.
LEMMA AppendToList ==
  ASSUME NEW T, NEW list \in Seq(T), NEW p \in T, IsInjective(list), p \notin Range(list)
  PROVE  /\ IsInjective(Append(list, p))
         /\ Range(Append(list, p)) = Range(list) \cup {p}
<1> DEFINE l == Append(list, p)
           n == Len(list)
<1>1. n \in Nat /\ DOMAIN list = 1..n /\ DOMAIN l = 1..n + 1
      /\ l[n + 1] = p /\ \A i \in 1..n : l[i] = list[i]
  OBVIOUS
<1> HIDE DEF l, n
<1>2. \A i \in 1..n : list[i] # p
  BY <1>1 DEF Range
<1>3. \A i, j \in 1..n : list[i] = list[j] => i = j
  BY <1>1 DEF IsInjective
<1>4. ASSUME NEW i \in 1..n + 1, NEW j \in 1..n + 1, l[i] = l[j]
      PROVE  i = j
  BY <1>1, <1>2, <1>3, <1>4
<1>5. Range(l) = Range(list) \cup {p}
  <2>1. \A i \in 1..n + 1 : i \in 1..n \/ i = n + 1
    BY <1>1
  <2>2. \A i \in 1..n : i \in 1..n + 1
    BY <1>1
  <2>3. n + 1 \in 1..n + 1
    BY <1>1
  <2>4. QED
    BY <1>1, <2>1, <2>2, <2>3 DEF Range
<1>6. QED
  BY <1>1, <1>4, <1>5 DEF IsInjective, l

LEMMA IntervalSize ==
  ASSUME NEW N \in Nat
  PROVE  IsFiniteSet(1..N) /\ Cardinality(1..N) = N
BY FS_Interval

\* All the numbers up to N are the N-th, each at its place.
LEMMA AscendingAll ==
  ASSUME NEW N \in Nat, NEW I, I = 1..N, NEW n \in 1..N
  PROVE  Ascending(I)[n] = n
<1>1. Cardinality(I) = N
  BY IntervalSize
<1>2. Ascending(I)[n] \in 1..N /\ Cardinality(UpTo(I, Ascending(I)[n])) = n
  <2>1. I \subseteq 1..N
    OBVIOUS
  <2>2. /\ Ascending(I) \in [1..Cardinality(I) -> I]
        /\ \A m \in 1..Cardinality(I) :
             Cardinality(UpTo(I, Ascending(I)[m])) = m
    BY <2>1, AscendingFacts, Zenon
  <2>3. QED
    BY <1>1, <2>2, Zenon
<1>3. PICK a \in 1..N : a = Ascending(I)[n] /\ Cardinality(UpTo(I, a)) = n
  BY <1>2
<1>4. UpTo(I, a) = 1..a
  BY DEF UpTo
<1>5. a \in Nat
  OBVIOUS
<1>6. QED
  BY <1>3, <1>4, <1>5, IntervalSize

\* A list that is not shorter afterwards has been kept whole.
LEMMA KeepAll ==
  ASSUME NEW T, NEW list \in Seq(T), NEW I, I \subseteq DOMAIN list,
         Len(Keep(list, I)) = Len(list)
  PROVE  I = DOMAIN list /\ Keep(list, I) = list
<1>1. PICK N \in Nat : N = Len(list) /\ DOMAIN list = 1..N
  OBVIOUS
<1>2. Cardinality(I) = N
  BY <1>1, KeepFacts
<1>3. I = 1..N
  <2>1. IsFiniteSet(1..N) /\ Cardinality(1..N) = N
    BY IntervalSize, Zenon
  <2>2. I \in SUBSET (1..N)
    BY <1>1
  <2>3. QED
    BY <1>2, <2>1, <2>2, FS_Subset
<1>5. \A n \in 1..N : Ascending(I)[n] = n
  BY <1>3, AscendingAll, Zenon
<1>6. Keep(list, I) = [n \in 1..N |-> list[Ascending(I)[n]]]
  BY <1>2 DEF Keep, Ascending
<1>7. Keep(list, I) = [n \in 1..N |-> list[n]]
  BY <1>5, <1>6
<1>8. QED
  BY <1>1, <1>3, <1>7

-----------------------------------------------------------------------------
(* Recursive functions.                                                    *)

\* Induction over the numbers up to L.
LEMMA UpToInduction ==
  ASSUME NEW L \in Nat, NEW U, 0 \in U, \A n \in 1..L : n - 1 \in U => n \in U
  PROVE  0..L \subseteq U
<1> DEFINE T == (0..L) \ U
<1>1. SUFFICES ASSUME T # {} PROVE FALSE
  OBVIOUS
<1>2. PICK n \in T : \A m \in T : n <= m
  <2>1. T \subseteq Nat
    OBVIOUS
  <2> HIDE DEF T
  <2>2. QED
    BY <1>1, <2>1, LeastNat
<1>3. n \in 1..L /\ n - 1 \in 0..L
  OBVIOUS
<1>4. n - 1 \notin T
  BY <1>2, <1>3
<1>5. QED
  BY <1>3, <1>4

\* A function that is given by recursion over 0..L.
IsRecursive(g, L, s0, F) ==
  g = [n \in 0..L |-> IF n = 0 THEN s0 ELSE F[<<n, g[n - 1]>>]]

LEMMA Recursion ==
  ASSUME NEW L \in Nat, NEW s0, NEW F
  PROVE  \E g : IsRecursive(g, L, s0, F)
<1> DEFINE Upto(h, m) == /\ h = [n \in 0..m |-> h[n]]
                         /\ h[0] = s0
                         /\ \A n \in 1..m : h[n] = F[<<n, h[n - 1]>>]
           U == {m \in 0..L : \E h : Upto(h, m)}
<1>1. 0 \in U
  <2> DEFINE h == [n \in 0..0 |-> s0]
  <2>1. h = [n \in 0..0 |-> h[n]] /\ h[0] = s0 /\ \A n \in 1..0 : FALSE
    OBVIOUS
  <2> HIDE DEF h
  <2>2. Upto(h, 0)
    BY <2>1
  <2>3. QED
    BY <2>2
<1>2. ASSUME NEW m \in 1..L, m - 1 \in U PROVE m \in U
  <2>1. PICK h : Upto(h, m - 1)
    BY <1>2
  <2> DEFINE k == [n \in 0..m |-> IF n = m THEN F[<<m, h[m - 1]>>] ELSE h[n]]
  <2>2. k = [n \in 0..m |-> k[n]]
    OBVIOUS
  <2>3. k[m] = F[<<m, h[m - 1]>>] /\ \A n \in 0..(m - 1) : k[n] = h[n]
    OBVIOUS
  <2> HIDE DEF k
  <2>4. k[0] = s0
    BY <2>1, <2>3
  <2>5. ASSUME NEW n \in 1..m PROVE k[n] = F[<<n, k[n - 1]>>]
    <3>1. n - 1 \in 0..(m - 1) /\ k[n - 1] = h[n - 1]
      BY <2>3
    <3>2. CASE n = m
      BY <2>3, <3>1, <3>2
    <3>3. CASE n # m
      <4>1. n \in 1..(m - 1) /\ n \in 0..(m - 1)
        BY <3>3
      <4>2. QED
        BY <2>1, <2>3, <3>1, <4>1
    <3>4. QED
      BY <3>2, <3>3
  <2>6. Upto(k, m)
    BY <2>2, <2>4, <2>5
  <2> HIDE DEF Upto
  <2>7. QED
    BY <2>6
<1>3. 0..L \subseteq U
  <2> HIDE DEF U
  <2>1. QED
    BY <1>1, <1>2, UpToInduction
<1>4. PICK g : Upto(g, L)
  BY <1>3
<1>5. g = [n \in 0..L |-> IF n = 0 THEN s0 ELSE F[<<n, g[n - 1]>>]]
  <2> DEFINE k == [n \in 0..L |-> IF n = 0 THEN s0 ELSE F[<<n, g[n - 1]>>]]
  <2>1. ASSUME NEW n \in 0..L PROVE g[n] = k[n]
    <3>1. CASE n = 0
      BY <1>4, <3>1
    <3>2. CASE n # 0
      <4>1. n \in 1..L
        BY <3>2
      <4>2. QED
        BY <1>4, <3>2, <4>1
    <3>3. QED
      BY <3>1, <3>2
  <2>2. g = [n \in 0..L |-> g[n]]
    BY <1>4
  <2>3. QED
    BY <2>1, <2>2
<1>6. QED
  BY <1>5 DEF IsRecursive

\* What a recursion keeps: G holds pairs of a number and a value.
LEMMA RecursionKeeps ==
  ASSUME NEW L \in Nat, NEW s0, NEW F, NEW g, IsRecursive(g, L, s0, F),
         NEW G, <<0, s0>> \in G,
         \A n \in 1..L : \A s : <<n - 1, s>> \in G => <<n, F[<<n, s>>]>> \in G
  PROVE  \A n \in 0..L : <<n, g[n]>> \in G
<1> DEFINE U == {n \in 0..L : <<n, g[n]>> \in G}
<1>1. g[0] = s0 /\ \A n \in 1..L : g[n] = F[<<n, g[n - 1]>>]
  <2>1. \A n \in 0..L : g[n] = IF n = 0 THEN s0 ELSE F[<<n, g[n - 1]>>]
    BY DEF IsRecursive
  <2>2. 0 \in 0..L /\ \A n \in 1..L : n \in 0..L /\ n # 0
    OBVIOUS
  <2>3. QED
    BY <2>1, <2>2
<1>2. 0 \in U
  BY <1>1
<1>3. ASSUME NEW n \in 1..L, n - 1 \in U PROVE n \in U
  <2>1. <<n - 1, g[n - 1]>> \in G /\ n \in 0..L
    BY <1>3
  <2>2. <<n, F[<<n, g[n - 1]>>]>> \in G
    BY <2>1
  <2>3. QED
    BY <1>1, <2>1, <2>2
<1> HIDE DEF U
<1>4. 0..L \subseteq U
  BY <1>2, <1>3, UpToInduction
<1>5. QED
  BY <1>4 DEF U
=============================================================================
