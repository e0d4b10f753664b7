------------------------ MODULE FilesystemTree_proofs ------------------------
(***************************************************************************)
(* FilesystemTree: the invariants of the tree in shared memory, of the     *)
(* daemon's stack and of what its listener knows.                          *)
(***************************************************************************)
EXTENDS FilesystemTree, PathNames_proofs

Names == Range(Order)
Places == Paths \cup {<<>>}
DirectoryEntry == [dir |-> TRUE, perms |-> "open", data |-> "none"]

Listens(b) == b.path # <<>> /\ ~b.mark

\* The nodes in use form a tree: at tells the node of each of the paths N, of which
\* all but the root lie in a directory of the tree.  A node's list of children names
\* those below it, once each.  What is in use elsewhere was lost: files.
TreeOf(ns, N, at) ==
  /\ ns \in [Id -> Node \cup {Free}]
  /\ N \subseteq Places /\ <<>> \in N
  /\ at \in [N -> Id] /\ at[<<>>] = Root
  /\ \A p, q \in N : at[p] = at[q] => p = q
  /\ \A p \in N : ns[at[p]] \in Node /\ IsInjective(ns[at[p]].children)
  /\ \A p \in N \ {<<>>} : /\ Front(p) \in N
                           /\ ns[at[p]].name = Last(p)
                           /\ ns[at[Front(p)]].entry.dir
                           /\ at[p] \in Range(ns[at[Front(p)]].children)
  /\ \A p \in N : \A i \in Range(ns[at[p]].children) :
       \E q \in N \ {<<>>} : i = at[q] /\ Front(q) = p
  /\ \A i \in Id : ns[i] # Free /\ (\A p \in N : at[p] # i) =>
       ~ns[i].entry.dir /\ ns[i].children = <<>>

\* The marked node is that of the path the server is told of, and only below it are
\* there nodes for files.
MarksAre(ns, N, at, b) ==
  /\ Listens(b) => b.path \in N /\ ns[at[b.path]].entry.dir
  /\ \A p \in N : ns[at[p]].monitored <=> Listens(b) /\ p = b.path
  /\ \A p \in N : ns[at[p]].entry.dir \/ (Listens(b) /\ IsStrictPrefix(b.path, p))

\* The calls still to be made are for directories of the tree of which none lies in
\* another, below the server's path or not as they say.
CallIs(ns, N, at, b, c) ==
  /\ c.path \in N /\ c.node = at[c.path] /\ ns[c.node].entry.dir
  /\ c.monitored <=> Listens(b) /\ IsStrictPrefix(b.path, c.path)
  /\ c.check => ~c.monitored /\ c.path # <<>> /\ c.father = at[Front(c.path)]

CallsAre(ns, N, at, b, calls) ==
  /\ \A n \in DOMAIN calls : CallIs(ns, N, at, b, calls[n])
  /\ \A m, n \in DOMAIN calls : IsPrefix(calls[m].path, calls[n].path) => m = n

\* The listener knows the entries of the nodes below its path.
Entries(ns, N, at, p) ==
  {Known(q, ns[at[q]].entry) : q \in {r \in N : IsStrictPrefix(p, r)}}

\* The nodes in directory d are its entries.
ExactIn(ns, N, at, d) ==
  \A q \in Paths : Front(q) = d =>
    /\ q \in N <=> disk[q] # NoEntry
    /\ q \in N => ns[at[q]].entry = disk[q]

\* The directories at or below the server's path that the calls still to be made
\* will not come to have been compared.
Compared(ns, N, at, b, calls) ==
  \A d \in N :
    /\ ns[at[d]].entry.dir /\ IsPrefix(b.path, d) /\ Readable(d)
    /\ \A n \in DOMAIN calls : ~IsPrefix(calls[n].path, d)
    => ExactIn(ns, N, at, d)

DiskIsClosed ==
  \A p \in Paths : disk[p] # NoEntry /\ Len(p) > 1 => disk[Front(p)].dir

Inv(N, at) ==
  /\ TreeOf(nodes, N, at)
  /\ MarksAre(nodes, N, at, bucket)
  /\ CallsAre(nodes, N, at, bucket, todo)
  /\ Listens(bucket) => view = Entries(nodes, N, at, bucket.path)
  /\ quiet /\ Listens(bucket) => Compared(nodes, N, at, bucket, todo)

-----------------------------------------------------------------------------
(* Paths and records.                                                      *)

\* What stands for no entry is not an entry, and a free block is not a node.
LEMMA NoEntryIsNone == NoEntry \notin Entry
BY DEF NoEntry, Entry

LEMMA FreeIsNoNode == Free \notin Node
<1>1. SUFFICES ASSUME Free \in Node PROVE FALSE
  OBVIOUS
<1>2. DOMAIN Free = {"name"} /\ "entry" \in DOMAIN Free
  BY <1>1 DEF Free, Node
<1>3. QED
  BY <1>2

\* A path is its parent with a name behind it.
LEMMA PlaceFacts ==
  /\ Places \subseteq Seq(Names) /\ <<>> \notin Paths
  /\ \A p \in Paths : /\ p # <<>> /\ Len(p) \in Nat \ {0}
                      /\ Front(p) \in Places /\ Len(Front(p)) = Len(p) - 1
                      /\ Last(p) \in Names
                      /\ Append(Front(p), Last(p)) = p
<1>1. Places \subseteq Seq(Names) /\ <<>> \notin Paths
  <2>1. Paths \subseteq Seq(Names)
    BY OrderHasNames, Zenon DEF Names
  <2>2. <<>> \notin Paths
    BY PathsAreClosed
  <2>3. <<>> \in Seq(Names)
    OBVIOUS
  <2>4. QED
    BY <2>1, <2>2, <2>3 DEF Places
<1>2. SUFFICES ASSUME NEW p \in Paths
               PROVE  /\ p # <<>> /\ Len(p) \in Nat \ {0}
                      /\ Front(p) \in Places /\ Len(Front(p)) = Len(p) - 1
                      /\ Last(p) \in Names
                      /\ Append(Front(p), Last(p)) = p
  BY <1>1
<1>3. p \in Seq(Names) /\ p # <<>>
  BY <1>1 DEF Places
<1>4. Len(p) \in Nat \ {0} /\ Last(p) \in Names
  BY <1>3 DEF Last
<1>5. Front(p) \in Seq(Names) /\ Len(Front(p)) = Len(p) - 1
  BY <1>3, FrontIsPrefix
<1>6. Append(Front(p), Last(p)) = p
  <2>1. \A n \in 1..(Len(p) - 1) : Front(p)[n] = p[n]
    BY <1>3, <1>4 DEF Front
  <2>2. QED
    BY <1>3, <1>4, <1>5, <2>1 DEF Last
<1>7. Front(p) \in Places
  <2>1. CASE Len(p) > 1
    BY <2>1, PathsAreClosed DEF Places
  <2>2. CASE Len(p) = 1
    BY <2>2, <1>5 DEF Places
  <2>3. QED
    BY <1>4, <2>1, <2>2
<1>8. QED
  BY <1>3, <1>4, <1>5, <1>6, <1>7

LEMMA ChildPath ==
  ASSUME NEW p \in Seq(Names), NEW n \in Names
  PROVE  /\ Append(p, n) \in Seq(Names) /\ Append(p, n) # <<>>
         /\ Front(Append(p, n)) = p /\ Last(Append(p, n)) = n
         /\ IsPrefix(p, Append(p, n)) /\ IsStrictPrefix(p, Append(p, n))
<1> DEFINE q == Append(p, n)
<1>1. q \in Seq(Names) /\ q # <<>> /\ Len(q) = Len(p) + 1 /\ q[Len(q)] = n
      /\ \A i \in 1..Len(p) : q[i] = p[i]
  OBVIOUS
<1>2. Last(q) = n
  BY <1>1 DEF Last
<1>3. Front(q) \in Seq(Names) /\ Len(Front(q)) = Len(p)
      /\ \A i \in 1..Len(p) : Front(q)[i] = p[i]
  BY <1>1 DEF Front
<1>4. Front(q) = p
  BY <1>3
<1>5. IsPrefix(p, q)
  BY <1>1, <1>4, FrontIsPrefix
<1>6. p # q
  BY <1>1
<1>7. QED
  BY <1>1, <1>2, <1>4, <1>5, <1>6 DEF IsStrictPrefix

\* What begins a path begins its parent, or is the path.
LEMMA PrefixOfChild ==
  ASSUME NEW p \in Seq(Names), NEW q \in Seq(Names), q # <<>>
  PROVE  IsPrefix(p, q) <=> p = q \/ IsPrefix(p, Front(q))
<1>1. Front(q) \in Seq(Names) /\ Len(Front(q)) = Len(q) - 1 /\ IsPrefix(Front(q), q)
  BY FrontIsPrefix
<1>2. ASSUME IsPrefix(p, q), Len(p) < Len(q) PROVE IsPrefix(p, Front(q))
  BY <1>2, ShorterBeginsFront
<1>3. ASSUME IsPrefix(p, q), ~(Len(p) < Len(q)) PROVE p = q
  BY <1>3 DEF IsPrefix
<1>4. ASSUME IsPrefix(p, Front(q)) PROVE IsPrefix(p, q)
  BY <1>1, <1>4, PrefixTransitive
<1>5. IsPrefix(q, q)
  BY DEF IsPrefix
<1>6. QED
  BY <1>2, <1>3, <1>4, <1>5

\* The path of length n on the way to p.
LEMMA WayFacts ==
  ASSUME NEW p \in Seq(Names), NEW n \in 1..Len(p)
  PROVE  /\ SubSeq(p, 1, n) \in Seq(Names) /\ SubSeq(p, 1, n) # <<>>
         /\ Len(SubSeq(p, 1, n)) = n
         /\ Front(SubSeq(p, 1, n)) = SubSeq(p, 1, n - 1)
         /\ Last(SubSeq(p, 1, n)) = p[n] /\ p[n] \in Names
         /\ IsPrefix(SubSeq(p, 1, n), p)
<1> DEFINE q == SubSeq(p, 1, n)
           r == SubSeq(p, 1, n - 1)
<1>1. q \in Seq(Names) /\ Len(q) = n /\ \A i \in 1..n : q[i] = p[i]
  OBVIOUS
<1>2. r \in Seq(Names) /\ Len(r) = n - 1 /\ \A i \in 1..(n - 1) : r[i] = p[i]
  OBVIOUS
<1>3. Front(q) \in Seq(Names) /\ Len(Front(q)) = n - 1
      /\ \A i \in 1..(n - 1) : Front(q)[i] = p[i]
  BY <1>1 DEF Front
<1>4. Front(q) = r
  BY <1>2, <1>3
<1>5. SubSeq(q, 1, n) = q
  BY <1>1
<1>6. IsPrefix(q, p)
  BY <1>1, <1>5 DEF IsPrefix
<1>7. p[n] \in Names
  OBVIOUS
<1>8. QED
  BY <1>1, <1>4, <1>6, <1>7 DEF Last

-----------------------------------------------------------------------------
(* Induction over the length of paths.                                     *)

LEMMA PathInduction ==
  ASSUME NEW S, S \subseteq Seq(Names), NEW U,
         \A q \in S : (\A r \in S : Len(r) < Len(q) => r \in U) => q \in U
  PROVE  S \subseteq U
<1> DEFINE T == {n \in Nat : \E q \in S \ U : n = Len(q)}
<1>0. \A q \in S : Len(q) \in Nat
  OBVIOUS
<1>1. SUFFICES ASSUME T # {} PROVE FALSE
  BY <1>0, Zenon
<1>2. T \subseteq Nat
  OBVIOUS
<1>3. PICK n \in T : \A m \in T : n <= m
  <2> HIDE DEF T
  <2>1. QED
    BY <1>1, <1>2, LeastNat
<1>4. PICK q \in S \ U : n = Len(q)
  OBVIOUS
<1>5. \A r \in S : Len(r) < Len(q) => r \in U
  <2>1. SUFFICES ASSUME NEW r \in S, Len(r) < Len(q), r \notin U PROVE FALSE
    OBVIOUS
  <2>2. Len(r) \in Nat /\ Len(q) \in Nat
    BY <1>0, <1>4, Zenon
  <2>3. Len(r) \in T
    BY <2>1, <2>2, Zenon
  <2> HIDE DEF T
  <2>4. n <= Len(r)
    BY <1>3, <2>3
  <2>5. QED
    BY <1>4, <2>1, <2>2, <2>4
<1>6. QED
  BY <1>4, <1>5

-----------------------------------------------------------------------------
(* What the operators give for a tree.                                     *)

LEMMA IdFacts == Root \in Id /\ 0 \notin Id /\ Id \subseteq Nat /\ MaxNodes \in Nat
BY BoundsAreNat DEF Id, Root

LEMMA TreeFacts ==
  ASSUME NEW ns, NEW N, NEW at, TreeOf(ns, N, at)
  PROVE  /\ N \subseteq Seq(Names) /\ N \subseteq Places /\ <<>> \in N
         /\ at[<<>>] = Root
         /\ \A p \in N : /\ at[p] \in Id /\ ns[at[p]] \in Node /\ ns[at[p]] # Free
                         /\ ns[at[p]].children \in Seq(Id)
                         /\ IsInjective(ns[at[p]].children)
         /\ \A p, q \in N : at[p] = at[q] => p = q
         /\ \A p \in N \ {<<>>} :
              /\ p \in Paths /\ Front(p) \in N /\ ns[at[p]].name = Last(p)
              /\ ns[at[Front(p)]].entry.dir /\ at[p] \in Range(ns[at[Front(p)]].children)
              /\ Append(Front(p), Last(p)) = p /\ Last(p) \in Names
         /\ DOMAIN at = N
<1>1. N \subseteq Places /\ <<>> \in N /\ at[<<>>] = Root
      /\ \A p, q \in N : at[p] = at[q] => p = q
  BY DEF TreeOf
<1>2. N \subseteq Seq(Names)
  BY <1>1, PlaceFacts
<1>3. ASSUME NEW p \in N
      PROVE  /\ at[p] \in Id /\ ns[at[p]] \in Node /\ ns[at[p]] # Free
             /\ ns[at[p]].children \in Seq(Id)
             /\ IsInjective(ns[at[p]].children)
  <2>1. at[p] \in Id /\ ns[at[p]] \in Node /\ IsInjective(ns[at[p]].children)
    BY DEF TreeOf
  <2>2. ns[at[p]].children \in Seq(Id)
    BY <2>1 DEF Node
  <2>3. QED
    BY <2>1, <2>2, FreeIsNoNode
<1>4. ASSUME NEW p \in N \ {<<>>}
      PROVE  /\ p \in Paths /\ Front(p) \in N /\ ns[at[p]].name = Last(p)
             /\ ns[at[Front(p)]].entry.dir /\ at[p] \in Range(ns[at[Front(p)]].children)
             /\ Append(Front(p), Last(p)) = p /\ Last(p) \in Names
  <2>1. p \in Paths
    BY <1>1 DEF Places
  <2>2. /\ Front(p) \in N /\ ns[at[p]].name = Last(p)
        /\ ns[at[Front(p)]].entry.dir
    BY DEF TreeOf
  <2>3. at[p] \in Range(ns[at[Front(p)]].children)
    BY DEF TreeOf
  <2>4. QED
    BY <2>1, <2>2, <2>3, PlaceFacts
<1>5. DOMAIN at = N
  BY DEF TreeOf
<1>6. QED
  BY <1>1, <1>2, <1>3, <1>4, <1>5

LEMMA NodeFacts ==
  ASSUME NEW ns, NEW N, NEW at, TreeOf(ns, N, at), NEW p \in N
  PROVE  /\ p \in Seq(Names) /\ p \in Places
         /\ at[p] \in Id /\ ns[at[p]] \in Node /\ ns[at[p]] # Free
         /\ ns[at[p]].children \in Seq(Id) /\ IsInjective(ns[at[p]].children)
BY TreeFacts

LEMMA ChildFacts ==
  ASSUME NEW ns, NEW N, NEW at, TreeOf(ns, N, at), NEW p \in N, p # <<>>
  PROVE  /\ p \in Paths /\ Front(p) \in N /\ ns[at[p]].name = Last(p)
         /\ ns[at[Front(p)]].entry.dir /\ at[p] \in Range(ns[at[Front(p)]].children)
         /\ Append(Front(p), Last(p)) = p /\ Last(p) \in Names
<1>1. p \in N \ {<<>>}
  OBVIOUS
<1>2. QED
  BY <1>1, TreeFacts

LEMMA ChildIsInTree ==
  ASSUME NEW ns, NEW N, NEW at, TreeOf(ns, N, at), NEW p \in N,
         NEW i \in Range(ns[at[p]].children)
  PROVE  \E q \in N \ {<<>>} : i = at[q] /\ Front(q) = p
BY Zenon DEF TreeOf

\* What begins the path of a node is the path of a directory.
LEMMA PrefixInTree ==
  ASSUME NEW ns, NEW N, NEW at, TreeOf(ns, N, at), NEW q \in N,
         NEW p \in Seq(Names), IsPrefix(p, q)
  PROVE  p \in N /\ (p # q => ns[at[p]].entry.dir)
<1> DEFINE S == {r \in N : IsPrefix(p, r)}
           U == {r \in N : p \in N /\ (p # r => ns[at[p]].entry.dir)}
<1>1. S \subseteq Seq(Names)
  BY TreeFacts
<1>2. ASSUME NEW r \in S, \A s \in S : Len(s) < Len(r) => s \in U PROVE r \in U
  <2>1. CASE r = p
    BY <2>1
  <2>2. CASE r # p
    <3>1. r # <<>>
      BY <1>1, <2>2 DEF IsPrefix
    <3>2. Front(r) \in N /\ ns[at[Front(r)]].entry.dir
          /\ Len(Front(r)) = Len(r) - 1 /\ Len(r) \in Nat
      BY <1>1, <3>1, TreeFacts, PlaceFacts
    <3>3. IsPrefix(p, Front(r))
      BY <1>1, <2>2, <3>1, PrefixOfChild
    <3>4. Front(r) \in U
      BY <1>2, <3>2, <3>3
    <3>5. QED
      BY <3>2, <3>4
  <2>3. QED
    BY <2>1, <2>2
<1> HIDE DEF U
<1>3. S \subseteq U
  BY <1>1, <1>2, PathInduction
<1>4. QED
  BY <1>3 DEF U

LEMMA ChildNamedIs ==
  ASSUME NEW ns, NEW N, NEW at, TreeOf(ns, N, at), NEW p \in N, NEW name \in Names
  PROVE  ChildNamed(ns, at[p], name) =
           IF Append(p, name) \in N THEN at[Append(p, name)] ELSE 0
<1> DEFINE list == ns[at[p]].children
           named == {k \in DOMAIN list : ns[list[k]].name = name}
           q == Append(p, name)
<1>1. p \in Seq(Names) /\ list \in Seq(Id) /\ IsInjective(list)
  BY TreeFacts
<1>2. q # <<>> /\ Front(q) = p /\ Last(q) = name
  BY <1>1, ChildPath
<1>3. ASSUME NEW k \in named PROVE q \in N /\ list[k] = at[q]
  <2>1. list[k] \in Range(list)
    BY DEF Range
  <2>2. PICK r \in N \ {<<>>} : list[k] = at[r] /\ Front(r) = p
    <3>1. \A i \in Range(list) : \E r \in N \ {<<>>} : i = at[r] /\ Front(r) = p
      <4>1. SUFFICES ASSUME NEW i \in Range(ns[at[p]].children)
                     PROVE  \E r \in N \ {<<>>} : i = at[r] /\ Front(r) = p
        OBVIOUS
      <4> HIDE DEF list, named, q
      <4>2. QED
        BY ChildIsInTree
    <3> HIDE DEF list
    <3>2. QED
      BY <2>1, <3>1
  <2>3. ns[at[r]].name = Last(r) /\ r = Append(Front(r), Last(r))
    BY TreeFacts
  <2>4. QED
    BY <2>2, <2>3
<1>4. ASSUME q \in N PROVE named # {}
  <2>0. q \in N \ {<<>>}
    BY <1>2, <1>4
  <2>1. at[q] \in Range(list) /\ ns[at[q]].name = name
    BY <1>2, <2>0 DEF TreeOf
  <2>2. PICK k \in DOMAIN list : list[k] = at[q]
    BY <2>1 DEF Range
  <2>3. QED
    BY <2>1, <2>2
<1>5. \A j, k \in named : j = k
  BY <1>3 DEF IsInjective, TreeOf
<1>6. named \subseteq Nat
  BY <1>1
<1>7. CASE named = {}
  BY <1>4, <1>7 DEF ChildNamed
<1>8. CASE named # {}
  <2>1. PICK k \in named : TRUE
    BY <1>8
  <2>2. \E m \in named : \A j \in named : m <= j
    BY <1>5, <1>6, <2>1
  <2> DEFINE m == CHOOSE m \in named : \A j \in named : m <= j
  <2>3. m \in named
    BY <2>2
  <2>4. ChildNamed(ns, at[p], name) = list[m]
    BY <1>8 DEF ChildNamed
  <2>5. QED
    BY <1>3, <2>3, <2>4
<1>9. QED
  BY <1>7, <1>8

\* NodeAt finds the node of a path, and says when there is none.
LEMMA NodeAtIs ==
  ASSUME NEW ns, NEW N, NEW at, TreeOf(ns, N, at), NEW p \in Seq(Names)
  PROVE  NodeAt(ns, p) = IF p \in N THEN at[p] ELSE 0
<1> DEFINE Way(n) == SubSeq(p, 1, n)
           Rec(f) == f = [n \in 0..Len(p) |->
                            IF n = 0 THEN Root
                            ELSE IF f[n - 1] = 0 THEN 0 ELSE ChildNamed(ns, f[n - 1], p[n])]
           w == [n \in 0..Len(p) |-> IF Way(n) \in N THEN at[Way(n)] ELSE 0]
           g == CHOOSE f : Rec(f)
<1>1. Len(p) \in Nat /\ Way(0) = <<>> /\ Way(Len(p)) = p
  OBVIOUS
<1>2. ASSUME NEW n \in 1..Len(p)
      PROVE  w[n] = IF w[n - 1] = 0 THEN 0 ELSE ChildNamed(ns, w[n - 1], p[n])
  <2>1. /\ Way(n) \in Seq(Names) /\ Way(n) # <<>> /\ Front(Way(n)) = Way(n - 1)
        /\ Last(Way(n)) = p[n] /\ p[n] \in Names
    BY WayFacts
  <2>2. n \in 0..Len(p) /\ n - 1 \in 0..Len(p)
    BY <1>1
  <2>3. w[n] = (IF Way(n) \in N THEN at[Way(n)] ELSE 0)
        /\ w[n - 1] = (IF Way(n - 1) \in N THEN at[Way(n - 1)] ELSE 0)
    BY <2>2
  <2> HIDE DEF w, Way
  <2>4. CASE Way(n - 1) \in N
    <3>1. w[n - 1] = at[Way(n - 1)] /\ w[n - 1] # 0
      BY <2>3, <2>4, TreeFacts, IdFacts
    <3>2. Append(Way(n - 1), p[n]) = Way(n)
      <4>1. Way(n) \in N => Append(Way(n - 1), p[n]) = Way(n)
        BY <2>1, TreeFacts
      <4>2. Append(Way(n - 1), p[n]) = Way(n)
        BY DEF Way
      <4>3. QED
        BY <4>2
    <3>3. ChildNamed(ns, at[Way(n - 1)], p[n]) =
            IF Way(n) \in N THEN at[Way(n)] ELSE 0
      <4>1. p[n] \in Names
        BY <2>1
      <4> HIDE DEF Way
      <4>2. ChildNamed(ns, at[Way(n - 1)], p[n]) =
              IF Append(Way(n - 1), p[n]) \in N THEN at[Append(Way(n - 1), p[n])] ELSE 0
        BY <2>4, <4>1, ChildNamedIs
      <4>3. QED
        BY <3>2, <4>2
    <3>4. QED
      BY <2>3, <3>1, <3>3
  <2>5. CASE Way(n - 1) \notin N
    <3>1. Way(n) \notin N
      BY <2>1, <2>5, TreeFacts
    <3>2. QED
      BY <2>3, <2>5, <3>1
  <2>6. QED
    BY <2>4, <2>5
<1>3. w[0] = Root
  <2>1. w[0] = IF Way(0) \in N THEN at[Way(0)] ELSE 0
    BY <1>1
  <2>2. <<>> \in N /\ at[<<>>] = Root
    BY DEF TreeOf
  <2> HIDE DEF w, Way
  <2>3. QED
    BY <1>1, <2>1, <2>2
<1>4. Rec(w)
  <2> DEFINE v == [n \in 0..Len(p) |->
                            IF n = 0 THEN Root
                            ELSE IF w[n - 1] = 0 THEN 0 ELSE ChildNamed(ns, w[n - 1], p[n])]
  <2>1. ASSUME NEW n \in 0..Len(p) PROVE w[n] = v[n]
    <3>1. CASE n = 0
      BY <1>3, <3>1
    <3>2. CASE n # 0
      <4>1. n \in 1..Len(p)
        BY <1>1, <3>2
      <4> HIDE DEF w
      <4>2. QED
        BY <1>2, <3>2, <4>1
    <3>3. QED
      BY <3>1, <3>2
  <2>2. w = v
    BY <2>1
  <2>3. QED
    BY <2>2
<1>5. Rec(g)
  BY <1>4
<1>6. NodeAt(ns, p) = g[Len(p)]
  BY DEF NodeAt
<1> HIDE DEF g
<1>7. g[0] = Root /\ \A n \in 1..Len(p) :
        g[n] = IF g[n - 1] = 0 THEN 0 ELSE ChildNamed(ns, g[n - 1], p[n])
  <2>1. \A n \in 0..Len(p) : g[n] = IF n = 0 THEN Root
                                 ELSE IF g[n - 1] = 0 THEN 0 ELSE ChildNamed(ns, g[n - 1], p[n])
    BY <1>5
  <2> HIDE DEF Rec
  <2>2. QED
    BY <1>1, <2>1
<1> DEFINE U == {n \in 0..Len(p) : g[n] = w[n]}
<1> HIDE DEF w, Rec
<1>8. 0 \in U
  BY <1>1, <1>3, <1>7
<1>9. \A n \in 1..Len(p) : n - 1 \in U => n \in U
  BY <1>1, <1>2, <1>7
<1>10. 0..Len(p) \subseteq U
  <2> HIDE DEF U
  <2>1. QED
    BY <1>1, <1>8, <1>9, UpToInduction
<1>11. g[Len(p)] = w[Len(p)]
  BY <1>1, <1>10
<1>12. w[Len(p)] = IF p \in N THEN at[p] ELSE 0
  <2>1. w[Len(p)] = IF Way(Len(p)) \in N THEN at[Way(Len(p))] ELSE 0
    BY <1>1 DEF w
  <2>2. QED
    BY <1>1, <2>1
<1>13. QED
  BY <1>6, <1>11, <1>12

LEMMA SpreadIs ==
  ASSUME NEW i \in Id, NEW below, NEW S \in SUBSET Id, i \in S,
         \A k \in S : below[k] \subseteq S,
         \A T \in SUBSET Id : i \in T /\ (\A k \in T : below[k] \subseteq T) => S \subseteq T
  PROVE  Spread(i, below) = S
BY DEF Spread

\* What can be reached from a node is what its path begins.
LEMMA ReachIs ==
  ASSUME NEW ns, NEW N, NEW at, TreeOf(ns, N, at), NEW p \in N
  PROVE  Reach(ns, at[p]) = {at[q] : q \in {r \in N : IsPrefix(p, r)}}
<1> DEFINE B == {r \in N : IsPrefix(p, r)}
           S == {at[q] : q \in B}
           below == [k \in Id |-> Children(ns, k)]
<1>1. p \in Seq(Names) /\ at[p] \in Id /\ p \in B /\ B \subseteq Seq(Names) /\ S \in SUBSET Id
  BY TreeFacts DEF IsPrefix
<1>2. ASSUME NEW k \in S PROVE below[k] \subseteq S
  <2>1. PICK r \in B : k = at[r]
    OBVIOUS
  <2>2. below[k] = Range(ns[at[r]].children)
    BY <1>1, <2>1, TreeFacts DEF Children
  <2>3. ASSUME NEW c \in Range(ns[at[r]].children) PROVE c \in S
    <3>1. PICK q \in N \ {<<>>} : c = at[q] /\ Front(q) = r
      BY ChildIsInTree
    <3>2. IsPrefix(p, q)
      BY <1>1, <3>1, PrefixOfChild, TreeFacts
    <3>3. QED
      BY <3>1, <3>2
  <2>4. QED
    BY <2>2, <2>3
<1>3. ASSUME NEW T \in SUBSET Id, at[p] \in T, \A k \in T : below[k] \subseteq T
      PROVE  S \subseteq T
  <2> DEFINE U == {r \in N : at[r] \in T}
  <2>1. ASSUME NEW q \in B, \A r \in B : Len(r) < Len(q) => r \in U PROVE q \in U
    <3>1. CASE q = p
      BY <1>3, <3>1
    <3>2. CASE q # p
      <4>1. q # <<>>
        BY <1>1, <3>2 DEF IsPrefix
      <4>2. /\ Front(q) \in N /\ at[q] \in Range(ns[at[Front(q)]].children)
            /\ Len(Front(q)) = Len(q) - 1 /\ Len(q) \in Nat /\ q \in Seq(Names)
        BY <4>1, TreeFacts, PlaceFacts
      <4>3. IsPrefix(p, Front(q))
        BY <1>1, <3>2, <4>1, <4>2, PrefixOfChild
      <4>4. at[Front(q)] \in T
        BY <2>1, <4>2, <4>3
      <4>5. below[at[Front(q)]] = Range(ns[at[Front(q)]].children)
        BY <4>2, TreeFacts DEF Children
      <4>6. QED
        BY <1>3, <4>2, <4>4, <4>5
    <3>3. QED
      BY <3>1, <3>2
  <2>2. B \subseteq U
    <3> HIDE DEF B, U
    <3>1. QED
      BY <1>1, <2>1, PathInduction
  <2>3. QED
    BY <2>2
<1>4. Reach(ns, at[p]) = Spread(at[p], below)
  BY DEF Reach
<1>5. QED
  <2> HIDE DEF below, B, S
  <2>1. at[p] \in S
    BY <1>1 DEF S
  <2>2. Spread(at[p], below) = S
    BY <1>1, <1>2, <1>3, <2>1, SpreadIs
  <2>3. QED
    BY <1>4, <2>2 DEF S, B

\* Both memories have the same at and below path p.
AgreeUnder(ns, N, at, p, ns2) ==
  \A q \in N : IsPrefix(p, q) => ns2[at[q]] = ns[at[q]]

\* A node is freed with the directories below it, in a memory that has them as
\* they are in the tree.
\* The node of p or of a directory below it.
GoesWith(ns, N, at, p, j) ==
  \E q \in N : j = at[q] /\ IsPrefix(p, q) /\ (q = p \/ ns[at[q]].entry.dir)

LEMMA FreedIs ==
  ASSUME NEW ns, NEW N, NEW at, TreeOf(ns, N, at), NEW p \in N,
         NEW ns2, AgreeUnder(ns, N, at, p, ns2)
  PROVE  \A j : j \in Freed(ns2, at[p]) <=> GoesWith(ns, N, at, p, j)
<1> DEFINE B == {r \in N : IsPrefix(p, r) /\ (r = p \/ ns[at[r]].entry.dir)}
           S == {at[q] : q \in B}
           below == [k \in Id |-> {c \in Children(ns2, k) : ns2[c].entry.dir}]
<1>1. p \in Seq(Names) /\ at[p] \in Id /\ p \in B /\ B \subseteq Seq(Names) /\ S \in SUBSET Id
  BY TreeFacts DEF IsPrefix
<1>0. \A q \in N : IsPrefix(p, q) => ns2[at[q]] = ns[at[q]]
  BY DEF AgreeUnder
<1>2. ASSUME NEW k \in S PROVE below[k] \subseteq S
  <2>1. PICK r \in B : k = at[r]
    OBVIOUS
  <2>2. below[k] = {c \in Range(ns[at[r]].children) : ns2[c].entry.dir}
    BY <1>0, <1>1, <2>1, TreeFacts DEF Children
  <2>3. ASSUME NEW c \in Range(ns[at[r]].children), ns2[c].entry.dir PROVE c \in S
    <3>1. PICK q \in N \ {<<>>} : c = at[q] /\ Front(q) = r
      BY ChildIsInTree
    <3>2. IsPrefix(p, q)
      BY <1>1, <3>1, PrefixOfChild, TreeFacts
    <3>3. QED
      BY <1>0, <2>3, <3>1, <3>2
  <2>4. QED
    BY <2>2, <2>3
<1>3. ASSUME NEW T \in SUBSET Id, at[p] \in T, \A k \in T : below[k] \subseteq T
      PROVE  S \subseteq T
  <2> DEFINE U == {r \in N : at[r] \in T}
  <2>1. ASSUME NEW q \in B, \A r \in B : Len(r) < Len(q) => r \in U PROVE q \in U
    <3>1. CASE q = p
      BY <1>3, <3>1
    <3>2. CASE q # p
      <4>1. q # <<>>
        BY <1>1, <3>2 DEF IsPrefix
      <4>2. /\ Front(q) \in N /\ at[q] \in Range(ns[at[Front(q)]].children)
            /\ ns[at[Front(q)]].entry.dir
            /\ Len(Front(q)) = Len(q) - 1 /\ Len(q) \in Nat /\ q \in Seq(Names)
        BY <4>1, TreeFacts, PlaceFacts
      <4>3. IsPrefix(p, Front(q))
        BY <1>1, <3>2, <4>1, <4>2, PrefixOfChild
      <4>4. at[Front(q)] \in T
        BY <2>1, <4>2, <4>3
      <4>5. below[at[Front(q)]] = {c \in Range(ns[at[Front(q)]].children) : ns2[c].entry.dir}
        BY <1>0, <4>2, <4>3, TreeFacts DEF Children
      <4>6. QED
        BY <1>0, <1>3, <3>2, <4>2, <4>4, <4>5
    <3>3. QED
      BY <3>1, <3>2
  <2>2. B \subseteq U
    <3> HIDE DEF B, U
    <3>1. QED
      BY <1>1, <2>1, PathInduction
  <2>3. QED
    BY <2>2
<1>4. Freed(ns2, at[p]) = Spread(at[p], below)
  BY DEF Freed
<1>5. Freed(ns2, at[p]) = S
  <2> HIDE DEF below, B, S
  <2>1. at[p] \in S
    BY <1>1 DEF S
  <2>2. Spread(at[p], below) = S
    BY <1>1, <1>2, <1>3, <2>1, SpreadIs
  <2>3. QED
    BY <1>4, <2>2
<1>6. ASSUME NEW j
      PROVE  j \in S <=> GoesWith(ns, N, at, p, j)
  BY DEF GoesWith
<1> HIDE DEF S
<1>7. QED
  BY <1>5, <1>6

-----------------------------------------------------------------------------
(* Changes of the tree.                                                    *)

LEMMA FileHasNoChildren ==
  ASSUME NEW ns, NEW N, NEW at, TreeOf(ns, N, at), NEW p \in N, ~ns[at[p]].entry.dir
  PROVE  ns[at[p]].children = <<>>
<1> DEFINE list == ns[at[p]].children
<1>1. list \in Seq(Id)
  BY TreeFacts
<1>2. ASSUME NEW i \in Range(list) PROVE FALSE
  <2>1. PICK q \in N \ {<<>>} : i = at[q] /\ Front(q) = p
    BY <1>2, ChildIsInTree
  <2>2. QED
    BY <2>1, TreeFacts
<1>3. QED
  <2> HIDE DEF list
  <2>1. SUFFICES ASSUME list # <<>> PROVE FALSE
    BY DEF list
  <2>2. 1 \in DOMAIN list
    BY <1>1, <2>1
  <2>3. list[1] \in Range(list)
    BY <2>2 DEF Range
  <2>4. QED
    BY <1>2, <2>3

\* What lies at or below one of the paths D.
Under(N, D) == {p \in N : \E d \in D : IsPrefix(d, p)}

\* The paths of the tree when D is taken out of it and Q put in, and their nodes.
Spliced(N, D, Q) == (N \ Under(N, D)) \cup Q
SplicedAt(N, at, D, Q, id) ==
  [p \in Spliced(N, D, Q) |-> IF p \in Q THEN id[p] ELSE at[p]]

\* In directory f the entries D go and the entries Q come, in free blocks.
Splice(ns, N, at, f, D, Q, id, ns2) ==
  /\ f \in N /\ ns[at[f]].entry.dir
  /\ D \subseteq N \ {<<>>} /\ \A d \in D : Front(d) = f
  /\ Q \subseteq Paths /\ \A q \in Q : Front(q) = f /\ (q \in N => q \in D)
  /\ id \in [Q -> Id] /\ \A q \in Q : ns[id[q]] = Free
  /\ \A p, q \in Q : id[p] = id[q] => p = q
  /\ ns2 \in [Id -> Node \cup {Free}]
  /\ \A p \in Under(N, D) :
       ns2[at[p]] = IF p \in D \/ ns[at[p]].entry.dir THEN Free ELSE ns[at[p]]
  /\ \A q \in Q : /\ ns2[id[q]] \in Node /\ ns2[id[q]].name = Last(q)
                  /\ ns2[id[q]].children = <<>>
  /\ \A p \in N \ Under(N, D) :
       /\ ns2[at[p]] \in Node /\ ns2[at[p]].name = ns[at[p]].name
       /\ ns2[at[p]].entry.dir = ns[at[p]].entry.dir
       /\ p # f => ns2[at[p]].children = ns[at[p]].children
  /\ IsInjective(ns2[at[f]].children)
  /\ \A i \in Id : i \in Range(ns2[at[f]].children) <=>
       \/ i \in Range(ns[at[f]].children) /\ \A d \in D : i # at[d]
       \/ \E q \in Q : i = id[q]
  /\ \A i \in Id : (\A p \in N : i # at[p]) /\ (\A q \in Q : i # id[q]) =>
       ns2[i] = ns[i]

LEMMA SpliceGivesTree ==
  ASSUME NEW ns, NEW N, NEW at, TreeOf(ns, N, at),
         NEW f, NEW D, NEW Q, NEW id, NEW ns2,
         Splice(ns, N, at, f, D, Q, id, ns2)
  PROVE  TreeOf(ns2, Spliced(N, D, Q), SplicedAt(N, at, D, Q, id))
<1> DEFINE Lost == Under(N, D)
           Kept == N \ Lost
           N2 == Spliced(N, D, Q)
           at2 == SplicedAt(N, at, D, Q, id)
<1>1. f \in N /\ f \in Seq(Names) /\ D \subseteq N \ {<<>>} /\ Q \subseteq Paths
      /\ N \subseteq Seq(Names) /\ D \subseteq Seq(Names) /\ N2 = Kept \cup Q
  BY TreeFacts DEF Splice, Spliced
<1>2. \A p \in N : p \in Lost <=> \E d \in D : IsPrefix(d, p)
  BY DEF Under
<1>3. f \in Kept
  <2>1. SUFFICES ASSUME NEW d \in D, IsPrefix(d, f) PROVE FALSE
    BY <1>1, <1>2
  <2>2. d \in Seq(Names) /\ Front(d) = f /\ d \in Paths
    BY <1>1, TreeFacts DEF Splice
  <2>3. Len(f) = Len(d) - 1 /\ Len(d) \in Nat
    BY <2>2, PlaceFacts
  <2>4. QED
    BY <1>1, <2>1, <2>3 DEF IsPrefix
<1>4. \A q \in Q : q \notin Kept
  <2>1. SUFFICES ASSUME NEW q \in Q, q \in N PROVE q \in Lost
    OBVIOUS
  <2>2. q \in D
    BY <2>1 DEF Splice
  <2>3. IsPrefix(q, q)
    BY <1>1, <2>2 DEF IsPrefix
  <2>4. QED
    BY <1>2, <2>1, <2>2, <2>3
<1>5. <<>> \in Kept
  <2>1. SUFFICES ASSUME NEW d \in D, IsPrefix(d, <<>>) PROVE FALSE
    BY <1>2, TreeFacts
  <2>2. d \in Seq(Names) /\ d # <<>>
    BY <1>1
  <2>3. QED
    BY <2>1, <2>2 DEF IsPrefix
<1>6. ASSUME NEW p \in Kept, p # <<>> PROVE Front(p) \in Kept
  <2>1. Front(p) \in N
    BY <1>6, TreeFacts
  <2>2. SUFFICES ASSUME NEW d \in D, IsPrefix(d, Front(p)) PROVE FALSE
    BY <1>2, <2>1
  <2>3. IsPrefix(d, p)
    BY <1>1, <1>6, <2>2, PrefixOfChild
  <2>4. QED
    BY <1>2, <2>3
<1>7. \A p \in Kept : at2[p] = at[p]
  BY <1>1, <1>4 DEF SplicedAt, Spliced
<1>8. \A q \in Q : at2[q] = id[q]
  BY <1>1 DEF SplicedAt, Spliced
<1>9. \A q \in Q : id[q] \in Id /\ ns[id[q]] = Free
  BY DEF Splice
<1>10. \A p \in N : at[p] \in Id /\ ns[at[p]] # Free
  BY TreeFacts
<1>11. at2 \in [N2 -> Id]
  <2>1. \A p \in N2 : at2[p] \in Id
    BY <1>1, <1>7, <1>8, <1>9, <1>10
  <2>2. at2 = [p \in N2 |-> at2[p]]
    BY DEF SplicedAt
  <2> HIDE DEF at2, N2
  <2>3. QED
    BY <2>1, <2>2
<1> HIDE DEF Lost, N2, at2
<1>12. N2 \subseteq Places /\ <<>> \in N2 /\ at2[<<>>] = Root
  <2>1. N \subseteq Places /\ at[<<>>] = Root
    BY TreeFacts
  <2>2. QED
    BY <1>1, <1>5, <1>7, <2>1 DEF Places
<1>13. ASSUME NEW p \in N2, NEW q \in N2, at2[p] = at2[q] PROVE p = q
  <2>1. CASE p \in Kept /\ q \in Kept
    <3>1. at[p] = at[q]
      BY <1>7, <1>13, <2>1
    <3>2. QED
      BY <2>1, <3>1, TreeFacts
  <2>2. CASE p \in Q /\ q \in Q
    BY <1>8, <1>13, <2>2 DEF Splice
  <2>3. CASE p \in Kept /\ q \in Q
    BY <1>7, <1>8, <1>9, <1>10, <1>13, <2>3
  <2>4. CASE p \in Q /\ q \in Kept
    BY <1>7, <1>8, <1>9, <1>10, <1>13, <2>4
  <2>5. QED
    BY <1>1, <2>1, <2>2, <2>3, <2>4
<1>14. ASSUME NEW p \in Kept
       PROVE  /\ ns2[at[p]] \in Node /\ ns2[at[p]].name = ns[at[p]].name
              /\ ns2[at[p]].entry.dir = ns[at[p]].entry.dir
              /\ p # f => ns2[at[p]].children = ns[at[p]].children
  BY DEF Splice, Lost
<1>15. ASSUME NEW q \in Q
       PROVE  /\ ns2[id[q]] \in Node /\ ns2[id[q]].name = Last(q)
              /\ ns2[id[q]].children = <<>> /\ Front(q) = f
  BY DEF Splice
<1>16. ASSUME NEW i \in Id
       PROVE  i \in Range(ns2[at[f]].children) <=>
                \/ i \in Range(ns[at[f]].children) /\ \A d \in D : i # at[d]
                \/ \E q \in Q : i = id[q]
  BY DEF Splice
<1>17. ASSUME NEW p \in N2 PROVE ns2[at2[p]] \in Node /\ IsInjective(ns2[at2[p]].children)
  <2>1. CASE p \in Q
    <3>1. IsInjective(<<>>)
      BY DEF IsInjective
    <3>2. QED
      BY <1>8, <1>15, <2>1, <3>1
  <2>2. CASE p \in Kept /\ p = f
    <3>1. IsInjective(ns2[at[f]].children)
      BY DEF Splice
    <3>2. QED
      BY <1>7, <1>14, <2>2, <3>1
  <2>3. CASE p \in Kept /\ p # f
    <3>1. IsInjective(ns[at[p]].children)
      BY <2>3, TreeFacts
    <3>2. QED
      BY <1>7, <1>14, <2>3, <3>1
  <2>4. QED
    BY <1>1, <2>1, <2>2, <2>3
<1>18. ASSUME NEW p \in N2 \ {<<>>}
       PROVE  /\ Front(p) \in N2 /\ ns2[at2[p]].name = Last(p)
              /\ ns2[at2[Front(p)]].entry.dir
              /\ at2[p] \in Range(ns2[at2[Front(p)]].children)
  <2>1. CASE p \in Q
    <3>1. ns2[at[f]].entry.dir
      BY <1>3, <1>14 DEF Splice
    <3>2. id[p] \in Range(ns2[at[f]].children)
      BY <1>9, <1>16, <2>1
    <3>3. QED
      BY <1>1, <1>3, <1>7, <1>8, <1>15, <2>1, <3>1, <3>2
  <2>2. CASE p \in Kept
    <3>1. Front(p) \in Kept
      BY <1>6, <2>2
    <3>2. ns[at[p]].name = Last(p) /\ ns[at[Front(p)]].entry.dir
          /\ at[p] \in Range(ns[at[Front(p)]].children)
      BY <2>2, TreeFacts
    <3>3. CASE Front(p) # f
      BY <1>1, <1>7, <1>14, <2>2, <3>1, <3>2, <3>3
    <3>4. CASE Front(p) = f
      <4>1. ASSUME NEW d \in D PROVE at[p] # at[d]
        <5>1. IsPrefix(d, d)
          BY <1>1 DEF IsPrefix
        <5>2. p # d
          BY <1>1, <1>2, <2>2, <5>1
        <5>3. QED
          BY <1>1, <2>2, <5>2, TreeFacts
      <4>2. at[p] \in Range(ns2[at[f]].children)
        BY <1>10, <1>16, <2>2, <3>2, <3>4, <4>1
      <4>3. QED
        BY <1>1, <1>7, <1>14, <2>2, <3>1, <3>2, <3>4, <4>2
    <3>5. QED
      BY <3>3, <3>4
  <2>3. QED
    BY <1>1, <2>1, <2>2
<1>19. ASSUME NEW p \in N2, NEW i \in Range(ns2[at2[p]].children)
       PROVE  \E q \in N2 \ {<<>>} : i = at2[q] /\ Front(q) = p
  <2>1. CASE p \in Q
    BY <1>8, <1>15, <1>19, <2>1 DEF Range
  <2>2. ASSUME p \in Kept, NEW q \in N \ {<<>>}, i = at[q], Front(q) = p,
               q \notin D
        PROVE  \E r \in N2 \ {<<>>} : i = at2[r] /\ Front(r) = p
    <3>1. q \in Kept
      <4>1. SUFFICES ASSUME NEW d \in D, IsPrefix(d, q) PROVE FALSE
        BY <1>2, <2>2
      <4>2. d = q \/ IsPrefix(d, p)
        BY <1>1, <2>2, <4>1, PrefixOfChild
      <4>3. QED
        BY <1>2, <2>2, <4>2
    <3>2. QED
      BY <1>1, <1>7, <2>2, <3>1
  <2>3. CASE p \in Kept /\ p # f
    <3>1. i \in Range(ns[at[p]].children)
      BY <1>7, <1>14, <1>19, <2>3
    <3>2. PICK q \in N \ {<<>>} : i = at[q] /\ Front(q) = p
      <4>1. p \in N
        BY <2>3
      <4> HIDE DEF Kept
      <4>2. QED
        BY <3>1, <4>1, ChildIsInTree
    <3>3. q \notin D
      BY <2>3, <3>2 DEF Splice
    <3>4. QED
      BY <2>2, <2>3, <3>2, <3>3
  <2>4. CASE p \in Kept /\ p = f
    <3>1. ns2[at[f]].children \in Seq(Id)
      BY <1>3, <1>14 DEF Node
    <3>2. i \in Id /\ i \in Range(ns2[at[f]].children)
      BY <1>7, <1>19, <2>4, <3>1 DEF Range
    <3>3. CASE i \in Range(ns[at[f]].children) /\ \A d \in D : i # at[d]
      <4>1. PICK q \in N \ {<<>>} : i = at[q] /\ Front(q) = f
        BY <1>1, <3>3, ChildIsInTree
      <4>2. QED
        BY <2>2, <2>4, <3>3, <4>1
    <3>4. CASE \E q \in Q : i = id[q]
      <4>1. PICK q \in Q : i = id[q]
        BY <3>4
      <4>2. q # <<>>
        BY <1>1, PlaceFacts
      <4>3. QED
        BY <1>1, <1>8, <1>15, <2>4, <4>1, <4>2
    <3>5. QED
      BY <1>16, <3>2, <3>3, <3>4
  <2>5. QED
    BY <1>1, <2>1, <2>3, <2>4
<1>20. ASSUME NEW i \in Id, ns2[i] # Free, \A p \in N2 : at2[p] # i
       PROVE  ~ns2[i].entry.dir /\ ns2[i].children = <<>>
  <2>1. CASE \E p \in N : i = at[p]
    <3>1. PICK p \in N : i = at[p]
      BY <2>1
    <3>2. p \in Lost
      BY <1>1, <1>7, <1>20, <3>1
    <3>3. ns2[i] = IF p \in D \/ ns[at[p]].entry.dir THEN Free ELSE ns[at[p]]
      BY <3>1, <3>2 DEF Splice, Lost
    <3>4. ns2[i] = ns[at[p]] /\ ~ns[at[p]].entry.dir
      BY <1>20, <3>3
    <3>5. QED
      BY <3>1, <3>4, FileHasNoChildren
  <2>2. CASE \A p \in N : i # at[p]
    <3>1. \A q \in Q : i # id[q]
      BY <1>1, <1>8, <1>20
    <3>2. ns2[i] = ns[i]
      BY <2>2, <3>1 DEF Splice
    <3>3. QED
      BY <1>20, <2>2, <3>2 DEF TreeOf
  <2>3. QED
    BY <2>1, <2>2
<1>21. ns2 \in [Id -> Node \cup {Free}]
  BY DEF Splice
<1>22. TreeOf(ns2, N2, at2)
  BY <1>11, <1>12, <1>13, <1>17, <1>18, <1>19, <1>20, <1>21 DEF TreeOf
<1>23. QED
  BY <1>22 DEF N2, at2

-----------------------------------------------------------------------------
(* What fst_add_children and fst_delete_child change.                      *)

LEMMA ConcatFacts ==
  ASSUME NEW T, NEW s \in Seq(T), NEW t \in Seq(T), IsInjective(s), IsInjective(t),
         \A i \in Range(s) : i \notin Range(t)
  PROVE  /\ s \o t \in Seq(T) /\ IsInjective(s \o t)
         /\ \A i \in T : i \in Range(s \o t) <=> i \in Range(s) \/ i \in Range(t)
<1> DEFINE l == s \o t
           m == Len(s)
           n == Len(t)
<1>1. /\ l \in Seq(T) /\ Len(l) = m + n /\ m \in Nat /\ n \in Nat
      /\ DOMAIN s = 1..m /\ DOMAIN t = 1..n /\ DOMAIN l = 1..(m + n)
      /\ \A i \in 1..m : l[i] = s[i]
      /\ \A i \in (m + 1)..(m + n) : l[i] = t[i - m]
  OBVIOUS
<1> HIDE DEF l, m, n
<1>2. ASSUME NEW i \in 1..m, NEW j \in (m + 1)..(m + n) PROVE l[i] # l[j]
  <2>0. /\ i \in DOMAIN s /\ l[i] = s[i]
        /\ j - m \in DOMAIN t /\ l[j] = t[j - m]
    BY <1>1
  <2>1. l[i] \in Range(s) /\ l[j] \in Range(t)
    BY <2>0 DEF Range
  <2>2. QED
    BY <2>1
<1>3. ASSUME NEW i \in DOMAIN l, NEW j \in DOMAIN l, l[i] = l[j] PROVE i = j
  <2>0. /\ \A a, b \in 1..m : s[a] = s[b] => a = b
        /\ \A a, b \in 1..n : t[a] = t[b] => a = b
    BY <1>1 DEF IsInjective
  <2>1. CASE i <= m /\ j <= m
    BY <1>1, <1>3, <2>0, <2>1
  <2>2. CASE i > m /\ j > m
    <3>1. i \in (m + 1)..(m + n) /\ j \in (m + 1)..(m + n)
      BY <1>1, <2>2
    <3>2. t[i - m] = t[j - m]
      BY <1>1, <1>3, <3>1
    <3>3. i - m \in 1..n /\ j - m \in 1..n /\ i \in Int /\ j \in Int
      BY <1>1, <3>1
    <3>4. i - m = j - m
      BY <2>0, <3>2, <3>3
    <3>5. QED
      BY <1>1, <3>3, <3>4
  <2>3. CASE i <= m /\ j > m
    BY <1>1, <1>2, <1>3, <2>3
  <2>4. CASE i > m /\ j <= m
    <3>1. l[j] # l[i]
      BY <1>1, <1>2, <2>4
    <3>2. QED
      BY <1>3, <3>1
  <2>5. QED
    BY <1>1, <2>1, <2>2, <2>3, <2>4
<1>4. ASSUME NEW i \in Range(l) PROVE i \in Range(s) \/ i \in Range(t)
  <2>1. PICK k \in 1..(m + n) : i = l[k]
    BY <1>1 DEF Range
  <2>2. CASE k <= m
    <3>1. k \in DOMAIN s /\ i = s[k]
      BY <1>1, <2>1, <2>2
    <3>2. QED
      BY <3>1 DEF Range
  <2>3. CASE k > m
    <3>1. k - m \in DOMAIN t /\ i = t[k - m]
      BY <1>1, <2>1, <2>3
    <3>2. QED
      BY <3>1 DEF Range
  <2>4. QED
    BY <1>1, <2>1, <2>2, <2>3
<1>5. ASSUME NEW i \in Range(s) PROVE i \in Range(l)
  BY <1>1 DEF Range
<1>6. ASSUME NEW i \in Range(t) PROVE i \in Range(l)
  <2>1. PICK k \in 1..n : i = t[k]
    BY <1>1 DEF Range
  <2>2. k + m \in DOMAIN l /\ l[k + m] = i
    BY <1>1, <2>1
  <2>3. QED
    BY <2>2 DEF Range
<1>7. QED
  BY <1>1, <1>3, <1>4, <1>5, <1>6 DEF IsInjective, l

LEMMA WithoutNone ==
  ASSUME NEW T, NEW list \in Seq(T)
  PROVE  Without(list, {}) = list
<1>1. DOMAIN list = 1..Len(list) /\ Len(list) \in Nat
  OBVIOUS
<1>2. {i \in DOMAIN list : list[i] \notin {}} = DOMAIN list
  OBVIOUS
<1>3. DOMAIN Ascending(DOMAIN list) = 1..Len(list)
  BY <1>1, IntervalSize DEF Ascending
<1>4. \A n \in 1..Len(list) : Ascending(DOMAIN list)[n] = n
  BY <1>1, AscendingAll
<1>5. Keep(list, DOMAIN list) = list
  BY <1>1, <1>3, <1>4 DEF Keep
<1>6. QED
  BY <1>2, <1>5 DEF Without

\* The blocks new, all free, become nodes of these names, which node i, of path p,
\* has as children behind its others.
IsAdded(ns, i, p, names, new, ns2) ==
  /\ new \in Seq(Id) /\ Len(new) = Len(names) /\ IsInjective(new)
  /\ \A k \in DOMAIN names : ns[new[k]] = Free
  /\ ns2 \in [Id -> Node \cup {Free}]
  /\ \A k \in DOMAIN names :
       ns2[new[k]] = NewNode(names[k], EntryAt(Append(p, names[k])))
  /\ ns2[i] = [ns[i] EXCEPT !.children = @ \o new]
  /\ \A j \in Id : j # i /\ j \notin Range(new) => ns2[j] = ns[j]

LEMMA FreeIdsFacts ==
  ASSUME NEW ns, NEW n \in Nat, HasRoom(ns, n)
  PROVE  /\ FreeIds(ns, n) \in Seq(Id) /\ Len(FreeIds(ns, n)) = n
         /\ IsInjective(FreeIds(ns, n))
         /\ \A k \in 1..n : /\ ns[FreeIds(ns, n)[k]] = Free
                            /\ Cardinality({j \in Id \ Allocated(ns) :
                                              j <= FreeIds(ns, n)[k]}) = k
<1> DEFINE I == Id \ Allocated(ns)
           new == FreeIds(ns, n)
<1>1. I \subseteq 1..MaxNodes /\ MaxNodes \in Nat
  BY IdFacts DEF Id
<1>2. \A i \in I : i \in Id /\ ns[i] = Free
  BY DEF Allocated
<1> HIDE DEF I
<1>3. /\ Cardinality(I) \in Nat
      /\ Ascending(I) \in [1..Cardinality(I) -> I]
      /\ \A k \in 1..Cardinality(I) : Cardinality(UpTo(I, Ascending(I)[k])) = k
  BY <1>1, AscendingFacts
<1>4. n <= Cardinality(I)
  BY DEF HasRoom, I
<1>5. new = [k \in 1..n |-> Ascending(I)[k]]
  BY DEF FreeIds, I
<1>6. \A k \in 1..n : /\ new[k] = Ascending(I)[k] /\ k \in 1..Cardinality(I)
                      /\ new[k] \in I
  BY <1>3, <1>4, <1>5
<1> HIDE DEF new
<1>7. new \in [1..n -> Id]
  BY <1>2, <1>5, <1>6
<1>8. new \in Seq(Id) /\ Len(new) = n /\ DOMAIN new = 1..n
  BY <1>7
<1>9. \A k \in 1..n : ns[new[k]] = Free
  BY <1>2, <1>6
<1>10. \A k \in 1..n : Cardinality({j \in I : j <= new[k]}) = k
  BY <1>3, <1>6 DEF UpTo
<1>11. IsInjective(new)
  BY <1>8, <1>10 DEF IsInjective
<1>12. QED
  BY <1>8, <1>9, <1>10, <1>11 DEF new, I

LEMMA NewNodeIsNode ==
  ASSUME NEW n \in Names, NEW e \in Entry
  PROVE  /\ NewNode(n, e) \in Node /\ NewNode(n, e).name = n /\ NewNode(n, e).entry = e
         /\ NewNode(n, e).children = <<>> /\ ~NewNode(n, e).monitored
BY DEF NewNode, Node, Names

LEMMA NodeWithChildren ==
  ASSUME NEW x \in Node, NEW list \in Seq(Id)
  PROVE  /\ [x EXCEPT !.children = list] \in Node
         /\ [x EXCEPT !.children = list].children = list
         /\ [x EXCEPT !.children = list].name = x.name
         /\ [x EXCEPT !.children = list].entry = x.entry
         /\ [x EXCEPT !.children = list].monitored = x.monitored
         /\ [x EXCEPT !.children = x.children] = x
BY DEF Node

LEMMA AddGives ==
  ASSUME NEW ns \in [Id -> Node \cup {Free}], NEW i \in Id, ns[i] \in Node, NEW p,
         NEW names \in Seq(Names), HasRoom(ns, Len(names)),
         \A k \in DOMAIN names : EntryAt(Append(p, names[k])) \in Entry
  PROVE  \E new : IsAdded(ns, i, p, names, new, AddChildren(ns, i, p, names))
<1> DEFINE new == FreeIds(ns, Len(names))
           At(j) == Cardinality({h \in Id \ Allocated(ns) : h <= j})
           ns2 == AddChildren(ns, i, p, names)
<1>1. Len(names) \in Nat /\ DOMAIN names = 1..Len(names)
  OBVIOUS
<1>2. /\ new \in Seq(Id) /\ Len(new) = Len(names) /\ IsInjective(new)
      /\ \A k \in DOMAIN names : ns[new[k]] = Free /\ At(new[k]) = k
  <2>1. \A n \in Nat : HasRoom(ns, n) =>
         /\ FreeIds(ns, n) \in Seq(Id) /\ Len(FreeIds(ns, n)) = n
         /\ IsInjective(FreeIds(ns, n))
         /\ \A k \in 1..n : ns[FreeIds(ns, n)[k]] = Free /\ At(FreeIds(ns, n)[k]) = k
    BY FreeIdsFacts
  <2> HIDE DEF At
  <2>2. QED
    BY <1>1, <2>1
<1>3. ns2 = [j \in Id |->
         IF j \in Range(new)
         THEN NewNode(names[At(j)], EntryAt(Append(p, names[At(j)])))
         ELSE IF j = i THEN [ns[i] EXCEPT !.children = @ \o new]
         ELSE ns[j]]
  BY DEF AddChildren
<1> HIDE DEF new, At, ns2
<1>4. DOMAIN new = DOMAIN names
  BY <1>1, <1>2
<1>5. \A j \in Range(new) : j \in Id /\ \E k \in DOMAIN names : j = new[k]
  BY <1>2, <1>4 DEF Range
<1>6. \A k \in DOMAIN names : new[k] \in Range(new)
  BY <1>4 DEF Range
<1>7. i \notin Range(new)
  BY <1>2, <1>5, FreeIsNoNode
<1>8. ASSUME NEW k \in DOMAIN names
      PROVE  /\ ns2[new[k]] = NewNode(names[k], EntryAt(Append(p, names[k])))
             /\ ns2[new[k]] \in Node
  <2>1. new[k] \in Id /\ new[k] \in Range(new) /\ At(new[k]) = k
    BY <1>2, <1>5, <1>6
  <2>2. ns2[new[k]] = NewNode(names[k], EntryAt(Append(p, names[k])))
    BY <1>3, <2>1
  <2>3. names[k] \in Names
    OBVIOUS
  <2>4. QED
    BY <2>2, <2>3, NewNodeIsNode
<1>9. ns2[i] = [ns[i] EXCEPT !.children = @ \o new]
  BY <1>3, <1>7
<1>10. ns2[i] \in Node
  <2>1. ns[i].children \in Seq(Id)
    BY DEF Node
  <2>2. ns[i].children \o new \in Seq(Id)
    BY <1>2, <2>1
  <2>3. [ns[i] EXCEPT !.children = @ \o new] \in Node
    BY <2>2 DEF Node
  <2>4. QED
    BY <1>9, <2>3
<1>11. \A j \in Id : j # i /\ j \notin Range(new) => ns2[j] = ns[j]
  BY <1>3
<1>12. ASSUME NEW j \in Id PROVE ns2[j] \in Node \cup {Free}
  BY <1>5, <1>8, <1>10, <1>11
<1>13. ns2 \in [Id -> Node \cup {Free}]
  <2>1. ns2 = [j \in Id |-> ns2[j]]
    BY <1>3
  <2>2. QED
    BY <1>12, <2>1
<1>14. IsAdded(ns, i, p, names, new, ns2)
  BY <1>2, <1>8, <1>9, <1>11, <1>13 DEF IsAdded
<1>15. QED
  BY <1>14 DEF ns2

\* The blocks freed become free, and node i loses these children.
IsDeleted(ns, i, gone, freed, ns2) ==
  /\ ns2 \in [Id -> Node \cup {Free}]
  /\ \A j \in Id : ns2[j] = IF j \in freed THEN Free
                            ELSE IF j = i
                            THEN [ns[i] EXCEPT !.children = Without(@, gone)]
                            ELSE ns[j]

LEMMA DeleteGives ==
  ASSUME NEW ns \in [Id -> Node \cup {Free}], NEW i \in Id, ns[i] \in Node,
         IsInjective(ns[i].children), NEW gone
  PROVE  IsDeleted(ns, i, gone, UNION {Freed(ns, j) : j \in gone},
                   DeleteChildren(ns, i, gone))
<1> DEFINE freed == UNION {Freed(ns, j) : j \in gone}
           ns2 == DeleteChildren(ns, i, gone)
<1>1. ns2 = [j \in Id |->
         IF j \in freed THEN Free
         ELSE IF j = i THEN [ns[i] EXCEPT !.children = Without(@, gone)]
         ELSE ns[j]]
  BY DEF DeleteChildren
<1>2. [ns[i] EXCEPT !.children = Without(@, gone)] \in Node
  <2>1. ns[i].children \in Seq(Id)
    BY DEF Node
  <2>2. Without(ns[i].children, gone) \in Seq(Id)
    BY <2>1, WithoutFacts
  <2>3. QED
    BY <2>2, NodeWithChildren
<1> HIDE DEF freed, ns2
<1>3. ns2 \in [Id -> Node \cup {Free}]
  BY <1>1, <1>2
<1>4. QED
  BY <1>1, <1>3 DEF IsDeleted, freed, ns2

\* Where the entries of these names in directory f are.
Named(f, names) == {q \in Paths : \E k \in DOMAIN names : q = Append(f, names[k])}

\* What stays in the tree keeps its entry and its mark.
KeepsEntries(ns, N, at, ns2) ==
  \A p \in N : ns2[at[p]].entry = ns[at[p]].entry /\ ns2[at[p]].monitored = ns[at[p]].monitored

\* What is new has the entry of its path, and no mark.
TakesEntries(Q, id, ns2) ==
  \A q \in Q : ns2[id[q]].entry = EntryAt(q) /\ ~ns2[id[q]].monitored

\* What fst_delete_child frees of the entries D of a directory.
Freeing(ns, N, at, D) ==
  {at[p] : p \in {r \in Under(N, D) : r \in D \/ ns[at[r]].entry.dir}}

LEMMA ChangeIsSplice ==
  ASSUME NEW ns, NEW N, NEW at, TreeOf(ns, N, at), NEW f \in N, ns[at[f]].entry.dir,
         NEW names \in Seq(Names), IsInjective(names),
         NEW new, NEW added, IsAdded(ns, at[f], f, names, new, added),
         NEW D \in SUBSET (N \ {<<>>}), \A d \in D : Front(d) = f,
         \A k \in DOMAIN names : /\ Append(f, names[k]) \in Paths
                                 /\ EntryAt(Append(f, names[k])) \in Entry
                                 /\ Append(f, names[k]) \in N => Append(f, names[k]) \in D,
         NEW ns2, IsDeleted(added, at[f], {at[d] : d \in D}, Freeing(ns, N, at, D), ns2)
  PROVE  \E id : /\ Splice(ns, N, at, f, D, Named(f, names), id, ns2)
                 /\ TakesEntries(Named(f, names), id, ns2)
                 /\ KeepsEntries(ns, N \ Under(N, D), at, ns2)
<1> DEFINE Q == Named(f, names)
           Lost == Under(N, D)
           Gone == {at[d] : d \in D}
           Freed_ == Freeing(ns, N, at, D)
           Of(q) == CHOOSE k \in DOMAIN names : q = Append(f, names[k])
           id == [q \in Q |-> new[Of(q)]]
           old == ns[at[f]].children
           list == old \o new
<1>1. f \in Seq(Names) /\ N \subseteq Seq(Names) /\ D \subseteq Seq(Names)
      /\ D \subseteq Paths
  BY TreeFacts
<1>2. \A p \in N : /\ at[p] \in Id /\ ns[at[p]] # Free /\ ns[at[p]] \in Node
  BY TreeFacts
<1>3. \A p, q \in N : at[p] = at[q] => p = q
  BY TreeFacts
<1>4. /\ new \in Seq(Id) /\ Len(new) = Len(names) /\ IsInjective(new)
      /\ \A k \in DOMAIN names : ns[new[k]] = Free
      /\ added \in [Id -> Node \cup {Free}]
      /\ \A k \in DOMAIN names :
           added[new[k]] = NewNode(names[k], EntryAt(Append(f, names[k])))
      /\ added[at[f]] = [ns[at[f]] EXCEPT !.children = @ \o new]
      /\ \A j \in Id : j # at[f] /\ j \notin Range(new) => added[j] = ns[j]
  BY DEF IsAdded
<1>5. DOMAIN new = DOMAIN names
  BY <1>4
<1>6. /\ \A k \in DOMAIN names : new[k] \in Id /\ new[k] \in Range(new)
      /\ \A i \in Range(new) : i \in Id /\ ns[i] = Free /\ \E k \in DOMAIN names : i = new[k]
  BY <1>4, <1>5 DEF Range
<1>7. ASSUME NEW k \in DOMAIN names, NEW m \in DOMAIN names,
             Append(f, names[k]) = Append(f, names[m])
      PROVE  k = m
  <2>1. names[k] \in Names /\ names[m] \in Names
    OBVIOUS
  <2>2. names[k] = names[m]
    BY <1>1, <1>7, <2>1, ChildPath
  <2>3. QED
    BY <2>2 DEF IsInjective
<1>8. ASSUME NEW q \in Q
      PROVE  /\ Of(q) \in DOMAIN names /\ q = Append(f, names[Of(q)])
             /\ id[q] = new[Of(q)]
  BY DEF Named
<1>9. ASSUME NEW q \in Q
      PROVE  /\ Front(q) = f /\ Last(q) = names[Of(q)] /\ names[Of(q)] \in Names
             /\ q \in Paths /\ EntryAt(q) \in Entry /\ (q \in N => q \in D)
  <2>1. Of(q) \in DOMAIN names /\ q = Append(f, names[Of(q)])
    BY <1>8
  <2> HIDE DEF Of, Q
  <2>2. names[Of(q)] \in Names
    BY <2>1
  <2>3. QED
    BY <1>1, <2>1, <2>2, ChildPath
<1>10. \A p \in Lost : p \in N /\ p # f
  <2>1. SUFFICES ASSUME NEW d \in D, IsPrefix(d, f) PROVE FALSE
    BY DEF Under
  <2>2. Len(f) = Len(d) - 1 /\ Len(d) \in Nat
    BY <1>1, PlaceFacts
  <2>3. QED
    BY <1>1, <2>1, <2>2 DEF IsPrefix
<1>11. \A d \in D : d \in Lost
  <2>1. \A d \in D : IsPrefix(d, d)
    BY <1>1 DEF IsPrefix
  <2>2. QED
    BY <2>1 DEF Under
<1>12. \A j \in Id : ns2[j] = IF j \in Freed_ THEN Free
                             ELSE IF j = at[f]
                             THEN [added[at[f]] EXCEPT !.children = Without(@, Gone)]
                             ELSE added[j]
  BY DEF IsDeleted
<1>13. ns2 \in [Id -> Node \cup {Free}]
  BY DEF IsDeleted
<1>14. \A p \in N : at[p] \in Freed_ <=> p \in Lost /\ (p \in D \/ ns[at[p]].entry.dir)
  <2>1. ASSUME NEW p \in N, at[p] \in Freed_ PROVE p \in Lost /\ (p \in D \/ ns[at[p]].entry.dir)
    <3>1. PICK r \in Lost : at[p] = at[r] /\ (r \in D \/ ns[at[r]].entry.dir)
      BY <2>1 DEF Freeing
    <3>2. p = r
      BY <1>3, <1>10, <3>1
    <3>3. QED
      BY <3>1, <3>2
  <2>2. ASSUME NEW p \in Lost, p \in D \/ ns[at[p]].entry.dir PROVE at[p] \in Freed_
    BY <2>2 DEF Freeing
  <2>3. QED
    BY <2>1, <2>2
<1>15. \A j \in Freed_ : \E p \in N : j = at[p]
  BY <1>10 DEF Freeing
<1>16. \A i \in Range(new) : i \notin Freed_ /\ i \notin Gone /\ \A p \in N : i # at[p]
  <2>1. \A i \in Range(new), p \in N : i # at[p]
    BY <1>2, <1>6
  <2>2. \A j \in Gone : \E p \in N : j = at[p]
    OBVIOUS
  <2> HIDE DEF Gone, Freed_
  <2>3. QED
    BY <1>15, <2>1, <2>2
<1>17. old \in Seq(Id) /\ IsInjective(old)
  BY TreeFacts
<1>18. \A i \in Range(old) : i \notin Range(new)
  <2>1. ASSUME NEW i \in Range(old) PROVE \E q \in N \ {<<>>} : i = at[q] /\ Front(q) = f
    <3>1. i \in Range(ns[at[f]].children)
      OBVIOUS
    <3>2. \A p \in N : \A j \in Range(ns[at[p]].children) :
            \E q \in N \ {<<>>} : j = at[q] /\ Front(q) = p
      BY Zenon DEF TreeOf
    <3> HIDE DEF old, Q, id, Of, list, Gone, Freed_, Lost
    <3>3. QED
      BY <3>1, <3>2, Zenon
  <2>2. QED
    BY <1>16, <2>1
<1>19. /\ list \in Seq(Id) /\ IsInjective(list)
       /\ \A i \in Id : i \in Range(list) <=> i \in Range(old) \/ i \in Range(new)
  <2> HIDE DEF old
  <2>1. QED
    BY <1>4, <1>17, <1>18, ConcatFacts
<1>20. /\ added[at[f]] \in Node /\ added[at[f]].children = list
       /\ added[at[f]].name = ns[at[f]].name /\ added[at[f]].entry = ns[at[f]].entry
       /\ added[at[f]].monitored = ns[at[f]].monitored
  <2>1. added[at[f]] = [ns[at[f]] EXCEPT !.children = list]
    BY <1>4
  <2> HIDE DEF list
  <2>2. ns[at[f]] \in Node /\ list \in Seq(Id)
    BY <1>2, <1>19
  <2>3. QED
    BY <2>1, <2>2 DEF Node
<1>21. ns2[at[f]] = [added[at[f]] EXCEPT !.children = Without(@, Gone)]
  <2>1. at[f] \in Id /\ at[f] \notin Freed_
    BY <1>2, <1>10, <1>14
  <2> HIDE DEF Gone, Freed_
  <2>2. QED
    BY <1>12, <2>1
<1> HIDE DEF list, Gone, Freed_, Q, Of, id, old, Lost
<1>22. /\ Without(list, Gone) \in Seq(Id) /\ IsInjective(Without(list, Gone))
       /\ Range(Without(list, Gone)) = Range(list) \ Gone
  BY <1>19, WithoutFacts
<1>23. /\ ns2[at[f]] \in Node /\ ns2[at[f]].children = Without(list, Gone)
       /\ ns2[at[f]].name = ns[at[f]].name /\ ns2[at[f]].entry = ns[at[f]].entry
       /\ ns2[at[f]].monitored = ns[at[f]].monitored
  BY <1>20, <1>21, <1>22 DEF Node
<1>24. ASSUME NEW p \in N, p # f
       PROVE  ns2[at[p]] = IF p \in Lost /\ (p \in D \/ ns[at[p]].entry.dir) THEN Free
                           ELSE ns[at[p]]
  <2>1. at[p] \in Id /\ at[p] # at[f] /\ at[p] \notin Range(new)
    BY <1>2, <1>3, <1>16, <1>24
  <2>2. added[at[p]] = ns[at[p]]
    BY <1>4, <2>1
  <2>3. QED
    BY <1>12, <1>14, <2>1, <2>2
<1>25. ASSUME NEW q \in Q
       PROVE  ns2[id[q]] = NewNode(Last(q), EntryAt(q)) /\ id[q] \in Range(new)
  <2>1. Of(q) \in DOMAIN names /\ q = Append(f, names[Of(q)]) /\ id[q] = new[Of(q)]
        /\ Last(q) = names[Of(q)]
    BY <1>8, <1>9
  <2>2. id[q] \in Id /\ id[q] \in Range(new) /\ id[q] \notin Freed_ /\ id[q] # at[f]
    BY <1>6, <1>16, <2>1
  <2>3. ns2[id[q]] = added[id[q]]
    BY <1>12, <2>2, Zenon
  <2>4. added[new[Of(q)]] = NewNode(names[Of(q)], EntryAt(Append(f, names[Of(q)])))
    BY <1>4, <2>1, Zenon
  <2>5. QED
    BY <2>1, <2>2, <2>3, <2>4, Zenon
<1>26. ASSUME NEW q \in Q
       PROVE  /\ ns2[id[q]] \in Node /\ ns2[id[q]].name = Last(q)
              /\ ns2[id[q]].children = <<>> /\ ns2[id[q]].entry = EntryAt(q)
              /\ ~ns2[id[q]].monitored
  BY <1>9, <1>25, NewNodeIsNode
<1>27. id \in [Q -> Id] /\ \A q \in Q : ns[id[q]] = Free
  <2>1. id = [q \in Q |-> id[q]]
    BY DEF id
  <2>2. QED
    BY <1>6, <1>25, <2>1
<1>28. ASSUME NEW p \in Q, NEW q \in Q, id[p] = id[q] PROVE p = q
  <2>1. new[Of(p)] = new[Of(q)]
    BY <1>8, <1>28
  <2>2. Of(p) = Of(q)
    BY <1>4, <1>5, <1>8, <2>1 DEF IsInjective
  <2>3. QED
    BY <1>8, <2>2
<1>29. ASSUME NEW k \in DOMAIN names PROVE \E q \in Q : new[k] = id[q]
  <2> DEFINE q == Append(f, names[k])
  <2>1. q \in Q
    BY DEF Q, Named
  <2>2. Of(q) = k
    BY <1>7, <1>8, <2>1
  <2>3. QED
    BY <1>8, <2>1, <2>2
<1>30. ASSUME NEW i \in Id
       PROVE  i \in Range(ns2[at[f]].children) <=>
                \/ i \in Range(old) /\ \A d \in D : i # at[d]
                \/ \E q \in Q : i = id[q]
  <2>1. i \in Range(new) <=> \E q \in Q : i = id[q]
    BY <1>6, <1>25, <1>29
  <2>2. i \in Gone <=> \E d \in D : i = at[d]
    BY DEF Gone
  <2>3. i \in Range(ns2[at[f]].children) <=> i \in Range(list) /\ i \notin Gone
    BY <1>22, <1>23
  <2>4. QED
    BY <1>16, <1>19, <2>1, <2>2, <2>3
<1>31. ASSUME NEW i \in Id, \A p \in N : i # at[p], \A q \in Q : i # id[q]
       PROVE  ns2[i] = ns[i]
  <2>1. i \notin Range(new) /\ i # at[f] /\ i \notin Freed_
    BY <1>6, <1>15, <1>29, <1>31
  <2>2. QED
    BY <1>4, <1>12, <2>1
<1>32. \A p \in N \ Lost :
         /\ ns2[at[p]] \in Node /\ ns2[at[p]].name = ns[at[p]].name
         /\ ns2[at[p]].entry = ns[at[p]].entry
         /\ ns2[at[p]].monitored = ns[at[p]].monitored
         /\ p # f => ns2[at[p]].children = ns[at[p]].children
  BY <1>2, <1>23, <1>24
<1>33. \A p \in Lost :
         ns2[at[p]] = IF p \in D \/ ns[at[p]].entry.dir THEN Free ELSE ns[at[p]]
  BY <1>10, <1>24
<1>34. IsInjective(ns2[at[f]].children)
  BY <1>22, <1>23
<1>35. Q \subseteq Paths /\ \A q \in Q : Front(q) = f /\ (q \in N => q \in D)
  BY <1>9
<1>36. Splice(ns, N, at, f, D, Q, id, ns2)
  <2>1. D \subseteq N \ {<<>>}
    OBVIOUS
  <2>2. \A i \in Id : i \in Range(ns2[at[f]].children) <=>
          \/ i \in Range(ns[at[f]].children) /\ \A d \in D : i # at[d]
          \/ \E q \in Q : i = id[q]
    BY <1>30 DEF old
  <2>3. QED
    BY <1>13, <1>26, <1>27, <1>28, <1>31, <1>32, <1>33, <1>34, <1>35, <2>1, <2>2
    DEF Splice, Lost
<1>37. TakesEntries(Q, id, ns2) /\ KeepsEntries(ns, N \ Lost, at, ns2)
  BY <1>26, <1>32 DEF TakesEntries, KeepsEntries
<1>38. QED
  BY <1>36, <1>37 DEF Q, Lost

\* What is freed of entries of a directory that is given further children first.
AreNodes(at, D, gone) == \A i : i \in gone <=> \E d \in D : i = at[d]
AllFreed(added, gone) == UNION {Freed(added, i) : i \in gone}
Frees(added, gone, ns, N, at, D) == AllFreed(added, gone) = Freeing(ns, N, at, D)
AreEntries(N, f, D) == D \subseteq N \ {<<>>} /\ \A d \in D : Front(d) = f

LEMMA FreedAll ==
  ASSUME NEW ns, NEW N, NEW at, TreeOf(ns, N, at), NEW f \in N,
         NEW names \in Seq(Names), NEW new, NEW added,
         IsAdded(ns, at[f], f, names, new, added),
         NEW D, AreEntries(N, f, D), NEW gone, AreNodes(at, D, gone)
  PROVE  Frees(added, gone, ns, N, at, D)
<1>1. f \in Seq(Names) /\ N \subseteq Seq(Names) /\ D \subseteq N
      /\ D \subseteq N \ {<<>>} /\ \A d \in D : Front(d) = f
  BY TreeFacts DEF AreEntries
<1>2. \A p \in N : at[p] \in Id /\ ns[at[p]] # Free
  BY TreeFacts
<1>3. ASSUME NEW d \in D, NEW q \in N, IsPrefix(d, q) PROVE added[at[q]] = ns[at[q]]
  <2>1. q # f
    <3>1. d \in Paths /\ d \in Seq(Names)
      BY <1>1, TreeFacts
    <3>2. Len(f) = Len(d) - 1 /\ Len(d) \in Nat
      BY <1>1, <3>1, PlaceFacts
    <3>3. QED
      BY <1>1, <1>3, <3>1, <3>2 DEF IsPrefix
  <2>2. at[q] # at[f]
    BY <2>1, TreeFacts
  <2>3. at[q] \notin Range(new)
    <3>1. DOMAIN new = DOMAIN names /\ \A k \in DOMAIN names : ns[new[k]] = Free
      BY DEF IsAdded
    <3>2. QED
      BY <1>2, <3>1 DEF Range
  <2>4. at[q] \in Id /\ \A j \in Id : j # at[f] /\ j \notin Range(new) => added[j] = ns[j]
    BY <1>2 DEF IsAdded
  <2>5. QED
    BY <2>2, <2>3, <2>4
<1>4. ASSUME NEW d \in D
      PROVE  \A j : j \in Freed(added, at[d]) <=> GoesWith(ns, N, at, d, j)
  <2>1. d \in N
    BY <1>1
  <2>2. AgreeUnder(ns, N, at, d, added)
    BY <1>3 DEF AgreeUnder
  <2>3. QED
    BY <2>1, <2>2, FreedIs
<1>5. ASSUME NEW j
      PROVE  j \in AllFreed(added, gone) <=>
               \E d \in D : j \in Freed(added, at[d])
  BY DEF AreNodes, AllFreed
<1>6. ASSUME NEW d \in D, NEW e \in D, IsPrefix(e, d) PROVE e = d
  <2>1. d \in Paths /\ e \in Paths /\ d \in Seq(Names) /\ e \in Seq(Names)
    BY <1>1, TreeFacts
  <2>2. Len(d) = Len(f) + 1 /\ Len(e) = Len(f) + 1
    BY <1>1, <2>1, PlaceFacts
  <2>3. QED
    BY <1>6, <2>1, <2>2 DEF IsPrefix
<1>7. ASSUME NEW j, NEW d \in D, j \in Freed(added, at[d])
      PROVE  j \in Freeing(ns, N, at, D)
  <2>1. PICK q \in N : j = at[q] /\ IsPrefix(d, q) /\ (q = d \/ ns[at[q]].entry.dir)
    BY <1>4, <1>7 DEF GoesWith
  <2>2. q \in Under(N, D)
    BY <2>1 DEF Under
  <2>3. QED
    BY <2>1, <2>2 DEF Freeing
<1>8. ASSUME NEW j \in Freeing(ns, N, at, D)
      PROVE  \E d \in D : j \in Freed(added, at[d])
  <2>1. PICK q \in Under(N, D) : j = at[q] /\ (q \in D \/ ns[at[q]].entry.dir)
    BY DEF Freeing
  <2>2. PICK d \in D : q \in N /\ IsPrefix(d, q)
    BY <2>1 DEF Under
  <2>3. q \in D => q = d
    BY <1>6, <2>2
  <2>4. QED
    BY <1>4, <2>1, <2>2, <2>3 DEF GoesWith
<1>9. QED
  BY <1>5, <1>7, <1>8 DEF Frees

\* The tree when the branches at D are gone and the entries Q have nodes.
IsChanged(ns, N, at, D, Q, ns2, N2, at2) ==
  /\ TreeOf(ns2, N2, at2)
  /\ N2 = (N \ Under(N, D)) \cup Q
  /\ \A p \in N \ Under(N, D) : /\ p \notin Q /\ at2[p] = at[p]
                                /\ ns2[at[p]].entry = ns[at[p]].entry
                                /\ ns2[at[p]].monitored = ns[at[p]].monitored
  /\ \A q \in Q : ns2[at2[q]].entry = EntryAt(q) /\ ~ns2[at2[q]].monitored

\* The names may be added to directory f when the entries D leave it.
MayCome(ns, N, at, f, names, D) ==
  /\ f \in N /\ ns[at[f]].entry.dir
  /\ names \in Seq(Names) /\ IsInjective(names)
  /\ D \subseteq N \ {<<>>} /\ \A d \in D : Front(d) = f
  /\ \A k \in DOMAIN names : /\ Append(f, names[k]) \in Paths
                             /\ EntryAt(Append(f, names[k])) \in Entry
                             /\ Append(f, names[k]) \in N => Append(f, names[k]) \in D

LEMMA SpliceGives ==
  ASSUME NEW ns, NEW N, NEW at, TreeOf(ns, N, at), NEW f, NEW names, NEW D,
         MayCome(ns, N, at, f, names, D),
         NEW new, NEW added, IsAdded(ns, at[f], f, names, new, added),
         NEW ns2, IsDeleted(added, at[f], {at[d] : d \in D}, Freeing(ns, N, at, D), ns2)
  PROVE  \E N2, at2 : IsChanged(ns, N, at, D, Named(f, names), ns2, N2, at2)
<1> DEFINE Q == Named(f, names)
<1>1. PICK id : /\ Splice(ns, N, at, f, D, Q, id, ns2)
                /\ TakesEntries(Q, id, ns2)
                /\ KeepsEntries(ns, N \ Under(N, D), at, ns2)
  <2>1. /\ f \in N /\ ns[at[f]].entry.dir /\ names \in Seq(Names) /\ IsInjective(names)
        /\ D \in SUBSET (N \ {<<>>})
    BY DEF MayCome
  <2>2. \A d \in D : Front(d) = f
    BY DEF MayCome
  <2>3. \A k \in DOMAIN names : /\ Append(f, names[k]) \in Paths
                                /\ EntryAt(Append(f, names[k])) \in Entry
                                /\ Append(f, names[k]) \in N => Append(f, names[k]) \in D
    BY DEF MayCome
  <2>4. QED
    BY <2>1, <2>2, <2>3, ChangeIsSplice
<1> HIDE DEF Q
<1> DEFINE N2 == Spliced(N, D, Q)
           at2 == SplicedAt(N, at, D, Q, id)
<1>2. TreeOf(ns2, N2, at2)
  BY <1>1, SpliceGivesTree
<1>3. N2 = (N \ Under(N, D)) \cup Q
  BY DEF Spliced
<1>4. ASSUME NEW p \in N \ Under(N, D) PROVE p \notin Q
  <2>1. SUFFICES ASSUME p \in Q PROVE FALSE
    OBVIOUS
  <2>2. p \in D /\ p \in Seq(Names)
    BY <1>1, <2>1, TreeFacts DEF Splice
  <2>3. IsPrefix(p, p)
    BY <2>2 DEF IsPrefix
  <2>4. QED
    BY <2>2, <2>3 DEF Under
<1>5. \A p \in N2 : at2[p] = IF p \in Q THEN id[p] ELSE at[p]
  BY DEF SplicedAt
<1> HIDE DEF N2, at2
<1>6. ASSUME NEW p \in N \ Under(N, D)
      PROVE  /\ at2[p] = at[p] /\ ns2[at[p]].entry = ns[at[p]].entry
             /\ ns2[at[p]].monitored = ns[at[p]].monitored
  <2>1. at2[p] = at[p]
    BY <1>3, <1>4, <1>5
  <2>2. QED
    BY <1>1, <2>1 DEF KeepsEntries
<1>7. ASSUME NEW q \in Q PROVE ns2[at2[q]].entry = EntryAt(q) /\ ~ns2[at2[q]].monitored
  <2>1. at2[q] = id[q]
    BY <1>3, <1>5
  <2>2. QED
    BY <1>1, <2>1 DEF TakesEntries
<1>8. IsChanged(ns, N, at, D, Q, ns2, N2, at2)
  BY <1>2, <1>3, <1>4, <1>6, <1>7 DEF IsChanged
<1>9. QED
  BY <1>8 DEF Q

\* fst_add_children, then fst_delete_child for each of D.
Exchanged(ns, at, f, names, D) ==
  DeleteChildren(AddChildren(ns, at[f], f, names), at[f], {at[d] : d \in D})

LEMMA AddDelete ==
  ASSUME NEW ns, NEW N, NEW at, TreeOf(ns, N, at), NEW f, NEW names, NEW D,
         MayCome(ns, N, at, f, names, D), HasRoom(ns, Len(names))
  PROVE  \E N2, at2 : IsChanged(ns, N, at, D, Named(f, names),
                                Exchanged(ns, at, f, names, D), N2, at2)
<1> DEFINE added == AddChildren(ns, at[f], f, names)
           gone == {at[d] : d \in D}
<1>1. /\ f \in N /\ names \in Seq(Names) /\ D \in SUBSET (N \ {<<>>})
      /\ (\A d \in D : Front(d) = f)
      /\ \A k \in DOMAIN names : EntryAt(Append(f, names[k])) \in Entry
  BY DEF MayCome
<1>2. ns \in [Id -> Node \cup {Free}] /\ at[f] \in Id /\ ns[at[f]] \in Node
  BY <1>1 DEF TreeOf
<1>3. PICK new : IsAdded(ns, at[f], f, names, new, added)
  BY <1>1, <1>2, AddGives
<1> HIDE DEF added, gone
<1>4. /\ added \in [Id -> Node \cup {Free}]
      /\ added[at[f]] = [ns[at[f]] EXCEPT !.children = @ \o new]
      /\ new \in Seq(Id) /\ IsInjective(new)
      /\ \A i \in Range(new) : ns[i] = Free
  <2>1. \A k \in DOMAIN names : ns[new[k]] = Free
    BY <1>3 DEF IsAdded
  <2>2. DOMAIN new = DOMAIN names
    BY <1>3, <1>1 DEF IsAdded
  <2>3. QED
    BY <1>3, <2>1, <2>2 DEF IsAdded, Range
<1>5. ns[at[f]].children \in Seq(Id) /\ IsInjective(ns[at[f]].children)
  BY <1>1, TreeFacts
<1>6. \A i \in Range(ns[at[f]].children) : i \notin Range(new)
  <2>1. \A i \in Range(ns[at[f]].children) :
          \E q \in N \ {<<>>} : i = at[q] /\ Front(q) = f
    BY <1>1, ChildIsInTree
  <2>2. \A q \in N : ns[at[q]] # Free
    BY TreeFacts
  <2>3. QED
    BY <1>4, <2>1, <2>2
<1>7. /\ ns[at[f]].children \o new \in Seq(Id)
      /\ IsInjective(ns[at[f]].children \o new)
  BY <1>4, <1>5, <1>6, ConcatFacts
<1>8. added[at[f]] \in Node /\ IsInjective(added[at[f]].children)
  <2> DEFINE list == ns[at[f]].children \o new
  <2>1. added[at[f]] = [ns[at[f]] EXCEPT !.children = list] /\ list \in Seq(Id)
        /\ IsInjective(list)
    BY <1>4, <1>7 DEF GoesWith
  <2> HIDE DEF list
  <2>2. QED
    BY <1>2, <2>1, NodeWithChildren
<1>9. IsDeleted(added, at[f], gone, UNION {Freed(added, j) : j \in gone},
                DeleteChildren(added, at[f], gone))
  BY <1>2, <1>4, <1>8, DeleteGives, Zenon
<1>10. Frees(added, gone, ns, N, at, D)
  <2>1. AreNodes(at, D, gone)
    BY DEF gone, AreNodes
  <2>2. AreEntries(N, f, D)
    BY <1>1 DEF AreEntries
  <2>3. QED
    BY <1>1, <1>3, <2>1, <2>2, FreedAll
<1>11. IsDeleted(added, at[f], {at[d] : d \in D}, Freeing(ns, N, at, D),
                 DeleteChildren(added, at[f], gone))
  BY <1>9, <1>10 DEF gone, AllFreed, Frees
<1>12. QED
  <2>1. \E N2, at2 : IsChanged(ns, N, at, D, Named(f, names),
                               DeleteChildren(added, at[f], gone), N2, at2)
    BY <1>3, <1>11, SpliceGives
  <2>2. QED
    BY <2>1 DEF added, gone, Exchanged

\* fst_add_children alone.
LEMMA AddOnly ==
  ASSUME NEW ns, NEW N, NEW at, TreeOf(ns, N, at), NEW f, NEW names,
         MayCome(ns, N, at, f, names, {}), HasRoom(ns, Len(names))
  PROVE  \E N2, at2 : IsChanged(ns, N, at, {}, Named(f, names),
           AddChildren(ns, at[f], f, names), N2, at2)
<1> DEFINE added == AddChildren(ns, at[f], f, names)
<1>1. /\ f \in N /\ names \in Seq(Names)
      /\ \A k \in DOMAIN names : EntryAt(Append(f, names[k])) \in Entry
  BY DEF MayCome
<1>2. ns \in [Id -> Node \cup {Free}] /\ at[f] \in Id /\ ns[at[f]] \in Node
      /\ ns[at[f]].children \in Seq(Id)
  BY <1>1, TreeFacts DEF TreeOf
<1>3. PICK new : IsAdded(ns, at[f], f, names, new, added)
  BY <1>1, <1>2, AddGives
<1> HIDE DEF added
<1>4. /\ added \in [Id -> Node \cup {Free}] /\ new \in Seq(Id)
      /\ added[at[f]] = [ns[at[f]] EXCEPT !.children = @ \o new]
  BY <1>3 DEF IsAdded
<1>5. added[at[f]] \in Node /\ added[at[f]].children \in Seq(Id)
  <2> DEFINE list == ns[at[f]].children \o new
  <2>1. added[at[f]] = [ns[at[f]] EXCEPT !.children = list] /\ list \in Seq(Id)
    BY <1>2, <1>4
  <2> HIDE DEF list
  <2>2. QED
    BY <1>2, <2>1, NodeWithChildren
<1>6. [added[at[f]] EXCEPT !.children = Without(@, {})] = added[at[f]]
  <2>1. Without(added[at[f]].children, {}) = added[at[f]].children
    BY <1>5, WithoutNone
  <2>2. QED
    BY <1>5, <2>1, NodeWithChildren
<1>7. IsDeleted(added, at[f], {}, {}, added)
  BY <1>4, <1>6 DEF IsDeleted
<1>8. {at[d] : d \in {}} = {} /\ Freeing(ns, N, at, {}) = {}
  BY DEF Freeing, Under
<1>9. IsDeleted(added, at[f], {at[d] : d \in {}}, Freeing(ns, N, at, {}), added)
  BY <1>7, <1>8
<1>10. QED
  BY <1>3, <1>9, SpliceGives DEF added

\* fst_delete_child alone.
LEMMA DeleteOnly ==
  ASSUME NEW ns, NEW N, NEW at, TreeOf(ns, N, at), NEW d \in N \ {<<>>}
  PROVE  \E N2, at2 : IsChanged(ns, N, at, {d}, {},
           DeleteChildren(ns, at[Front(d)], {at[d]}), N2, at2)
<1> DEFINE f == Front(d)
           ns2 == DeleteChildren(ns, at[f], {at[d]})
<1>1. f \in N /\ ns[at[f]].entry.dir
  BY TreeFacts
<1>2. ns \in [Id -> Node \cup {Free}] /\ at[f] \in Id /\ ns[at[f]] \in Node
      /\ ns[at[f]].children \in Seq(Id) /\ IsInjective(ns[at[f]].children)
  <2>1. ns \in [Id -> Node \cup {Free}]
    BY DEF TreeOf
  <2> HIDE DEF f
  <2>2. QED
    BY <1>1, <2>1, TreeFacts
<1> HIDE DEF f
<1>3. IsAdded(ns, at[f], f, <<>>, <<>>, ns)
  <2>1. ns[at[f]].children \o <<>> = ns[at[f]].children
    BY <1>2
  <2>2. ns[at[f]] = [ns[at[f]] EXCEPT !.children = @ \o <<>>]
    BY <1>2, <2>1, NodeWithChildren
  <2>3. <<>> \in Seq(Id) /\ Len(<<>>) = 0 /\ DOMAIN <<>> = {} /\ Range(<<>>) = {}
        /\ IsInjective(<<>>)
    BY DEF Range, IsInjective
  <2>4. QED
    BY <1>2, <2>2, <2>3 DEF IsAdded
<1>4. <<>> \in Seq(Names) /\ Len(<<>>) = 0 /\ DOMAIN <<>> = {} /\ IsInjective(<<>>)
  BY DEF IsInjective
<1>5. {d} \in SUBSET (N \ {<<>>}) /\ \A e \in {d} : Front(e) = f
  BY DEF f
<1>6. MayCome(ns, N, at, f, <<>>, {d})
  BY <1>1, <1>4, <1>5 DEF MayCome
<1>7. {at[e] : e \in {d}} = {at[d]}
  OBVIOUS
<1>8. IsDeleted(ns, at[f], {at[d]}, UNION {Freed(ns, j) : j \in {at[d]}}, ns2)
  <2> HIDE DEF ns2
  <2>1. QED
    BY <1>2, DeleteGives DEF ns2
<1>9. Frees(ns, {at[d]}, ns, N, at, {d})
  <2>1. f \in N /\ <<>> \in Seq(Names) /\ {d} \in SUBSET (N \ {<<>>})
    BY <1>1, <1>4, <1>5
  <2>2. AreEntries(N, f, {d}) /\ AreNodes(at, {d}, {at[d]})
    BY <1>5 DEF AreEntries, AreNodes
  <2>3. QED
    BY <1>3, <2>1, <2>2, FreedAll
<1>10. IsDeleted(ns, at[f], {at[e] : e \in {d}}, Freeing(ns, N, at, {d}), ns2)
  BY <1>7, <1>8, <1>9 DEF AllFreed, Frees
<1>11. Named(f, <<>>) = {}
  BY <1>4 DEF Named
<1>12. QED
  <2> HIDE DEF ns2
  <2>1. \E N2, at2 : IsChanged(ns, N, at, {d}, Named(f, <<>>), ns2, N2, at2)
    BY <1>3, <1>6, <1>10, SpliceGives
  <2>2. QED
    BY <1>11, <2>1 DEF ns2, f

-----------------------------------------------------------------------------
(* The calls of __scan.                                                    *)

CallSet == [node : Id, father : Id, path : Places, monitored : BOOLEAN, check : BOOLEAN]

\* Both memories differ in marks and in entries of the same kind only.
Alike(ns, ns2) ==
  /\ ns2 \in [Id -> Node \cup {Free}]
  /\ \A i \in Id : IF ns[i] = Free THEN ns2[i] = Free
                   ELSE /\ ns2[i] # Free /\ ns2[i].name = ns[i].name
                        /\ ns2[i].children = ns[i].children
                        /\ ns2[i].entry.dir = ns[i].entry.dir

LEMMA SameShape ==
  ASSUME NEW ns, NEW N, NEW at, TreeOf(ns, N, at), NEW ns2, Alike(ns, ns2)
  PROVE  TreeOf(ns2, N, at)
<1>1. /\ N \subseteq Places /\ <<>> \in N /\ at[<<>>] = Root
      /\ at \in [N -> Id] /\ \A p, q \in N : at[p] = at[q] => p = q
  BY DEF TreeOf
<1>2. ns2 \in [Id -> Node \cup {Free}]
  BY DEF Alike
<1>3. ASSUME NEW p \in N
      PROVE  /\ ns2[at[p]] \in Node /\ ns2[at[p]].name = ns[at[p]].name
             /\ ns2[at[p]].children = ns[at[p]].children
             /\ ns2[at[p]].entry.dir = ns[at[p]].entry.dir
             /\ IsInjective(ns[at[p]].children)
  <2>1. at[p] \in Id /\ ns[at[p]] # Free /\ IsInjective(ns[at[p]].children)
    BY TreeFacts
  <2>2. QED
    BY <1>2, <2>1 DEF Alike
<1>4. ASSUME NEW p \in N \ {<<>>}
      PROVE  /\ Front(p) \in N /\ ns2[at[p]].name = Last(p)
             /\ ns2[at[Front(p)]].entry.dir
             /\ at[p] \in Range(ns2[at[Front(p)]].children)
  <2>1. /\ Front(p) \in N /\ ns[at[p]].name = Last(p)
        /\ ns[at[Front(p)]].entry.dir
        /\ at[p] \in Range(ns[at[Front(p)]].children)
    BY ChildFacts
  <2>2. QED
    BY <1>3, <2>1
<1>5. ASSUME NEW p \in N, NEW i \in Range(ns2[at[p]].children)
      PROVE  \E q \in N \ {<<>>} : i = at[q] /\ Front(q) = p
  <2>1. i \in Range(ns[at[p]].children)
    BY <1>3, <1>5
  <2>2. QED
    BY <2>1, ChildIsInTree
<1>6. ASSUME NEW i \in Id, ns2[i] # Free, \A p \in N : at[p] # i
      PROVE  ~ns2[i].entry.dir /\ ns2[i].children = <<>>
  <2>1. ns[i] # Free /\ ns2[i].children = ns[i].children
        /\ ns2[i].entry.dir = ns[i].entry.dir
    BY <1>6 DEF Alike
  <2>2. QED
    BY <1>6, <2>1 DEF TreeOf
<1>7. QED
  BY <1>1, <1>2, <1>3, <1>4, <1>5, <1>6 DEF TreeOf

\* A child that is a directory.
IsChildDirectory(ns, N, at, p, i) ==
  \E q \in N \ {<<>>} : i = at[q] /\ Front(q) = p /\ ns[i].entry.dir

LEMMA ChildDirectoriesAre ==
  ASSUME NEW ns, NEW N, NEW at, TreeOf(ns, N, at), NEW p \in N
  PROVE  /\ ChildDirectories(ns, at[p]) \in Seq(Id)
         /\ IsInjective(ChildDirectories(ns, at[p]))
         /\ \A i : i \in Range(ChildDirectories(ns, at[p])) <=> IsChildDirectory(ns, N, at, p, i)
<1> DEFINE list == ns[at[p]].children
           I == {k \in DOMAIN list : ns[list[k]].entry.dir}
           dirs == ChildDirectories(ns, at[p])
<1>1. list \in Seq(Id) /\ IsInjective(list)
  BY TreeFacts
<1>2. dirs = Keep(list, I) /\ I \subseteq DOMAIN list
  BY DEF ChildDirectories
<1>3. ASSUME NEW i
      PROVE  i \in {list[k] : k \in I} <=> i \in Range(list) /\ ns[i].entry.dir
  BY DEF Range
<1>4. ASSUME NEW i
      PROVE  i \in Range(list) /\ ns[i].entry.dir <=> IsChildDirectory(ns, N, at, p, i)
  <2>1. ASSUME i \in Range(list), ns[i].entry.dir PROVE IsChildDirectory(ns, N, at, p, i)
    <3>1. i \in Range(ns[at[p]].children)
      BY <2>1
    <3> HIDE DEF list, I, dirs
    <3>2. \E q \in N \ {<<>>} : i = at[q] /\ Front(q) = p
      BY <3>1, Zenon DEF TreeOf
    <3>3. QED
      BY <2>1, <3>2 DEF IsChildDirectory
  <2>2. ASSUME IsChildDirectory(ns, N, at, p, i) PROVE i \in Range(list) /\ ns[i].entry.dir
    <3>1. PICK q \in N \ {<<>>} : i = at[q] /\ Front(q) = p /\ ns[i].entry.dir
      BY <2>2 DEF IsChildDirectory
    <3>2. QED
      BY <3>1, TreeFacts
  <2>3. QED
    BY <2>1, <2>2
<1> HIDE DEF list, I, dirs
<1>5. /\ dirs \in Seq(Id) /\ IsInjective(dirs)
      /\ Range(dirs) = {list[k] : k \in I}
  <2>1. /\ Keep(list, I) \in Seq(Id) /\ IsInjective(Keep(list, I))
        /\ Range(Keep(list, I)) = {list[k] : k \in I}
    BY <1>1, <1>2, KeptList
  <2>2. QED
    BY <1>2, <2>1
<1>6. QED
  BY <1>3, <1>4, <1>5 DEF dirs

\* No call of calls is for a path on the way to p, or at or below it.
Apart(calls, p) ==
  \A n \in DOMAIN calls : ~IsPrefix(calls[n].path, p) /\ ~IsPrefix(p, calls[n].path)

\* The first calls are those for the directories in p, the others those of rest.
BelowAndRest(ns, N, at, p, monitored, rest, calls) ==
  /\ calls \in Seq(CallSet)
  /\ \A n \in DOMAIN calls :
       \/ \E q \in N \ {<<>>} : /\ Front(q) = p /\ ns[at[q]].entry.dir
                                /\ calls[n] = Call(at[q], at[p], q, monitored, ~monitored)
       \/ \E k \in DOMAIN rest : calls[n] = rest[k]
  /\ \A m, n \in DOMAIN calls : calls[m].path = calls[n].path => m = n
  /\ \A k \in DOMAIN rest : \E n \in DOMAIN calls : calls[n] = rest[k]
  /\ \A q \in N \ {<<>>} : Front(q) = p /\ ns[at[q]].entry.dir =>
       \E n \in DOMAIN calls : calls[n].path = q

LEMMA CallFacts ==
  ASSUME NEW i \in Id, NEW f \in Id, NEW p \in Places, NEW m \in BOOLEAN, NEW ch \in BOOLEAN
  PROVE  /\ Call(i, f, p, m, ch) \in CallSet
         /\ Call(i, f, p, m, ch).node = i /\ Call(i, f, p, m, ch).father = f
         /\ Call(i, f, p, m, ch).path = p /\ (Call(i, f, p, m, ch).monitored <=> m)
         /\ (Call(i, f, p, m, ch).check <=> ch)
BY DEF Call, CallSet

LEMMA CallsBelowAre ==
  ASSUME NEW ns, NEW N, NEW at, TreeOf(ns, N, at),
         todo \in Seq(CallSet), todo # <<>>,
         NEW c, c.path \in N, c.node = at[c.path], NEW monitored \in BOOLEAN,
         Apart(Tail(todo), c.path),
         \A m, n \in DOMAIN Tail(todo) : Tail(todo)[m].path = Tail(todo)[n].path => m = n
  PROVE  BelowAndRest(ns, N, at, c.path, monitored, Tail(todo), CallsBelow(ns, c, monitored))
<1> DEFINE p == c.path
           rest == Tail(todo)
           dirs == ChildDirectories(ns, at[p])
           calls == CallsBelow(ns, c, monitored)
           check == ~monitored
           first == [n \in 1..Len(dirs) |->
                      Call(dirs[n], at[p], Append(p, ns[dirs[n]].name), monitored, check)]
<1>1. /\ dirs \in Seq(Id) /\ IsInjective(dirs)
      /\ \A i : i \in Range(dirs) <=> IsChildDirectory(ns, N, at, p, i)
  BY ChildDirectoriesAre
<1>2. calls = first \o rest
  BY DEF CallsBelow
<1>3. rest \in Seq(CallSet)
  OBVIOUS
<1>4. Len(dirs) \in Nat /\ DOMAIN dirs = 1..Len(dirs) /\ DOMAIN first = 1..Len(dirs)
      /\ \A n \in 1..Len(dirs) : dirs[n] \in Range(dirs) /\ dirs[n] \in Id
  BY <1>1 DEF Range
<1>5. p \in Seq(Names) /\ at[p] \in Id /\ N \subseteq Places
  BY TreeFacts
<1>6. \A n \in 1..Len(dirs) :
        first[n] = Call(dirs[n], at[p], Append(p, ns[dirs[n]].name), monitored, check)
  OBVIOUS
<1>0. check \in BOOLEAN
  OBVIOUS
<1> HIDE DEF dirs, first, calls, rest, check
<1>7. ASSUME NEW n \in 1..Len(dirs)
      PROVE  \E q \in N \ {<<>>} :
               /\ Front(q) = p /\ ns[at[q]].entry.dir /\ dirs[n] = at[q]
               /\ first[n] = Call(at[q], at[p], q, monitored, check)
  <2>1. IsChildDirectory(ns, N, at, p, dirs[n])
    BY <1>1, <1>4
  <2>2. PICK q \in N \ {<<>>} : dirs[n] = at[q] /\ Front(q) = p /\ ns[dirs[n]].entry.dir
    BY <2>1 DEF IsChildDirectory
  <2>3. Append(p, ns[at[q]].name) = q
    BY <2>2, ChildFacts
  <2>4. first[n] = Call(at[q], at[p], q, monitored, check)
    <3>1. first[n] = Call(dirs[n], at[p], Append(p, ns[dirs[n]].name), monitored, check)
      BY <1>6, Zenon
    <3>2. dirs[n] = at[q]
      BY <2>2
    <3>3. QED
      BY <2>3, <3>1, <3>2, Zenon
  <2>5. QED
    BY <2>2, <2>4
<1>8. ASSUME NEW q \in N \ {<<>>}, Front(q) = p, ns[at[q]].entry.dir
      PROVE  \E n \in 1..Len(dirs) : first[n] = Call(at[q], at[p], q, monitored, check)
  <2>1. at[q] \in Range(dirs)
    BY <1>1, <1>8 DEF IsChildDirectory
  <2>2. PICK n \in 1..Len(dirs) : dirs[n] = at[q]
    BY <1>4, <2>1 DEF Range
  <2>3. Append(p, ns[at[q]].name) = q
    BY <1>8, ChildFacts
  <2>4. QED
    BY <1>6, <2>2, <2>3
<1>9. \A q \in N : Call(at[q], at[p], q, monitored, check) \in CallSet
        /\ Call(at[q], at[p], q, monitored, check).path = q
  <2>1. \A q \in N : q \in Places /\ at[q] \in Id
    BY TreeFacts
  <2>2. QED
    BY <1>0, <1>5, <2>1, CallFacts
<1>10. first \in Seq(CallSet) /\ Len(first) = Len(dirs)
  <2>1. \A n \in 1..Len(dirs) : first[n] \in CallSet
    BY <1>7, <1>9
  <2>2. first = [n \in 1..Len(dirs) |-> first[n]]
    BY DEF first
  <2>3. QED
    BY <1>4, <2>1, <2>2
<1>11. \A m, n \in 1..Len(dirs) : first[m].path = first[n].path => m = n
  <2>1. SUFFICES ASSUME NEW m \in 1..Len(dirs), NEW n \in 1..Len(dirs),
                        first[m].path = first[n].path
                 PROVE  m = n
    OBVIOUS
  <2>2. PICK q \in N \ {<<>>} :
               /\ Front(q) = p /\ ns[at[q]].entry.dir /\ dirs[m] = at[q]
               /\ first[m] = Call(at[q], at[p], q, monitored, check)
    BY <1>7
  <2>3. PICK r \in N \ {<<>>} :
               /\ Front(r) = p /\ ns[at[r]].entry.dir /\ dirs[n] = at[r]
               /\ first[n] = Call(at[r], at[p], r, monitored, check)
    BY <1>7
  <2>4. q = r
    BY <1>9, <2>1, <2>2, <2>3
  <2>5. QED
    BY <1>1, <1>4, <2>2, <2>3, <2>4 DEF IsInjective
<1>12. \A n \in 1..Len(dirs) : first[n].path \in Seq(Names) /\ IsPrefix(p, first[n].path)
  <2>1. SUFFICES ASSUME NEW n \in 1..Len(dirs)
                 PROVE  first[n].path \in Seq(Names) /\ IsPrefix(p, first[n].path)
    OBVIOUS
  <2>2. PICK q \in N \ {<<>>} :
               /\ Front(q) = p /\ ns[at[q]].entry.dir /\ dirs[n] = at[q]
               /\ first[n] = Call(at[q], at[p], q, monitored, check)
    BY <1>7
  <2>3. q \in Seq(Names) /\ first[n].path = q
    BY <1>9, <2>2, TreeFacts
  <2>4. QED
    BY <2>2, <2>3, FrontIsPrefix
<1>21. /\ first \o rest \in Seq(CallSet)
       /\ DOMAIN (first \o rest) = 1..(Len(first) + Len(rest))
       /\ Len(rest) \in Nat /\ DOMAIN rest = 1..Len(rest)
       /\ \A n \in 1..Len(first) : (first \o rest)[n] = first[n]
       /\ \A n \in (Len(first) + 1)..(Len(first) + Len(rest)) :
            (first \o rest)[n] = rest[n - Len(first)]
  <2>1. first \in Seq(CallSet) /\ rest \in Seq(CallSet)
    BY <1>3, <1>10
  <2>2. first \o rest \in Seq(CallSet) /\ DOMAIN (first \o rest) = 1..(Len(first) + Len(rest))
    BY <2>1
  <2>3. Len(rest) \in Nat /\ DOMAIN rest = 1..Len(rest)
    BY <2>1
  <2>4. \A n \in 1..Len(first) : (first \o rest)[n] = first[n]
    BY <2>1
  <2>5. \A n \in (Len(first) + 1)..(Len(first) + Len(rest)) :
            (first \o rest)[n] = rest[n - Len(first)]
    BY <2>1
  <2>6. QED
    BY <2>2, <2>3, <2>4, <2>5
<1> DEFINE k == Len(dirs)
           r == Len(rest)
<1>13. /\ calls \in Seq(CallSet) /\ DOMAIN calls = 1..(k + r) /\ r \in Nat
       /\ DOMAIN rest = 1..r
       /\ \A n \in 1..k : calls[n] = first[n]
       /\ \A n \in (k + 1)..(k + r) : calls[n] = rest[n - k]
  <2>1. k = Len(first) /\ r = Len(rest)
    BY <1>10
  <2> HIDE DEF k, r
  <2>2. QED
    BY <1>2, <1>21, <2>1
<1>14. /\ k \in Nat /\ r \in Nat /\ \A n \in 1..(k + r) : n \in 1..k \/ n \in (k + 1)..(k + r)
       /\ \A n \in (k + 1)..(k + r) : n - k \in 1..r
       /\ \A n \in 1..r : n + k \in (k + 1)..(k + r) /\ (n + k) - k = n
       /\ \A n \in 1..k : n \in 1..(k + r)
  BY <1>4, <1>13
<1>15. ASSUME NEW m \in 1..k, NEW n \in (k + 1)..(k + r) PROVE calls[m].path # calls[n].path
  <2>1. ~IsPrefix(p, rest[n - k].path)
    BY <1>13, <1>14 DEF Apart, rest
  <2>2. QED
    BY <1>12, <1>13, <2>1
<1> HIDE DEF k, r
<1>16. ASSUME NEW m \in DOMAIN calls, NEW n \in DOMAIN calls, calls[m].path = calls[n].path
       PROVE  m = n
  <2>1. CASE m \in 1..k /\ n \in 1..k
    BY <1>11, <1>13, <1>16, <2>1 DEF k
  <2>2. CASE m \in (k + 1)..(k + r) /\ n \in (k + 1)..(k + r)
    <3>1. m - k \in DOMAIN rest /\ n - k \in DOMAIN rest
          /\ rest[m - k].path = rest[n - k].path
      BY <1>13, <1>14, <1>16, <2>2
    <3>2. m - k = n - k
      BY <3>1 DEF rest
    <3>3. m \in Int /\ n \in Int /\ k \in Int
      BY <1>14, <2>2
    <3>4. QED
      BY <3>2, <3>3
  <2>3. QED
    BY <1>13, <1>14, <1>15, <1>16, <2>1, <2>2
<1>17. ASSUME NEW n \in DOMAIN calls
       PROVE  \/ \E q \in N \ {<<>>} : /\ Front(q) = p /\ ns[at[q]].entry.dir
                                       /\ calls[n] = Call(at[q], at[p], q, monitored, check)
              \/ \E j \in DOMAIN rest : calls[n] = rest[j]
  <2>1. CASE n \in 1..k
    BY <1>7, <1>13, <2>1 DEF k
  <2>2. CASE n \in (k + 1)..(k + r)
    BY <1>13, <1>14, <2>2
  <2>3. QED
    BY <1>13, <1>14, <2>1, <2>2
<1>18. ASSUME NEW j \in DOMAIN rest PROVE \E n \in DOMAIN calls : calls[n] = rest[j]
  <2>1. j + k \in (k + 1)..(k + r) /\ (j + k) - k = j
    BY <1>13, <1>14
  <2>2. j + k \in DOMAIN calls
    BY <1>13, <1>14, <2>1
  <2>3. QED
    BY <1>13, <2>1, <2>2
<1>19. ASSUME NEW q \in N \ {<<>>}, Front(q) = p, ns[at[q]].entry.dir
       PROVE  \E n \in DOMAIN calls : calls[n].path = q
  <2>1. PICK n \in 1..k : first[n] = Call(at[q], at[p], q, monitored, check)
    BY <1>8, <1>19 DEF k
  <2>2. calls[n] = first[n] /\ n \in DOMAIN calls
    BY <1>13, <1>14
  <2>3. QED
    BY <1>9, <2>1, <2>2
<1>20. QED
  <2>1. BelowAndRest(ns, N, at, p, monitored, rest, calls)
    BY <1>13, <1>16, <1>17, <1>18, <1>19 DEF BelowAndRest, check
  <2>2. QED
    BY <2>1 DEF rest, calls

\* The next call, and those behind it.
LEMMA HeadAndTail ==
  ASSUME NEW ns, NEW N, NEW at, NEW b, CallsAre(ns, N, at, b, todo),
         todo \in Seq(CallSet), todo # <<>>
  PROVE  /\ Head(todo) \in CallSet /\ CallIs(ns, N, at, b, Head(todo))
         /\ Tail(todo) \in Seq(CallSet) /\ CallsAre(ns, N, at, b, Tail(todo))
         /\ Apart(Tail(todo), Head(todo).path)
         /\ \A n \in DOMAIN todo : \/ todo[n] = Head(todo)
                                   \/ \E k \in DOMAIN Tail(todo) : todo[n] = Tail(todo)[k]
<1> DEFINE rest == Tail(todo)
           r == Len(rest)
<1>1. /\ Head(todo) = todo[1] /\ rest \in Seq(CallSet) /\ r \in Nat
      /\ DOMAIN todo = 1..(r + 1) /\ DOMAIN rest = 1..r
      /\ \A k \in 1..r : rest[k] = todo[k + 1]
      /\ \A n \in 1..(r + 1) : todo[n] \in CallSet
  OBVIOUS
<1> HIDE DEF rest, r
<1>2. 1 \in 1..(r + 1) /\ \A k \in 1..r : k + 1 \in 1..(r + 1) /\ k + 1 # 1
  BY <1>1
<1>3. \A n \in 1..(r + 1) : n = 1 \/ (n - 1 \in 1..r /\ (n - 1) + 1 = n)
  BY <1>1
<1>4. /\ \A n \in 1..(r + 1) : CallIs(ns, N, at, b, todo[n])
      /\ \A m, n \in 1..(r + 1) : IsPrefix(todo[m].path, todo[n].path) => m = n
  BY <1>1 DEF CallsAre
<1>5. CallsAre(ns, N, at, b, rest)
  <2>1. \A k \in 1..r : CallIs(ns, N, at, b, rest[k])
    BY <1>1, <1>2, <1>4
  <2>2. ASSUME NEW k \in 1..r, NEW l \in 1..r, IsPrefix(rest[k].path, rest[l].path)
        PROVE  k = l
    <3>1. k + 1 = l + 1
      BY <1>1, <1>2, <1>4, <2>2
    <3>2. QED
      BY <1>1, <3>1
  <2>3. QED
    BY <1>1, <2>1, <2>2 DEF CallsAre
<1>6. Apart(rest, todo[1].path)
  <2>1. ASSUME NEW k \in 1..r
        PROVE  ~IsPrefix(rest[k].path, todo[1].path) /\ ~IsPrefix(todo[1].path, rest[k].path)
    BY <1>1, <1>2, <1>4
  <2>2. QED
    BY <1>1, <2>1 DEF Apart
<1>7. ASSUME NEW n \in DOMAIN todo
      PROVE  todo[n] = todo[1] \/ \E k \in DOMAIN rest : todo[n] = rest[k]
  <2>1. CASE n = 1
    BY <2>1
  <2>2. CASE n - 1 \in 1..r /\ (n - 1) + 1 = n
    <3>1. rest[n - 1] = todo[n]
      BY <1>1, <2>2
    <3>2. QED
      BY <1>1, <2>2, <3>1
  <2>3. QED
    BY <1>1, <1>3, <2>1, <2>2
<1>8. QED
  BY <1>1, <1>2, <1>4, <1>5, <1>6, <1>7 DEF rest

\* Between a directory and what is deeper below it is one of its entries.
LEMMA StepIn ==
  ASSUME NEW ns, NEW N, NEW at, TreeOf(ns, N, at), NEW q \in N, ns[at[q]].entry.dir,
         NEW p \in Seq(Names), IsPrefix(p, q), p # q
  PROVE  \E e \in N \ {<<>>} : Front(e) = p /\ IsPrefix(e, q) /\ ns[at[e]].entry.dir
<1> DEFINE n == Len(p) + 1
           e == SubSeq(q, 1, n)
<1>1. q \in Seq(Names)
  BY NodeFacts
<1>2. Len(p) \in Nat /\ Len(q) \in Nat /\ Len(p) <= Len(q) /\ SubSeq(q, 1, Len(p)) = p
  BY <1>1 DEF IsPrefix
<1>3. Len(p) # Len(q)
  BY <1>1, <1>2
<1>4. n \in 1..Len(q) /\ n - 1 = Len(p)
  BY <1>2, <1>3
<1> HIDE DEF n
<1>5. e \in Seq(Names) /\ e # <<>> /\ Front(e) = SubSeq(q, 1, n - 1) /\ IsPrefix(e, q)
  BY <1>1, <1>4, WayFacts
<1> HIDE DEF e
<1>6. e \in N /\ (e # q => ns[at[e]].entry.dir)
  BY <1>5, PrefixInTree
<1>7. QED
  BY <1>2, <1>4, <1>5, <1>6

\* The calls that wait are for what stays in the tree, and the bucket means the same
\* for them.
ClearOf(N, D, rest) == \A n \in DOMAIN rest : rest[n].path \notin Under(N, D)
SameFor(b, b2, rest) ==
  \A n \in DOMAIN rest :
    (Listens(b) /\ IsStrictPrefix(b.path, rest[n].path))
      <=> (Listens(b2) /\ IsStrictPrefix(b2.path, rest[n].path))

LEMMA CallsKept ==
  ASSUME NEW ns, NEW N, NEW at, TreeOf(ns, N, at), NEW b, NEW rest,
         CallsAre(ns, N, at, b, rest),
         NEW D, D \subseteq N, NEW Q, NEW ns2, NEW N2, NEW at2,
         IsChanged(ns, N, at, D, Q, ns2, N2, at2),
         ClearOf(N, D, rest), NEW b2, SameFor(b, b2, rest)
  PROVE  CallsAre(ns2, N2, at2, b2, rest)
<1>1. N \subseteq Seq(Names) /\ D \subseteq Seq(Names)
  BY TreeFacts
<1>2. /\ N2 = (N \ Under(N, D)) \cup Q
      /\ \A p \in N \ Under(N, D) : at2[p] = at[p] /\ ns2[at[p]].entry = ns[at[p]].entry
  BY DEF IsChanged
<1>3. ASSUME NEW n \in DOMAIN rest PROVE CallIs(ns2, N2, at2, b2, rest[n])
  <2> DEFINE c == rest[n]
  <2>1. /\ c.path \in N /\ c.node = at[c.path] /\ ns[c.node].entry.dir
        /\ c.monitored <=> Listens(b) /\ IsStrictPrefix(b.path, c.path)
        /\ c.check => ~c.monitored /\ c.path # <<>> /\ c.father = at[Front(c.path)]
    BY DEF CallsAre, CallIs
  <2>2. c.path \in N \ Under(N, D)
    BY <2>1 DEF ClearOf
  <2>3. c.monitored <=> Listens(b2) /\ IsStrictPrefix(b2.path, c.path)
    BY <2>1 DEF SameFor
  <2> HIDE DEF c
  <2>4. /\ c.path \in N2 /\ c.node = at2[c.path] /\ ns2[c.node].entry.dir
    BY <1>2, <2>1, <2>2
  <2>5. ASSUME c.path # <<>> PROVE Front(c.path) \in N \ Under(N, D)
    <3>1. Front(c.path) \in N
      BY <2>1, <2>5, ChildFacts
    <3>2. ASSUME NEW d \in D, IsPrefix(d, Front(c.path)) PROVE FALSE
      <4>1. IsPrefix(d, c.path)
        BY <1>1, <2>1, <2>5, <3>2, PrefixOfChild
      <4>2. QED
        BY <2>2, <4>1 DEF Under
    <3>3. QED
      BY <3>1, <3>2 DEF Under
  <2>6. c.check => ~c.monitored /\ c.path # <<>> /\ c.father = at2[Front(c.path)]
    BY <1>2, <2>1, <2>5
  <2>7. QED
    BY <2>3, <2>4, <2>6 DEF CallIs, c
<1>4. \A m, n \in DOMAIN rest : IsPrefix(rest[m].path, rest[n].path) => m = n
  BY DEF CallsAre
<1>5. QED
  BY <1>3, <1>4 DEF CallsAre

LEMMA AlikeCalls ==
  ASSUME NEW ns, NEW N, NEW at, TreeOf(ns, N, at), NEW b, NEW rest,
         CallsAre(ns, N, at, b, rest), NEW ns2, Alike(ns, ns2)
  PROVE  CallsAre(ns2, N, at, b, rest)
<1>1. ASSUME NEW n \in DOMAIN rest PROVE CallIs(ns2, N, at, b, rest[n])
  <2> DEFINE c == rest[n]
  <2>1. CallIs(ns, N, at, b, c)
    BY DEF CallsAre
  <2> HIDE DEF c
  <2>2. c.path \in N /\ c.node = at[c.path] /\ ns[c.node].entry.dir
    BY <2>1 DEF CallIs
  <2>3. c.node \in Id /\ ns[c.node] # Free
    BY <2>2, NodeFacts
  <2>4. ns2[c.node].entry.dir
    BY <2>2, <2>3 DEF Alike
  <2>5. QED
    BY <2>1, <2>4 DEF CallIs, c
<1>2. QED
  BY <1>1 DEF CallsAre

\* The calls for what is in directory p, before those that wait, are as they must be.
LEMMA CallsAfter ==
  ASSUME NEW ns, NEW N, NEW at, TreeOf(ns, N, at), NEW p \in N, NEW rest, NEW calls,
         NEW b, b.path \in Seq(Names), NEW monitored \in BOOLEAN,
         monitored <=> Listens(b) /\ IsPrefix(b.path, p),
         CallsAre(ns, N, at, b, rest), Apart(rest, p),
         BelowAndRest(ns, N, at, p, monitored, rest, calls)
  PROVE  CallsAre(ns, N, at, b, calls)
<1>1. p \in Seq(Names) /\ at[p] \in Id /\ N \subseteq Seq(Names)
  BY TreeFacts
<1>2. ASSUME NEW q \in N, q # <<>>, Front(q) = p, ns[at[q]].entry.dir,
             NEW c, c = Call(at[q], at[p], q, monitored, ~monitored)
      PROVE  CallIs(ns, N, at, b, c) /\ c.path = q
  <2>1. at[q] \in Id /\ q \in Places /\ q \in Seq(Names)
    BY NodeFacts
  <2> DEFINE check == ~monitored
  <2>2. check \in BOOLEAN /\ c = Call(at[q], at[p], q, monitored, check)
    BY <1>2
  <2> HIDE DEF check
  <2>3. c.node = at[q] /\ c.father = at[p] /\ c.path = q
        /\ (c.monitored <=> monitored) /\ (c.check <=> check)
    BY <1>1, <2>1, <2>2, CallFacts
  <2>4. IsStrictPrefix(b.path, q) <=> IsPrefix(b.path, p)
    <3>1. IsPrefix(b.path, q) <=> b.path = q \/ IsPrefix(b.path, p)
      BY <1>2, <2>1, PrefixOfChild
    <3>2. ~IsPrefix(q, p)
      BY <1>1, <1>2, <2>1, FrontIsPrefix DEF IsPrefix
    <3>3. QED
      BY <3>1, <3>2 DEF IsStrictPrefix
  <2>5. c.check => ~c.monitored
    BY <2>3 DEF check
  <2>6. QED
    BY <1>2, <2>3, <2>4, <2>5 DEF CallIs
<1>3. ASSUME NEW n \in DOMAIN calls
      PROVE  /\ CallIs(ns, N, at, b, calls[n])
             /\ \/ calls[n].path \in N /\ calls[n].path # <<>> /\ Front(calls[n].path) = p
                \/ \E k \in DOMAIN rest : calls[n] = rest[k]
  <2>1. CASE \E q \in N \ {<<>>} : /\ Front(q) = p /\ ns[at[q]].entry.dir
                                   /\ calls[n] = Call(at[q], at[p], q, monitored, ~monitored)
    <3>1. PICK q \in N \ {<<>>} : /\ Front(q) = p /\ ns[at[q]].entry.dir
                                  /\ calls[n] = Call(at[q], at[p], q, monitored, ~monitored)
      BY <2>1
    <3>2. CallIs(ns, N, at, b, calls[n]) /\ calls[n].path = q
      BY <1>2, <3>1
    <3>3. QED
      BY <3>1, <3>2
  <2>2. CASE \E k \in DOMAIN rest : calls[n] = rest[k]
    BY <2>2 DEF CallsAre
  <2>3. QED
    BY <2>1, <2>2 DEF BelowAndRest
<1>4. \A n \in DOMAIN calls : calls[n].path \in Seq(Names)
  BY <1>1, <1>3 DEF CallIs
<1>5. ASSUME NEW m \in DOMAIN calls, NEW n \in DOMAIN calls,
             IsPrefix(calls[m].path, calls[n].path)
      PROVE  calls[m].path = calls[n].path
  <2>1. CASE /\ calls[m].path # <<>> /\ Front(calls[m].path) = p
             /\ calls[n].path # <<>> /\ Front(calls[n].path) = p
    <3>1. Len(calls[m].path) = Len(calls[n].path)
      BY <1>4, <2>1, FrontIsPrefix
    <3>2. calls[m].path \in Seq(Names) /\ calls[n].path \in Seq(Names)
      BY <1>4
    <3>3. IsPrefix(calls[n].path, calls[n].path)
      BY <3>2 DEF IsPrefix
    <3>4. QED
      BY <1>5, <3>1, <3>2, <3>3, SameLengthPrefixes
  <2>2. CASE /\ calls[m].path # <<>> /\ Front(calls[m].path) = p
             /\ \E k \in DOMAIN rest : calls[n] = rest[k]
    <3>1. IsPrefix(p, calls[m].path)
      BY <1>4, <2>2, FrontIsPrefix
    <3>2. IsPrefix(p, calls[n].path)
      BY <1>1, <1>4, <1>5, <3>1, PrefixTransitive
    <3>3. QED
      BY <2>2, <3>2 DEF Apart
  <2>3. CASE /\ calls[n].path # <<>> /\ Front(calls[n].path) = p
             /\ \E k \in DOMAIN rest : calls[m] = rest[k]
    <3>1. calls[m].path = calls[n].path \/ IsPrefix(calls[m].path, p)
      BY <1>4, <1>5, <2>3, PrefixOfChild
    <3>2. QED
      BY <2>3, <3>1 DEF Apart
  <2>4. CASE /\ \E k \in DOMAIN rest : calls[m] = rest[k]
             /\ \E k \in DOMAIN rest : calls[n] = rest[k]
    <3>1. PICK j \in DOMAIN rest, k \in DOMAIN rest : calls[m] = rest[j] /\ calls[n] = rest[k]
      BY <2>4
    <3>2. j = k
      BY <1>5, <3>1 DEF CallsAre
    <3>3. QED
      BY <3>1, <3>2
  <2>5. QED
    BY <1>3, <2>1, <2>2, <2>3, <2>4
<1>6. QED
  BY <1>3, <1>5 DEF CallsAre, BelowAndRest

\* No call is for directory d or for what it lies in.
Uncalled(calls, d) == \A n \in DOMAIN calls : ~IsPrefix(calls[n].path, d)

\* A directory no call will come to is p, or not below it and was not to be come to.
LEMMA NotCalled ==
  ASSUME NEW ns, NEW N, NEW at, TreeOf(ns, N, at), NEW p \in N, NEW rest, NEW calls,
         NEW monitored, BelowAndRest(ns, N, at, p, monitored, rest, calls),
         NEW d \in N, ns[at[d]].entry.dir,
         Uncalled(calls, d)
  PROVE  (d = p \/ ~IsPrefix(p, d)) /\ Uncalled(rest, d)
<1>1. p \in Seq(Names)
  BY NodeFacts
<1>2. Uncalled(rest, d)
  BY DEF BelowAndRest, Uncalled
<1>3. ASSUME IsPrefix(p, d), p # d PROVE FALSE
  <2>1. PICK e \in N \ {<<>>} : Front(e) = p /\ IsPrefix(e, d) /\ ns[at[e]].entry.dir
    BY <1>1, <1>3, StepIn
  <2>2. PICK n \in DOMAIN calls : calls[n].path = e
    BY <2>1 DEF BelowAndRest
  <2>3. QED
    BY <2>1, <2>2 DEF Uncalled
<1>4. QED
  BY <1>2, <1>3

-----------------------------------------------------------------------------
(* The invariant, and the steps that preserve it.                          *)

IInv ==
  /\ TypeOK /\ todo \in Seq(CallSet) /\ DiskIsClosed
  /\ \E N, at : Inv(N, at)

\* The parts of TypeOK that no tree implies.
Typed ==
  /\ disk \in [Paths -> Entry \cup {NoEntry}]
  /\ changes \in 0..MaxChanges
  /\ bucket \in [path : Watched \cup {<<>>}, mark : BOOLEAN]
  /\ view \subseteq [path : Paths, entry : Entry]
  /\ {quiet, failed} \subseteq BOOLEAN

LEMMA BucketPath ==
  ASSUME TypeOK
  PROVE  /\ Typed /\ bucket.path \in Seq(Names) /\ bucket.path \in Watched \cup {<<>>}
         /\ bucket = [path |-> bucket.path, mark |-> bucket.mark]
         /\ bucket.mark \in BOOLEAN
<1>1. bucket.path \in Places
  BY WatchedPaths DEF TypeOK, Places
<1>2. bucket.path \in Seq(Names)
  BY <1>1, PlaceFacts
<1>3. QED
  BY <1>2 DEF TypeOK, Typed

LEMMA SameDisk ==
  ASSUME disk' = disk
  PROVE  \A d : /\ EntryAt(d)' = EntryAt(d) /\ WayOpen(d)' = WayOpen(d)
                /\ IsDirectory(d)' = IsDirectory(d) /\ Readable(d)' = Readable(d)
BY DEF Readable, IsDirectory, EntryAt, WayOpen

LEMMA ComparedSame ==
  ASSUME disk' = disk, NEW N, NEW at, Compared(nodes', N, at, bucket', todo')
  PROVE  Compared(nodes, N, at, bucket, todo)'
<1>1. \A d : Readable(d)' = Readable(d)
  BY SameDisk
<1>2. \A d : ExactIn(nodes', N, at, d) <=> ExactIn(nodes, N, at, d)'
  BY DEF ExactIn
<1>3. QED
  BY <1>1, <1>2 DEF Compared

\* What is to be shown of a step that leaves the disk alone.
LEMMA InvAfter ==
  ASSUME disk' = disk, DiskIsClosed, Typed', (todo \in Seq(CallSet))', NEW N, NEW at,
         TreeOf(nodes', N, at), MarksAre(nodes', N, at, bucket'),
         CallsAre(nodes', N, at, bucket', todo'),
         Listens(bucket') => view' = Entries(nodes', N, at, bucket'.path),
         quiet' /\ Listens(bucket') => Compared(nodes', N, at, bucket', todo')
  PROVE  IInv'
<1>1. TypeOK'
  <2>1. \A i \in Id : nodes'[i] = Free \/ nodes'[i] \in Node
    BY DEF TreeOf
  <2>2. \A n \in DOMAIN todo' : todo'[n] \in CallSet
    OBVIOUS
  <2>3. CallSet = [node : Id, father : Id, path : Paths \cup {<<>>},
                   monitored : BOOLEAN, check : BOOLEAN]
    BY DEF CallSet, Places
  <2>4. QED
    BY <2>1, <2>2, <2>3 DEF TypeOK, Typed
<1>2. DiskIsClosed'
  BY DEF DiskIsClosed
<1>3. Inv(N, at)'
  BY ComparedSame DEF Inv
<1>4. QED
  BY <1>1, <1>2, <1>3 DEF IInv

LEMMA StartScanStep ==
  ASSUME IInv, StartScan
  PROVE  IInv'
<1>1. PICK N, at : Inv(N, at)
  BY DEF IInv
<1>2. TypeOK /\ DiskIsClosed /\ Typed
  BY BucketPath DEF IInv
<1>3. TreeOf(nodes, N, at) /\ MarksAre(nodes, N, at, bucket)
      /\ (Listens(bucket) => view = Entries(nodes, N, at, bucket.path))
  BY <1>1 DEF Inv
<1> DEFINE c == Call(Root, Root, <<>>, FALSE, FALSE)
<1>4. c \in CallSet /\ c.node = Root /\ c.path = <<>> /\ ~c.monitored /\ ~c.check
  <2>1. <<>> \in Places /\ Root \in Id
    BY IdFacts DEF Places
  <2>2. QED
    BY <2>1 DEF Call, CallSet
<1> HIDE DEF c
<1>5. todo' = <<c>> /\ UNCHANGED <<disk, nodes, bucket, view>> /\ quiet' = TRUE
      /\ changes' = changes /\ failed' = failed
  BY DEF StartScan, c
<1>6. todo' \in Seq(CallSet) /\ DOMAIN todo' = {1} /\ todo'[1] = c
  BY <1>4, <1>5
<1>7. \A p : IsStrictPrefix(p, <<>>) => FALSE
  <2>1. SUFFICES ASSUME NEW p, IsStrictPrefix(p, <<>>) PROVE FALSE
    OBVIOUS
  <2>2. QED
    BY <2>1 DEF IsStrictPrefix, IsPrefix
<1>8. CallIs(nodes', N, at, bucket', c)
  <2>1. <<>> \in N /\ at[<<>>] = Root
    BY <1>3, TreeFacts
  <2>2. nodes[Root].entry.dir
    BY <1>3, <1>7, <2>1 DEF MarksAre
  <2>3. QED
    BY <1>4, <1>5, <1>7, <2>1, <2>2 DEF CallIs
<1>9. CallsAre(nodes', N, at, bucket', todo')
  BY <1>6, <1>8 DEF CallsAre
<1>10. Compared(nodes', N, at, bucket', todo')
  <2>1. SUFFICES ASSUME NEW d \in N, \A n \in DOMAIN todo' : ~IsPrefix(todo'[n].path, d)
                 PROVE  FALSE
    BY DEF Compared
  <2>2. d \in Seq(Names)
    BY <1>3, NodeFacts
  <2>3. IsPrefix(<<>>, d)
    BY <2>2 DEF IsPrefix
  <2>4. QED
    BY <1>4, <1>6, <2>1, <2>3
<1>11. Typed'
  BY <1>2, <1>5 DEF Typed
<1>12. QED
  BY <1>2, <1>3, <1>5, <1>6, <1>9, <1>10, <1>11, InvAfter

LEMMA ReadMarkedStep ==
  ASSUME IInv, ReadMarked
  PROVE  IInv'
<1>1. PICK N, at : Inv(N, at)
  BY DEF IInv
<1>2. TypeOK /\ DiskIsClosed /\ Typed /\ todo \in Seq(CallSet)
  BY BucketPath DEF IInv
<1>3. TreeOf(nodes, N, at) /\ MarksAre(nodes, N, at, bucket)
  BY <1>1 DEF Inv
<1>4. /\ todo = <<>> /\ bucket.mark /\ bucket' = NoBucket /\ view' = {}
      /\ UNCHANGED <<disk, changes, nodes, todo, quiet, failed>>
  BY DEF ReadMarked
<1>5. ~Listens(bucket) /\ ~Listens(bucket')
  BY <1>4 DEF Listens, NoBucket
<1>6. MarksAre(nodes', N, at, bucket')
  BY <1>3, <1>4, <1>5 DEF MarksAre
<1>7. CallsAre(nodes', N, at, bucket', todo')
  BY <1>4 DEF CallsAre
<1>8. Typed' /\ (todo \in Seq(CallSet))'
  BY <1>2, <1>4 DEF Typed, NoBucket
<1>9. QED
  BY <1>2, <1>3, <1>4, <1>5, <1>6, <1>7, <1>8, InvAfter

\* Two paths that begin a third are on one way.
LEMMA OneWay ==
  ASSUME NEW p \in Seq(Names), NEW q \in Seq(Names), NEW r \in Seq(Names),
         IsPrefix(p, r), IsPrefix(q, r)
  PROVE  IsPrefix(p, q) \/ IsPrefix(q, p)
<1>1. Len(p) \in Nat /\ Len(q) \in Nat
  OBVIOUS
<1>2. CASE Len(p) <= Len(q)
  BY <1>2, PrefixesNest
<1>3. CASE Len(q) <= Len(p)
  BY <1>3, PrefixesNest
<1>4. QED
  BY <1>1, <1>2, <1>3

\* The call is made without a look at the directory again.
LEMMA CheckedStep ==
  ASSUME IInv, CheckDirectory, IsDirectory(Head(todo).path)
  PROVE  IInv'
<1>1. PICK N, at : Inv(N, at)
  BY DEF IInv
<1>2. TypeOK /\ DiskIsClosed /\ Typed /\ todo \in Seq(CallSet)
  BY BucketPath DEF IInv
<1>3. /\ TreeOf(nodes, N, at) /\ MarksAre(nodes, N, at, bucket)
      /\ CallsAre(nodes, N, at, bucket, todo)
      /\ Listens(bucket) => view = Entries(nodes, N, at, bucket.path)
      /\ quiet /\ Listens(bucket) => Compared(nodes, N, at, bucket, todo)
  BY <1>1 DEF Inv
<1> DEFINE c == [Head(todo) EXCEPT !.check = FALSE]
<1>4. /\ todo # <<>> /\ todo' = <<c>> \o Tail(todo)
      /\ UNCHANGED <<disk, changes, nodes, bucket, view, quiet, failed>>
  BY DEF CheckDirectory
<1>5. /\ Head(todo) = todo[1] /\ 1 \in DOMAIN todo /\ todo[1] \in CallSet
  BY <1>2, <1>4
<1>6. /\ c \in CallSet /\ c.node = todo[1].node /\ c.path = todo[1].path
      /\ (c.monitored <=> todo[1].monitored) /\ ~c.check
  BY <1>5 DEF CallSet
<1> HIDE DEF c
<1>7. /\ todo' \in Seq(CallSet) /\ DOMAIN todo' = DOMAIN todo
      /\ \A n \in DOMAIN todo : todo'[n] = IF n = 1 THEN c ELSE todo[n]
  BY <1>2, <1>4, <1>6
<1>8. \A n \in DOMAIN todo : todo'[n].path = todo[n].path
  BY <1>5, <1>6, <1>7
<1>9. ASSUME NEW n \in DOMAIN todo' PROVE CallIs(nodes', N, at, bucket', todo'[n])
  <2>1. CallIs(nodes, N, at, bucket, todo[n])
    BY <1>3, <1>7 DEF CallsAre
  <2>2. CASE n = 1
    BY <1>4, <1>6, <1>7, <2>1, <2>2 DEF CallIs
  <2>3. CASE n # 1
    BY <1>4, <1>7, <2>1, <2>3
  <2>4. QED
    BY <2>2, <2>3
<1>10. CallsAre(nodes', N, at, bucket', todo')
  <2>1. \A m, n \in DOMAIN todo' : IsPrefix(todo'[m].path, todo'[n].path) => m = n
    BY <1>3, <1>7, <1>8 DEF CallsAre
  <2>2. QED
    BY <1>9, <2>1 DEF CallsAre
<1>11. quiet' /\ Listens(bucket') => Compared(nodes', N, at, bucket', todo')
  <2>1. SUFFICES ASSUME quiet, Listens(bucket) PROVE Compared(nodes, N, at, bucket, todo')
    BY <1>4
  <2>2. Compared(nodes, N, at, bucket, todo)
    BY <1>3, <2>1
  <2>3. \A d : (\A n \in DOMAIN todo' : ~IsPrefix(todo'[n].path, d))
               => \A n \in DOMAIN todo : ~IsPrefix(todo[n].path, d)
    BY <1>7, <1>8
  <2>4. QED
    BY <2>2, <2>3 DEF Compared
<1>12. Typed'
  BY <1>2, <1>4 DEF Typed
<1>13. QED
  BY <1>2, <1>3, <1>4, <1>7, <1>10, <1>11, <1>12, InvAfter

\* The marks after a change of the tree: b2 is the bucket as it was, or it was marked
\* and its directory left the tree.
MayBeNew(b, Q) ==
  \A q \in Q : EntryAt(q).dir \/ (Listens(b) /\ IsStrictPrefix(b.path, q))

LEMMA MarksKept ==
  ASSUME NEW ns, NEW N, NEW at, TreeOf(ns, N, at), NEW b, b.path \in Seq(Names),
         MarksAre(ns, N, at, b), NEW D, D \subseteq N, NEW Q, NEW ns2, NEW N2, NEW at2,
         IsChanged(ns, N, at, D, Q, ns2, N2, at2),
         NEW b2, b2.path = b.path,
         Listens(b2) => Listens(b) /\ b.path \notin Under(N, D),
         Listens(b) /\ ~Listens(b2) => b.path \in Under(N, D),
         MayBeNew(b2, Q), Listens(b2) => b.path \notin Q
  PROVE  MarksAre(ns2, N2, at2, b2)
<1>1. N \subseteq Seq(Names) /\ D \subseteq Seq(Names)
  BY TreeFacts
<1>2. /\ N2 = (N \ Under(N, D)) \cup Q
      /\ \A p \in N \ Under(N, D) : /\ p \notin Q /\ at2[p] = at[p]
                                    /\ ns2[at[p]].entry = ns[at[p]].entry
                                    /\ ns2[at[p]].monitored = ns[at[p]].monitored
      /\ \A q \in Q : ns2[at2[q]].entry = EntryAt(q) /\ ~ns2[at2[q]].monitored
  BY DEF IsChanged
<1>3. /\ Listens(b) => b.path \in N /\ ns[at[b.path]].entry.dir
      /\ \A p \in N : ns[at[p]].monitored <=> Listens(b) /\ p = b.path
      /\ \A p \in N : ns[at[p]].entry.dir \/ (Listens(b) /\ IsStrictPrefix(b.path, p))
  BY DEF MarksAre
<1>4. ASSUME NEW p \in N, NEW q \in N, IsPrefix(p, q), p \in Under(N, D)
      PROVE  q \in Under(N, D)
  <2>1. PICK d \in D : IsPrefix(d, p)
    BY <1>4 DEF Under
  <2>2. IsPrefix(d, q)
    BY <1>1, <1>4, <2>1, PrefixTransitive
  <2>3. QED
    BY <2>2 DEF Under
<1>5. Listens(b2) => b2.path \in N2 /\ ns2[at2[b2.path]].entry.dir
  BY <1>2, <1>3
<1>6. ASSUME NEW p \in N2 PROVE ns2[at2[p]].monitored <=> Listens(b2) /\ p = b2.path
  BY <1>2, <1>3
<1>7. ASSUME NEW p \in N2
      PROVE  ns2[at2[p]].entry.dir \/ (Listens(b2) /\ IsStrictPrefix(b2.path, p))
  <2>1. CASE p \in Q
    BY <1>2, <2>1 DEF MayBeNew
  <2>2. CASE p \in N \ Under(N, D)
    <3>1. SUFFICES ASSUME Listens(b), IsStrictPrefix(b.path, p), ~Listens(b2) PROVE FALSE
      BY <1>2, <1>3, <2>2
    <3>2. b.path \in Under(N, D) /\ b.path \in N
      BY <1>3, <3>1
    <3>3. p \in Under(N, D)
      BY <1>4, <2>2, <3>1, <3>2 DEF IsStrictPrefix
    <3>4. QED
      BY <2>2, <3>3
  <2>3. QED
    BY <1>2, <2>1, <2>2
<1>8. QED
  BY <1>5, <1>6, <1>7 DEF MarksAre

\* A child that is no directory any more leaves the tree with its branch.
LEMMA UncheckedStep ==
  ASSUME IInv, CheckDirectory, ~IsDirectory(Head(todo).path)
  PROVE  IInv'
<1>1. PICK N, at : Inv(N, at)
  BY DEF IInv
<1>2. /\ TypeOK /\ DiskIsClosed /\ Typed /\ todo \in Seq(CallSet)
      /\ bucket.path \in Seq(Names) /\ bucket.path \in Watched \cup {<<>>}
      /\ bucket = [path |-> bucket.path, mark |-> bucket.mark] /\ bucket.mark \in BOOLEAN
  BY BucketPath DEF IInv
<1>3. /\ TreeOf(nodes, N, at) /\ MarksAre(nodes, N, at, bucket)
      /\ CallsAre(nodes, N, at, bucket, todo)
      /\ Listens(bucket) => view = Entries(nodes, N, at, bucket.path)
      /\ quiet /\ Listens(bucket) => Compared(nodes, N, at, bucket, todo)
  BY <1>1 DEF Inv
<1> DEFINE c == Head(todo)
           d == c.path
           rest == Tail(todo)
<1>4. /\ todo # <<>> /\ c.check /\ todo' = rest
      /\ nodes' = DeleteChildren(nodes, c.father, {c.node})
      /\ Tell({}, {Known(d, nodes[c.node].entry)}, {})
      /\ UNCHANGED <<disk, changes, quiet, failed>>
  BY DEF CheckDirectory
<1>5. /\ CallIs(nodes, N, at, bucket, c) /\ rest \in Seq(CallSet)
      /\ CallsAre(nodes, N, at, bucket, rest) /\ Apart(rest, d)
      /\ \A n \in DOMAIN todo : todo[n] = c \/ \E k \in DOMAIN rest : todo[n] = rest[k]
  BY <1>2, <1>3, <1>4, HeadAndTail
<1> HIDE DEF c, rest
<1>6. /\ d \in N /\ d # <<>> /\ c.node = at[d] /\ nodes[at[d]].entry.dir
      /\ c.father = at[Front(d)] /\ ~(Listens(bucket) /\ IsStrictPrefix(bucket.path, d))
  BY <1>4, <1>5 DEF CallIs
<1> HIDE DEF d
<1>7. N \subseteq Seq(Names) /\ d \in Seq(Names)
  BY <1>3, <1>6, TreeFacts
<1>8. PICK N2, at2 : IsChanged(nodes, N, at, {d}, {}, nodes', N2, at2)
  <2>1. d \in N \ {<<>>}
    BY <1>6
  <2>2. nodes' = DeleteChildren(nodes, at[Front(d)], {at[d]})
    BY <1>4, <1>6
  <2>3. QED
    BY <1>3, <2>1, <2>2, DeleteOnly
<1>9. \A p : p \in Under(N, {d}) <=> p \in N /\ IsPrefix(d, p)
  BY DEF Under
<1>10. /\ TreeOf(nodes', N2, at2) /\ N2 = N \ Under(N, {d})
       /\ \A p \in N2 : at2[p] = at[p] /\ nodes'[at[p]].entry = nodes[at[p]].entry
  BY <1>8 DEF IsChanged
<1>11. /\ bucket' = [bucket EXCEPT !.mark = @ \/ Marks(d)]
       /\ view' = {k \in view : ~(Hears(k.path) /\
                     (k = Known(d, nodes[at[d]].entry) \/ IsStrictPrefix(d, k.path)))}
  <2>1. Known(d, nodes[at[d]].entry).path = d /\ Known(d, nodes[at[d]].entry).entry.dir
    BY <1>6 DEF Known
  <2>2. Tell({}, {Known(d, nodes[at[d]].entry)}, {})
    BY <1>4, <1>6
  <2>3. QED
    BY <2>1, <2>2 DEF Tell
<1>12. /\ bucket'.path = bucket.path /\ (bucket'.mark <=> bucket.mark \/ Marks(d))
       /\ bucket' \in [path : Watched \cup {<<>>}, mark : BOOLEAN]
  BY <1>2, <1>11
<1>13. Listens(bucket') <=> Listens(bucket) /\ ~IsPrefix(d, bucket.path)
  BY <1>12 DEF Listens, Marks
<1>14. Listens(bucket) => bucket.path \in N
  BY <1>3 DEF MarksAre
<1>15. ASSUME Listens(bucket')
       PROVE  ~IsPrefix(d, bucket.path) /\ ~IsPrefix(bucket.path, d)
  <2>1. d # bucket.path
    BY <1>7, <1>13, <1>15 DEF IsPrefix
  <2>2. QED
    BY <1>6, <1>13, <1>15, <2>1 DEF IsStrictPrefix
<1>16. MarksAre(nodes', N2, at2, bucket')
  <2>1. Listens(bucket') => Listens(bucket) /\ bucket.path \notin Under(N, {d})
    BY <1>9, <1>13
  <2>2. Listens(bucket) /\ ~Listens(bucket') => bucket.path \in Under(N, {d})
    BY <1>9, <1>13, <1>14
  <2>3. {d} \subseteq N /\ MayBeNew(bucket', {}) /\ (Listens(bucket') => bucket.path \notin {})
    BY <1>6 DEF MayBeNew
  <2>4. QED
    BY <1>2, <1>3, <1>8, <1>12, <2>1, <2>2, <2>3, MarksKept
<1>17. ClearOf(N, {d}, rest)
  BY <1>5, <1>9 DEF ClearOf, Apart
<1>18. SameFor(bucket, bucket', rest)
  <2>1. SUFFICES ASSUME NEW n \in DOMAIN rest, Listens(bucket), ~Listens(bucket'),
                        IsStrictPrefix(bucket.path, rest[n].path)
                 PROVE  FALSE
    BY <1>12, <1>13 DEF SameFor
  <2>2. rest[n].path \in Seq(Names)
    BY <1>5, <1>7 DEF CallsAre, CallIs
  <2>3. IsPrefix(d, rest[n].path)
    BY <1>2, <1>7, <1>13, <2>1, <2>2, PrefixTransitive DEF IsStrictPrefix
  <2>4. QED
    BY <1>5, <2>3 DEF Apart
<1>19. CallsAre(nodes', N2, at2, bucket', rest)
  <2>1. {d} \subseteq N
    BY <1>6
  <2>2. QED
    BY <1>3, <1>5, <1>8, <1>17, <1>18, <2>1, CallsKept
<1>20. ASSUME Listens(bucket'), NEW p \in N, IsPrefix(bucket.path, p) PROVE p \in N2
  <2>1. ~IsPrefix(d, p)
    BY <1>2, <1>7, <1>15, <1>20, OneWay
  <2>2. QED
    BY <1>9, <1>10, <2>1
<1>21. Listens(bucket') => view' = Entries(nodes', N2, at2, bucket'.path)
  <2>1. SUFFICES ASSUME Listens(bucket') PROVE view' = Entries(nodes', N2, at2, bucket.path)
    BY <1>12
  <2>2. view = Entries(nodes, N, at, bucket.path)
    BY <1>3, <1>13, <2>1
  <2>3. ASSUME NEW k \in view
        PROVE  ~(Hears(k.path) /\ (k = Known(d, nodes[at[d]].entry) \/ IsStrictPrefix(d, k.path)))
    <3>1. PICK q \in N : k = Known(q, nodes[at[q]].entry) /\ IsStrictPrefix(bucket.path, q)
      BY <2>2 DEF Entries
    <3>2. k.path = q
      BY <3>1 DEF Known
    <3>3. ~IsPrefix(d, q)
      BY <1>2, <1>7, <1>15, <2>1, <3>1, OneWay DEF IsStrictPrefix
    <3>4. IsPrefix(d, d) /\ Known(d, nodes[at[d]].entry).path = d
      BY <1>7 DEF IsPrefix, Known
    <3>5. QED
      BY <3>2, <3>3, <3>4 DEF IsStrictPrefix
  <2>4. view' = view
    BY <1>11, <2>3
  <2>5. \A k : k \in Entries(nodes, N, at, bucket.path) <=>
                 k \in Entries(nodes', N2, at2, bucket.path)
    <3>1. \A q : q \in N /\ IsStrictPrefix(bucket.path, q) <=>
                 q \in N2 /\ IsStrictPrefix(bucket.path, q)
      BY <1>10, <1>20, <2>1 DEF IsStrictPrefix
    <3>2. \A q \in N2 : nodes'[at2[q]].entry = nodes[at[q]].entry
      BY <1>10
    <3>3. QED
      BY <3>1, <3>2 DEF Entries
  <2>6. QED
    BY <2>2, <2>4, <2>5
<1>22. quiet' /\ Listens(bucket') => Compared(nodes', N2, at2, bucket', todo')
  <2>1. SUFFICES ASSUME quiet, Listens(bucket'), NEW e \in N2,
                        nodes'[at2[e]].entry.dir, IsPrefix(bucket.path, e), Readable(e),
                        \A n \in DOMAIN rest : ~IsPrefix(rest[n].path, e)
                 PROVE  ExactIn(nodes', N2, at2, e)
    BY <1>4, <1>12 DEF Compared
  <2>2. e \in N /\ at2[e] = at[e] /\ nodes[at[e]].entry.dir
    BY <1>10, <2>1
  <2>3. ~IsPrefix(d, e)
    BY <1>2, <1>7, <1>15, <2>1, <2>2, OneWay
  <2>4. \A n \in DOMAIN todo : ~IsPrefix(todo[n].path, e)
    BY <1>5, <2>1, <2>3 DEF d
  <2>5. ExactIn(nodes, N, at, e)
    <3>1. Compared(nodes, N, at, bucket, todo)
      BY <1>3, <1>13, <2>1
    <3>2. QED
      BY <2>1, <2>2, <2>4, <3>1 DEF Compared
  <2>6. ASSUME NEW q \in Paths, Front(q) = e, q \in N PROVE q \in N2
    <3>1. q \in Seq(Names) /\ q # <<>>
      BY <1>7, <2>6, PlaceFacts
    <3>2. IsPrefix(bucket.path, q)
      BY <1>2, <2>1, <2>6, <3>1, PrefixOfChild
    <3>3. QED
      BY <1>20, <2>1, <2>6, <3>2
  <2>7. QED
    BY <1>10, <2>5, <2>6 DEF ExactIn
<1>23. Typed'
  <2>1. view' \subseteq view
    BY <1>11
  <2>2. QED
    BY <1>2, <1>4, <1>12, <2>1 DEF Typed
<1>24. (todo \in Seq(CallSet))'
  BY <1>4, <1>5
<1>25. disk' = disk /\ todo' = rest
  BY <1>4
<1>26. QED
  BY <1>2, <1>10, <1>16, <1>19, <1>21, <1>22, <1>23, <1>24, <1>25, InvAfter

\* What lies on the way to a directory is a directory, and can be read with it.
LEMMA DirsAbove ==
  ASSUME DiskIsClosed, NEW d \in Places, EntryAt(d).dir,
         NEW p \in Seq(Names), IsPrefix(p, d)
  PROVE  EntryAt(p).dir
<1> DEFINE S == {q \in Places : EntryAt(q).dir /\ IsPrefix(p, q)}
           U == {q \in Places : EntryAt(p).dir}
<1>1. S \subseteq Seq(Names)
  BY PlaceFacts
<1>2. ASSUME NEW q \in S, \A r \in S : Len(r) < Len(q) => r \in U PROVE q \in U
  <2>1. CASE q = p
    BY <2>1
  <2>2. CASE q # p
    <3>1. q # <<>>
      BY <1>1, <2>2 DEF IsPrefix
    <3>2. q \in Paths /\ Front(q) \in Places /\ Len(Front(q)) = Len(q) - 1 /\ Len(q) \in Nat \ {0}
      BY <3>1, PlaceFacts DEF Places
    <3>3. EntryAt(Front(q)).dir
      <4>1. CASE Len(q) > 1
        <5>1. disk[q] # NoEntry /\ Front(q) # <<>>
          BY <3>1, <3>2, <4>1 DEF EntryAt, NoEntry
        <5>2. QED
          BY <3>2, <4>1, <5>1 DEF DiskIsClosed, EntryAt
      <4>2. CASE Len(q) = 1
        <5>1. Front(q) \in Seq(Names) /\ Len(Front(q)) = 0
          BY <3>2, <4>2, PlaceFacts
        <5>2. Front(q) = <<>>
          BY <5>1
        <5>3. QED
          BY <5>2 DEF EntryAt
      <4>3. QED
        BY <3>2, <4>1, <4>2
    <3>4. IsPrefix(p, Front(q))
      BY <1>1, <2>2, <3>1, PrefixOfChild
    <3>5. Front(q) \in U
      BY <1>2, <3>2, <3>3, <3>4
    <3>6. QED
      BY <3>5
  <2>3. QED
    BY <2>1, <2>2
<1> HIDE DEF U
<1>3. S \subseteq U
  BY <1>1, <1>2, PathInduction
<1>4. QED
  BY <1>3 DEF U

LEMMA ReadableAbove ==
  ASSUME DiskIsClosed, NEW d \in Places, Readable(d), NEW p \in Seq(Names), IsPrefix(p, d)
  PROVE  Readable(p)
<1>1. EntryAt(d).dir /\ WayOpen(d) /\ EntryAt(d).perms = "open" /\ d \in Seq(Names)
  BY PlaceFacts DEF Readable, IsDirectory
<1>2. EntryAt(p).dir
  BY <1>1, DirsAbove
<1>3. /\ Len(p) \in Nat /\ Len(d) \in Nat /\ Len(p) <= Len(d) /\ SubSeq(d, 1, Len(p)) = p
  BY <1>1 DEF IsPrefix
<1>4. ASSUME NEW n \in 1..(Len(p) - 1) PROVE disk[SubSeq(p, 1, n)].perms = "open"
  <2>1. \A k \in 1..Len(p) : p[k] = d[k]
    BY <1>1, <1>3
  <2>2. n \in 1..(Len(d) - 1) /\ SubSeq(p, 1, n) = SubSeq(d, 1, n)
    BY <1>1, <1>3, <2>1
  <2>3. QED
    BY <1>1, <2>2 DEF WayOpen
<1>5. EntryAt(p).perms = "open"
  <2>1. CASE p = d
    BY <1>1, <2>1
  <2>2. CASE p = <<>>
    BY <2>2 DEF EntryAt
  <2>3. CASE p # d /\ p # <<>>
    <3>1. Len(p) # Len(d) /\ Len(p) # 0
      BY <1>1, <1>3, <2>3
    <3>2. Len(p) \in 1..(Len(d) - 1)
      BY <1>3, <3>1
    <3>3. disk[p].perms = "open"
      BY <1>1, <1>3, <3>2 DEF WayOpen
    <3>4. QED
      BY <2>3, <3>3 DEF EntryAt
  <2>4. QED
    BY <2>1, <2>2, <2>3
<1>6. QED
  BY <1>2, <1>4, <1>5 DEF Readable, IsDirectory, WayOpen

\* A directory is passed on the way to the monitored one, or because it cannot be read.
LEMMA PassThroughStep ==
  ASSUME IInv, PassThrough
  PROVE  IInv'
<1>1. PICK N, at : Inv(N, at)
  BY DEF IInv
<1>2. /\ TypeOK /\ DiskIsClosed /\ Typed /\ todo \in Seq(CallSet)
      /\ bucket.path \in Seq(Names)
  BY BucketPath DEF IInv
<1>3. /\ TreeOf(nodes, N, at) /\ MarksAre(nodes, N, at, bucket)
      /\ CallsAre(nodes, N, at, bucket, todo)
      /\ Listens(bucket) => view = Entries(nodes, N, at, bucket.path)
      /\ quiet /\ Listens(bucket) => Compared(nodes, N, at, bucket, todo)
  BY <1>1 DEF Inv
<1> DEFINE c == Head(todo)
           p == c.path
           rest == Tail(todo)
           monitored == c.monitored \/ nodes[c.node].monitored
<1>4. /\ todo # <<>> /\ ~c.check /\ ~(monitored /\ Readable(p))
      /\ todo' = IF monitored THEN rest ELSE CallsBelow(nodes, c, FALSE)
      /\ UNCHANGED <<disk, changes, nodes, bucket, view, quiet, failed>>
  BY DEF PassThrough
<1>5. /\ CallIs(nodes, N, at, bucket, c) /\ rest \in Seq(CallSet)
      /\ CallsAre(nodes, N, at, bucket, rest) /\ Apart(rest, p)
      /\ \A n \in DOMAIN todo : todo[n] = c \/ \E k \in DOMAIN rest : todo[n] = rest[k]
  BY <1>2, <1>3, <1>4, HeadAndTail
<1>6. /\ p \in N /\ c.node = at[p] /\ nodes[at[p]].entry.dir
      /\ monitored <=> Listens(bucket) /\ IsPrefix(bucket.path, p)
  <2>1. p \in N /\ c.node = at[p] /\ nodes[at[p]].entry.dir
        /\ (c.monitored <=> Listens(bucket) /\ IsStrictPrefix(bucket.path, p))
    BY <1>5 DEF CallIs
  <2>2. nodes[at[p]].monitored <=> Listens(bucket) /\ p = bucket.path
    BY <1>3, <2>1 DEF MarksAre
  <2>3. IsPrefix(bucket.path, bucket.path)
    BY <1>2 DEF IsPrefix
  <2>4. QED
    BY <2>1, <2>2, <2>3 DEF IsStrictPrefix
<1>7. Typed'
  BY <1>2, <1>4 DEF Typed
<1>8. CASE monitored
  <2>1. todo' = rest /\ ~Readable(p)
    BY <1>4, <1>8
  <2> HIDE DEF c, rest, monitored
  <2>2. quiet' /\ Listens(bucket') => Compared(nodes', N, at, bucket', todo')
    <3>1. SUFFICES ASSUME quiet, Listens(bucket), NEW d \in N,
                          nodes[at[d]].entry.dir, IsPrefix(bucket.path, d), Readable(d),
                          \A n \in DOMAIN rest : ~IsPrefix(rest[n].path, d)
                   PROVE  ExactIn(nodes, N, at, d)
      BY <1>4, <2>1 DEF Compared
    <3>2. ~IsPrefix(p, d)
      <4>1. d \in Places /\ p \in Seq(Names)
        BY <1>3, <1>6, NodeFacts
      <4>2. QED
        BY <1>2, <2>1, <3>1, <4>1, ReadableAbove
    <3>3. \A n \in DOMAIN todo : ~IsPrefix(todo[n].path, d)
      BY <1>5, <3>1, <3>2
    <3>4. QED
      BY <1>3, <3>1, <3>3 DEF Compared
  <2>3. QED
    BY <1>2, <1>3, <1>4, <1>5, <1>7, <2>1, <2>2, InvAfter
<1>9. CASE ~monitored
  <2> DEFINE calls == CallsBelow(nodes, c, FALSE)
  <2>1. todo' = calls
    BY <1>4, <1>9
  <2> HIDE DEF monitored
  <2>2. BelowAndRest(nodes, N, at, p, FALSE, rest, calls)
    <3>1. \A m, n \in DOMAIN rest : rest[m].path = rest[n].path => m = n
      <4>1. \A n \in DOMAIN rest : rest[n].path \in Seq(Names)
        BY <1>3, <1>5, TreeFacts DEF CallsAre, CallIs
      <4>2. \A n \in DOMAIN rest : IsPrefix(rest[n].path, rest[n].path)
        BY <4>1 DEF IsPrefix
      <4>3. QED
        BY <1>5, <4>2 DEF CallsAre
    <3>2. QED
      BY <1>2, <1>3, <1>4, <1>5, <1>6, <3>1, CallsBelowAre
  <2> HIDE DEF calls, c, rest
  <2>3. CallsAre(nodes, N, at, bucket, calls)
    BY <1>2, <1>3, <1>5, <1>6, <1>9, <2>2, CallsAfter
  <2>4. quiet' /\ Listens(bucket') => Compared(nodes', N, at, bucket', todo')
    <3>1. SUFFICES ASSUME quiet, Listens(bucket), NEW d \in N,
                          nodes[at[d]].entry.dir, IsPrefix(bucket.path, d), Readable(d),
                          \A n \in DOMAIN calls : ~IsPrefix(calls[n].path, d)
                   PROVE  ExactIn(nodes, N, at, d)
      BY <1>4, <2>1 DEF Compared
    <3>2. /\ d = p \/ ~IsPrefix(p, d)
          /\ \A k \in DOMAIN rest : ~IsPrefix(rest[k].path, d)
      <4>1. Uncalled(calls, d)
        BY <3>1 DEF Uncalled
      <4>2. (d = p \/ ~IsPrefix(p, d)) /\ Uncalled(rest, d)
        BY <1>3, <1>6, <2>2, <3>1, <4>1, NotCalled
      <4>3. QED
        BY <4>2 DEF Uncalled
    <3>3. ~IsPrefix(p, d)
      BY <1>6, <1>9, <3>1, <3>2
    <3>4. \A n \in DOMAIN todo : ~IsPrefix(todo[n].path, d)
      BY <1>5, <3>2, <3>3
    <3>5. QED
      BY <1>3, <3>1, <3>4 DEF Compared
  <2>5. calls \in Seq(CallSet)
    BY <2>2 DEF BelowAndRest
  <2>6. QED
    BY <1>2, <1>3, <1>4, <1>7, <2>1, <2>3, <2>4, <2>5, InvAfter
<1>10. QED
  BY <1>8, <1>9

\* The names get_directory_content gives.
LEMMA ListingIs ==
  ASSUME NEW p \in Seq(Names)
  PROVE  /\ Listing(p) \in Seq(Names) /\ IsInjective(Listing(p))
         /\ \A n : n \in Range(Listing(p)) <=>
                   n \in Names /\ Append(p, n) \in Paths /\ disk[Append(p, n)] # NoEntry
<1> DEFINE I == {k \in DOMAIN Order : LET q == Append(p, Order[k])
                                     IN  q \in Paths /\ disk[q] # NoEntry}
<1>1. Order \in Seq(Names) /\ IsInjective(Order)
  BY OrderHasNames, Zenon DEF Names
<1>2. Listing(p) = Keep(Order, I) /\ I \subseteq DOMAIN Order
  BY DEF Listing
<1>3. ASSUME NEW n
      PROVE  n \in {Order[k] : k \in I} <=>
               n \in Names /\ Append(p, n) \in Paths /\ disk[Append(p, n)] # NoEntry
  BY DEF Names, Range
<1> HIDE DEF I
<1>4. /\ Keep(Order, I) \in Seq(Names) /\ IsInjective(Keep(Order, I))
      /\ Range(Keep(Order, I)) = {Order[k] : k \in I}
  BY <1>1, <1>2, KeptList
<1>5. QED
  BY <1>2, <1>3, <1>4

\* An entry of the same kind is known from what is told of its change.
LEMMA AsToldIs ==
  ASSUME NEW old \in Entry, NEW e \in Entry, e.dir = old.dir
  PROVE  AsTold(old, e) = e
BY DEF AsTold, Entry, Size, Contents

\* The notes of a comparison: Q are the new paths, D the deleted, F the changed ones.
CreatedAre(Q, created) == \A k : k \in created <=> \E q \in Q : k = Known(q, disk[q])
DeletedAre(at, D, deleted) ==
  \A k : k \in deleted <=> \E d \in D : k = Known(d, nodes[at[d]].entry)
ChangedAre(at, F, changed) ==
  \A x : x \in changed <=>
    \E q \in F : x = [path |-> q, old |-> nodes[at[q]].entry, new |-> disk[q]]
RenewedIs(N, at, F, renewed) ==
  \A q \in N : renewed[at[q]].entry = IF q \in F THEN disk[q] ELSE nodes[at[q]].entry

\* Q, D and F are entries of directory p.
InDirectory(N, p, Q, D, F) ==
  /\ Q \subseteq Paths /\ D \subseteq N \ {<<>>} /\ F \subseteq (N \ {<<>>}) \ D
  /\ \A q \in Q \cup D \cup F : Front(q) = p

LEMMA Heard ==
  ASSUME NEW p \in Seq(Names), bucket.path \in Seq(Names), Listens(bucket),
         IsPrefix(bucket.path, p), NEW q \in Paths, Front(q) = p
  PROVE  Hears(q) /\ ~Marks(q) /\ q \in Seq(Names) /\ IsStrictPrefix(bucket.path, q)
<1>1. q \in Seq(Names) /\ q # <<>> /\ Len(p) = Len(q) - 1 /\ Len(q) \in Nat
  BY PlaceFacts DEF Places
<1>2. IsPrefix(bucket.path, q)
  BY <1>1, PrefixOfChild
<1>3. Len(bucket.path) \in Nat /\ Len(bucket.path) <= Len(p)
  BY DEF IsPrefix
<1>4. ~IsPrefix(q, bucket.path) /\ bucket.path # q
  BY <1>1, <1>3 DEF IsPrefix
<1>5. QED
  BY <1>1, <1>2, <1>4 DEF Hears, Marks, Listens, IsStrictPrefix

LEMMA ToldIs ==
  ASSUME NEW N, NEW at, TreeOf(nodes, N, at), NEW p \in N,
         bucket.path \in Seq(Names), bucket = [path |-> bucket.path, mark |-> bucket.mark],
         bucket.mark \in BOOLEAN,
         Listens(bucket), IsPrefix(bucket.path, p),
         view = Entries(nodes, N, at, bucket.path),
         NEW Q, NEW D, NEW F, InDirectory(N, p, Q, D, F),
         NEW created, NEW deleted, NEW changed,
         CreatedAre(Q, created), DeletedAre(at, D, deleted), ChangedAre(at, F, changed),
         Tell(created, deleted, changed),
         NEW renewed, RenewedIs(N, at, F, renewed),
         NEW ns2, NEW N2, NEW at2, IsChanged(renewed, N, at, D, Q, ns2, N2, at2)
  PROVE  bucket' = bucket /\ view' = Entries(ns2, N2, at2, bucket.path)
<1>1. N \subseteq Seq(Names) /\ p \in Seq(Names)
      /\ \A q \in N \ {<<>>} : q \in Paths
  BY TreeFacts
<1>2. /\ Q \subseteq Paths /\ D \subseteq N /\ D \subseteq Paths /\ F \subseteq N
      /\ F \subseteq Paths /\ \A q \in F : q \notin D
      /\ \A q \in Q : Front(q) = p
      /\ \A q \in D : Front(q) = p
      /\ \A q \in F : Front(q) = p
  BY <1>1 DEF InDirectory
<1>3. \A q \in Paths : Front(q) = p =>
        Hears(q) /\ ~Marks(q) /\ q \in Seq(Names) /\ IsStrictPrefix(bucket.path, q)
  BY <1>1, Heard
<1>4. \A q, e : Known(q, e).path = q /\ Known(q, e).entry = e
  BY DEF Known
<1>5. \A k \in created : ~Marks(k.path) /\ Hears(k.path)
  BY <1>2, <1>3, <1>4 DEF CreatedAre
<1>6. \A k \in deleted : ~Marks(k.path) /\ Hears(k.path)
  BY <1>2, <1>3, <1>4 DEF DeletedAre
<1>7. \A x \in changed : ~Marks(x.path) /\ Hears(x.path)
  <2>1. \A x \in changed : \E q \in F : x.path = q
    BY DEF ChangedAre
  <2>2. QED
    BY <1>2, <1>3, <2>1
<1>8. bucket' = bucket
  <2>1. ~ \E k \in created \cup deleted \cup changed : Marks(k.path)
    BY <1>5, <1>6, <1>7
  <2>2. bucket' = [bucket EXCEPT !.mark =
           @ \/ \E k \in created \cup deleted \cup changed : Marks(k.path)]
    BY DEF Tell
  <2>3. QED
    BY <2>1, <2>2
<1> DEFINE Out(k) == \/ k \in deleted
                     \/ \E c \in deleted : c.entry.dir /\ IsStrictPrefix(c.path, k.path)
                     \/ \E c \in changed : k = Known(c.path, c.old)
<1>9. ASSUME NEW k
      PROVE  k \in view' <=> \/ k \in view /\ ~(Hears(k.path) /\ Out(k))
                             \/ k \in created
                             \/ \E x \in changed : k = Known(x.path, x.new)
  <2>1. view' = {j \in view : ~(Hears(j.path) /\ Out(j))}
                   \cup {j \in created : Hears(j.path)}
                   \cup {Known(c.path, c.new) : c \in {d \in changed : Hears(d.path)}}
    BY DEF Tell
  <2> HIDE DEF Out
  <2>2. QED
    BY <1>5, <1>7, <2>1
<1>10. ASSUME NEW k
       PROVE  k \in view <=> \E q \in N : /\ IsStrictPrefix(bucket.path, q)
                                          /\ k = Known(q, nodes[at[q]].entry)
  BY DEF Entries
<1>11. ASSUME NEW q \in N, IsStrictPrefix(bucket.path, q),
              NEW k, k = Known(q, nodes[at[q]].entry)
       PROVE  Out(k) <=> q \in Under(N, D) \/ q \in F
  <2>1. k.path = q /\ k.entry = nodes[at[q]].entry
    BY <1>4, <1>11
  <2>2. ASSUME k \in deleted PROVE q \in Under(N, D)
    <3>1. PICK d \in D : k = Known(d, nodes[at[d]].entry)
      BY <2>2 DEF DeletedAre
    <3>2. q = d
      BY <1>4, <2>1, <3>1
    <3>3. IsPrefix(q, q)
      BY <1>1 DEF IsPrefix
    <3>4. QED
      BY <3>2, <3>3 DEF Under
  <2>3. ASSUME NEW c \in deleted, IsStrictPrefix(c.path, k.path) PROVE q \in Under(N, D)
    <3>1. PICK d \in D : c = Known(d, nodes[at[d]].entry)
      BY <2>3 DEF DeletedAre
    <3>2. c.path = d
      BY <1>4, <3>1
    <3>3. QED
      BY <2>1, <2>3, <3>2 DEF Under, IsStrictPrefix
  <2>4. ASSUME NEW c \in changed, k = Known(c.path, c.old) PROVE q \in F
    <3>1. PICK r \in F : c = [path |-> r, old |-> nodes[at[r]].entry, new |-> disk[r]]
      BY <2>4 DEF ChangedAre
    <3>2. c.path = r
      BY <3>1
    <3>3. QED
      BY <1>4, <2>1, <2>4, <3>2
  <2>5. ASSUME q \in F PROVE Out(k)
    <3>1. [path |-> q, old |-> nodes[at[q]].entry, new |-> disk[q]] \in changed
      BY <2>5 DEF ChangedAre
    <3>2. QED
      BY <1>11, <3>1
  <2>6. ASSUME q \in Under(N, D) PROVE Out(k)
    <3>1. PICK d \in D : IsPrefix(d, q)
      BY <2>6 DEF Under
    <3>2. CASE d = q
      BY <1>11, <3>1, <3>2 DEF DeletedAre
    <3>3. CASE d # q
      <4>1. d \in Seq(Names) /\ d \in N
        BY <1>1, <1>2
      <4>2. nodes[at[d]].entry.dir
        BY <3>1, <3>3, <4>1, PrefixInTree
      <4>3. Known(d, nodes[at[d]].entry) \in deleted
        BY <3>1 DEF DeletedAre
      <4>4. IsStrictPrefix(d, k.path)
        BY <2>1, <3>1, <3>3 DEF IsStrictPrefix
      <4>5. QED
        BY <1>4, <4>2, <4>3, <4>4
    <3>4. QED
      BY <3>2, <3>3
  <2>7. QED
    BY <2>2, <2>3, <2>4, <2>5, <2>6
<1> HIDE DEF Out
<1>12. \A q \in F : q \notin Under(N, D)
  <2>1. SUFFICES ASSUME NEW q \in F, NEW d \in D, IsPrefix(d, q) PROVE FALSE
    BY DEF Under
  <2>2. q \in Seq(Names) /\ d \in Seq(Names) /\ Len(p) = Len(q) - 1 /\ Len(p) = Len(d) - 1
        /\ Len(q) \in Nat /\ Len(d) \in Nat
    BY <1>1, <1>2, PlaceFacts
  <2>3. q = d
    BY <2>1, <2>2 DEF IsPrefix
  <2>4. QED
    BY <1>2, <2>3
<1>13. /\ N2 = (N \ Under(N, D)) \cup Q
       /\ \A q \in N \ Under(N, D) :
            /\ q \notin Q
            /\ ns2[at2[q]].entry = IF q \in F THEN disk[q] ELSE nodes[at[q]].entry
       /\ \A q \in Q : ns2[at2[q]].entry = disk[q]
  <2>1. \A q \in Q : q # <<>>
    BY <1>2, PlaceFacts
  <2>2. QED
    BY <2>1 DEF IsChanged, RenewedIs, EntryAt
<1>14. ASSUME NEW k
       PROVE  k \in Entries(ns2, N2, at2, bucket.path) <=>
                \E q \in N2 : /\ IsStrictPrefix(bucket.path, q)
                              /\ k = Known(q, ns2[at2[q]].entry)
  BY DEF Entries
<1>15. ASSUME NEW k \in view' PROVE k \in Entries(ns2, N2, at2, bucket.path)
  <2>1. CASE k \in view /\ ~(Hears(k.path) /\ Out(k))
    <3>1. PICK q \in N : IsStrictPrefix(bucket.path, q) /\ k = Known(q, nodes[at[q]].entry)
      BY <1>10, <2>1
    <3>2. Hears(k.path)
      BY <1>4, <3>1 DEF Hears, Listens
    <3>3. q \notin Under(N, D) /\ q \notin F
      BY <1>11, <2>1, <3>1, <3>2
    <3>4. q \in N2 /\ ns2[at2[q]].entry = nodes[at[q]].entry
      BY <1>13, <3>3
    <3>5. QED
      BY <1>14, <3>1, <3>4
  <2>2. CASE k \in created
    <3>1. PICK q \in Q : k = Known(q, disk[q])
      BY <2>2 DEF CreatedAre
    <3>2. IsStrictPrefix(bucket.path, q)
      BY <1>2, <1>3
    <3>3. QED
      BY <1>13, <1>14, <3>1, <3>2
  <2>3. CASE \E x \in changed : k = Known(x.path, x.new)
    <3>1. PICK q \in F : k = Known(q, disk[q])
      <4>1. PICK x \in changed : k = Known(x.path, x.new)
        BY <2>3
      <4>2. PICK q \in F : x = [path |-> q, old |-> nodes[at[q]].entry, new |-> disk[q]]
        BY <4>1 DEF ChangedAre
      <4>3. x.path = q /\ x.new = disk[q]
        BY <4>2
      <4>4. QED
        BY <4>1, <4>3
    <3>2. IsStrictPrefix(bucket.path, q)
      BY <1>2, <1>3
    <3>3. q \in N2 /\ ns2[at2[q]].entry = disk[q]
      BY <1>2, <1>12, <1>13
    <3>4. QED
      BY <1>14, <3>1, <3>2, <3>3
  <2>4. QED
    BY <1>9, <2>1, <2>2, <2>3
<1>16. ASSUME NEW k \in Entries(ns2, N2, at2, bucket.path) PROVE k \in view'
  <2>1. PICK q \in N2 : IsStrictPrefix(bucket.path, q) /\ k = Known(q, ns2[at2[q]].entry)
    BY <1>14
  <2>2. CASE q \in Q
    <3>1. k \in created
      BY <1>13, <2>1, <2>2 DEF CreatedAre
    <3>2. QED
      BY <1>9, <3>1
  <2>3. CASE q \in F
    <3>1. k = Known(q, disk[q])
      BY <1>2, <1>12, <1>13, <2>1, <2>3
    <3> DEFINE x == [path |-> q, old |-> nodes[at[q]].entry, new |-> disk[q]]
    <3>2. x \in changed /\ x.path = q /\ x.new = disk[q]
      BY <2>3 DEF ChangedAre
    <3> HIDE DEF x
    <3>3. QED
      BY <1>9, <3>1, <3>2
  <2>4. CASE q \in N \ Under(N, D) /\ q \notin F
    <3>1. k = Known(q, nodes[at[q]].entry)
      BY <1>13, <2>1, <2>4
    <3>2. k \in view /\ ~Out(k)
      BY <1>10, <1>11, <2>1, <2>4, <3>1
    <3>3. QED
      BY <1>9, <3>2
  <2>5. QED
    BY <1>13, <2>2, <2>3, <2>4
<1>17. view' = Entries(ns2, N2, at2, bucket.path)
  BY <1>15, <1>16
<1>18. QED
  BY <1>8, <1>17

\* A comparison fails for lack of room, and the daemon with it.
LEMMA CompareFails ==
  ASSUME IInv, UNCHANGED <<disk, changes, nodes, todo, quiet, bucket, view>>, failed' = TRUE
  PROVE  IInv'
<1>1. PICK N, at : Inv(N, at)
  BY DEF IInv
<1>2. TypeOK /\ DiskIsClosed /\ Typed /\ todo \in Seq(CallSet)
  BY BucketPath DEF IInv
<1>3. Typed'
  BY <1>2 DEF Typed
<1>4. QED
  BY <1>1, <1>2, <1>3, InvAfter DEF Inv

\* The comparison of directory p as Compare makes it: the children of its node, those
\* with an entry, those whose entry changed, the nodes renewed, the names to be added.
IsComparison(p, i, children, found, differ, renewed, new) ==
  /\ children = Range(nodes[i].children)
  /\ found = {j \in children : Matches(j, Append(p, nodes[j].name))}
  /\ differ = {j \in found : nodes[j].entry # disk[Append(p, nodes[j].name)]}
  /\ renewed = [j \in Id |-> IF j \in differ
                 THEN [nodes[j] EXCEPT !.entry = disk[Append(p, nodes[j].name)]]
                 ELSE nodes[j]]
  /\ new = Without(Listing(p), {nodes[j].name : j \in found})

\* The nodes of the entries of p that have none on the disk, and of those that changed.
GoneFrom(N, at, p) ==
  {q \in N \ {<<>>} : /\ Front(q) = p
                      /\ ~(disk[q] # NoEntry /\ disk[q].dir = nodes[at[q]].entry.dir)}
ChangedIn(N, at, p) ==
  {q \in N \ {<<>>} : /\ Front(q) = p
                      /\ disk[q] # NoEntry /\ disk[q].dir = nodes[at[q]].entry.dir
                      /\ nodes[at[q]].entry # disk[q]}

\* What is found of the children, by path.
FoundAre(N, at, p, i, children, found, differ, renewed, new) ==
  /\ \A j : j \in children <=> \E q \in N \ {<<>>} : j = at[q] /\ Front(q) = p
  /\ \A j \in found : j \in children
  /\ \A q \in N \ {<<>>} : Front(q) = p =>
       (at[q] \in found <=> disk[q] # NoEntry /\ disk[q].dir = nodes[at[q]].entry.dir)
  /\ \A j : j \in children \ found <=> \E d \in GoneFrom(N, at, p) : j = at[d]
  /\ \A j : j \in differ <=> \E d \in ChangedIn(N, at, p) : j = at[d]
  /\ \A j \in Id : renewed[j] = IF j \in differ
          THEN [nodes[j] EXCEPT !.entry = disk[Append(p, nodes[j].name)]] ELSE nodes[j]
  /\ renewed = [j \in Id |-> renewed[j]]
  /\ new \in Seq(Names) /\ IsInjective(new)
  /\ \A n : n \in Range(new) <=> n \in Range(Listing(p)) /\ \A j \in found : nodes[j].name # n

LEMMA FoundIs ==
  ASSUME NEW N, NEW at, TreeOf(nodes, N, at), NEW p \in N, NEW i, i = at[p],
         NEW children, NEW found, NEW differ, NEW renewed, NEW new,
         IsComparison(p, i, children, found, differ, renewed, new)
  PROVE  FoundAre(N, at, p, i, children, found, differ, renewed, new)
<1> DEFINE D == GoneFrom(N, at, p)
           F == ChangedIn(N, at, p)
<1>1. p \in Seq(Names)
  BY NodeFacts
<1>2. children = Range(nodes[at[p]].children)
  BY DEF IsComparison
<1>3. ASSUME NEW j
      PROVE  j \in children <=> \E q \in N \ {<<>>} : j = at[q] /\ Front(q) = p
  <2>1. ASSUME j \in children PROVE \E q \in N \ {<<>>} : j = at[q] /\ Front(q) = p
    <3>1. j \in Range(nodes[at[p]].children)
      BY <1>2, <2>1
    <3>2. \A r \in N : \A k \in Range(nodes[at[r]].children) :
            \E q \in N \ {<<>>} : k = at[q] /\ Front(q) = r
      BY Zenon DEF TreeOf
    <3>3. QED
      BY <3>1, <3>2
  <2>2. ASSUME NEW q \in N \ {<<>>}, j = at[q], Front(q) = p PROVE j \in children
    BY <1>2, <2>2, ChildFacts
  <2>3. QED
    BY <2>1, <2>2
<1>4. \A q \in N \ {<<>>} : Front(q) = p => Append(p, nodes[at[q]].name) = q
  <2>1. SUFFICES ASSUME NEW q \in N \ {<<>>}, Front(q) = p
                 PROVE  Append(p, nodes[at[q]].name) = q
    OBVIOUS
  <2>2. QED
    BY <2>1, ChildFacts
<1>5. /\ \A j : j \in found <=> j \in children /\ Matches(j, Append(p, nodes[j].name))
      /\ \A j : j \in differ <=> j \in found /\ nodes[j].entry # disk[Append(p, nodes[j].name)]
  BY DEF IsComparison
<1>6. ASSUME NEW q \in N \ {<<>>}, Front(q) = p
      PROVE  /\ at[q] \in found <=> disk[q] # NoEntry /\ disk[q].dir = nodes[at[q]].entry.dir
             /\ at[q] \in differ <=> at[q] \in found /\ nodes[at[q]].entry # disk[q]
  <2>1. at[q] \in children /\ Append(p, nodes[at[q]].name) = q
    BY <1>3, <1>4, <1>6
  <2>2. QED
    BY <1>5, <2>1 DEF Matches
<1>7. ASSUME NEW j PROVE j \in children \ found <=> \E d \in D : j = at[d]
  <2>1. \A q : q \in D <=> /\ q \in N \ {<<>>} /\ Front(q) = p
                           /\ ~(disk[q] # NoEntry /\ disk[q].dir = nodes[at[q]].entry.dir)
    BY DEF GoneFrom
  <2> HIDE DEF D
  <2>2. QED
    BY <1>3, <1>6, <2>1
<1>8. ASSUME NEW j PROVE j \in differ <=> \E d \in F : j = at[d]
  <2>1. \A q : q \in F <=> /\ q \in N \ {<<>>} /\ Front(q) = p
                           /\ disk[q] # NoEntry /\ disk[q].dir = nodes[at[q]].entry.dir
                           /\ nodes[at[q]].entry # disk[q]
    BY DEF ChangedIn
  <2> HIDE DEF F
  <2>2. QED
    BY <1>3, <1>5, <1>6, <2>1
<1>9. /\ \A j \in Id : renewed[j] = IF j \in differ
          THEN [nodes[j] EXCEPT !.entry = disk[Append(p, nodes[j].name)]] ELSE nodes[j]
      /\ renewed = [j \in Id |-> renewed[j]]
  BY DEF IsComparison
<1>10. /\ new \in Seq(Names) /\ IsInjective(new)
       /\ \A n : n \in Range(new) <=> n \in Range(Listing(p)) /\ \A j \in found : nodes[j].name # n
  <2>1. Listing(p) \in Seq(Names) /\ IsInjective(Listing(p))
    BY <1>1, ListingIs
  <2> DEFINE gone == {nodes[j].name : j \in found}
  <2>2. new = Without(Listing(p), gone)
    BY DEF IsComparison
  <2>3. \A n : n \in gone <=> \E j \in found : nodes[j].name = n
    OBVIOUS
  <2> HIDE DEF gone
  <2>4. /\ Without(Listing(p), gone) \in Seq(Names) /\ IsInjective(Without(Listing(p), gone))
        /\ Range(Without(Listing(p), gone)) = Range(Listing(p)) \ gone
    BY <2>1, WithoutFacts
  <2>5. QED
    BY <2>2, <2>3, <2>4
<1>11. QED
  BY <1>3, <1>5, <1>6, <1>7, <1>8, <1>9, <1>10 DEF FoundAre

LEMMA RenewedAre ==
  ASSUME NEW N, NEW at, TreeOf(nodes, N, at), NEW p \in N, TypeOK, NEW i,
         NEW children, NEW found, NEW differ, NEW renewed, NEW new,
         FoundAre(N, at, p, i, children, found, differ, renewed, new)
  PROVE  /\ Alike(nodes, renewed) /\ RenewedIs(N, at, ChangedIn(N, at, p), renewed)
         /\ \A j \in Id : nodes[j] # Free => renewed[j].monitored = nodes[j].monitored
         /\ \A q \in ChangedIn(N, at, p) :
              disk[q] \in Entry /\ disk[q].dir = nodes[at[q]].entry.dir
<1> DEFINE F == ChangedIn(N, at, p)
<1>1. \A q \in F : /\ q \in N \ {<<>>} /\ Front(q) = p
                   /\ disk[q] # NoEntry /\ disk[q].dir = nodes[at[q]].entry.dir
  BY DEF ChangedIn
<1>2. \A q \in Paths : disk[q] # NoEntry => disk[q] \in Entry
  BY DEF TypeOK
<1>3. /\ \A j : j \in differ <=> \E d \in F : j = at[d]
      /\ \A j \in Id : renewed[j] = IF j \in differ
          THEN [nodes[j] EXCEPT !.entry = disk[Append(p, nodes[j].name)]] ELSE nodes[j]
      /\ renewed = [j \in Id |-> renewed[j]]
  BY DEF FoundAre
<1>4. /\ \A q \in N : at[q] \in Id /\ nodes[at[q]] \in Node /\ nodes[at[q]] # Free
      /\ \A q, r \in N : at[q] = at[r] => q = r
  BY TreeFacts
<1> HIDE DEF F
<1>5. ASSUME NEW q \in F
      PROVE  /\ renewed[at[q]] \in Node /\ renewed[at[q]].entry = disk[q]
             /\ renewed[at[q]].name = nodes[at[q]].name
             /\ renewed[at[q]].children = nodes[at[q]].children
             /\ renewed[at[q]].monitored = nodes[at[q]].monitored
             /\ disk[q] \in Entry /\ at[q] \in differ
  <2>1. q \in Paths /\ Append(p, nodes[at[q]].name) = q
    <3>1. q \in N /\ q # <<>> /\ Front(q) = p
      BY <1>1
    <3>2. QED
      BY <3>1, ChildFacts
  <2>2. at[q] \in differ /\ at[q] \in Id /\ nodes[at[q]] \in Node
    BY <1>1, <1>3, <1>4
  <2>3. renewed[at[q]] = [nodes[at[q]] EXCEPT !.entry = disk[q]] /\ disk[q] \in Entry
    BY <1>1, <1>2, <1>3, <2>1, <2>2
  <2>4. QED
    BY <2>2, <2>3 DEF Node
<1>6. \A j \in Id : j \notin differ => renewed[j] = nodes[j]
  BY <1>3
<1>7. nodes \in [Id -> Node \cup {Free}]
  BY DEF TreeOf
<1>8. ASSUME NEW j \in Id, j \in differ
      PROVE  /\ nodes[j] # Free /\ renewed[j] \in Node /\ renewed[j].name = nodes[j].name
             /\ renewed[j].children = nodes[j].children
             /\ renewed[j].entry.dir = nodes[j].entry.dir
             /\ renewed[j].monitored = nodes[j].monitored
  <2>1. PICK q \in F : j = at[q]
    BY <1>3, <1>8
  <2>2. QED
    BY <1>1, <1>4, <1>5, <2>1
<1>9. \A j \in Id : renewed[j] \in Node \cup {Free}
  BY <1>6, <1>7, <1>8
<1>10. renewed \in [Id -> Node \cup {Free}]
  BY <1>3, <1>9
<1>11. Alike(nodes, renewed)
  BY <1>6, <1>8, <1>10, FreeIsNoNode DEF Alike
<1>12. RenewedIs(N, at, F, renewed)
  <2>1. \A q \in N : q \notin F => at[q] \notin differ
    BY <1>1, <1>3, <1>4
  <2>2. QED
    BY <1>4, <1>5, <1>6, <2>1 DEF RenewedIs
<1>13. QED
  BY <1>1, <1>5, <1>6, <1>8, <1>11, <1>12 DEF F

\* What comes into the tree, and what is exact in it then.
ComparesTo(N, at, p, new, renewed, ns, N2, at2) ==
  /\ InDirectory(N, p, Named(p, new), GoneFrom(N, at, p), ChangedIn(N, at, p))
  /\ IsChanged(renewed, N, at, GoneFrom(N, at, p), Named(p, new), ns, N2, at2)
  /\ \A q : q \in Named(p, new) <=> \E n \in Range(new) : q = Append(p, n)
  /\ \A q \in Paths : Front(q) = p =>
       /\ q \in N2 <=> disk[q] # NoEntry
       /\ q \in N2 => ns[at2[q]].entry = disk[q]

LEMMA ComparedIs ==
  ASSUME NEW N, NEW at, TreeOf(nodes, N, at), NEW p \in N, nodes[at[p]].entry.dir,
         TypeOK, NEW i,
         NEW children, NEW found, NEW differ, NEW renewed, NEW new,
         FoundAre(N, at, p, i, children, found, differ, renewed, new),
         HasRoom(nodes, Len(new))
  PROVE  \E N2, at2 : ComparesTo(N, at, p, new, renewed,
           DeleteChildren(AddChildren(renewed, at[p], p, new), at[p], children \ found), N2, at2)
<1> DEFINE D == GoneFrom(N, at, p)
           F == ChangedIn(N, at, p)
           Q == Named(p, new)
           ns == DeleteChildren(AddChildren(renewed, at[p], p, new), at[p], children \ found)
<1>1. /\ N \subseteq Seq(Names) /\ p \in Seq(Names)
      /\ \A q \in N : at[q] \in Id /\ nodes[at[q]] \in Node /\ nodes[at[q]] # Free
      /\ \A q, r \in N : at[q] = at[r] => q = r
  BY TreeFacts
<1>2. \A q \in Paths : disk[q] # NoEntry => disk[q] \in Entry
  BY DEF TypeOK
<1>3. /\ \A j : j \in children <=> \E q \in N \ {<<>>} : j = at[q] /\ Front(q) = p
      /\ \A j \in found : j \in children
      /\ \A q \in N \ {<<>>} : Front(q) = p =>
          (at[q] \in found <=> disk[q] # NoEntry /\ disk[q].dir = nodes[at[q]].entry.dir)
      /\ \A j : j \in children \ found <=> \E d \in D : j = at[d]
      /\ new \in Seq(Names) /\ IsInjective(new)
      /\ \A n : n \in Range(new) <=> n \in Range(Listing(p)) /\ \A j \in found : nodes[j].name # n
  BY DEF FoundAre
<1>4. ASSUME NEW q \in N \ {<<>>}, Front(q) = p
      PROVE  Append(p, nodes[at[q]].name) = q /\ q \in Paths /\ nodes[at[q]].name = Last(q)
  BY <1>4, ChildFacts
<1>5. /\ \A q : q \in D <=> /\ q \in N \ {<<>>} /\ Front(q) = p
                            /\ ~(disk[q] # NoEntry /\ disk[q].dir = nodes[at[q]].entry.dir)
      /\ \A q : q \in F <=> /\ q \in N \ {<<>>} /\ Front(q) = p
                            /\ disk[q] # NoEntry /\ disk[q].dir = nodes[at[q]].entry.dir
                            /\ nodes[at[q]].entry # disk[q]
  BY DEF GoneFrom, ChangedIn
<1>6. Alike(nodes, renewed) /\ RenewedIs(N, at, F, renewed)
  BY RenewedAre
<1>7. TreeOf(renewed, N, at)
  BY <1>6, SameShape
<1> HIDE DEF D, F, Q, ns
<1>8. ASSUME NEW n \in Range(new)
      PROVE  /\ n \in Names /\ Append(p, n) \in Paths /\ disk[Append(p, n)] # NoEntry
             /\ EntryAt(Append(p, n)) = disk[Append(p, n)]
             /\ Front(Append(p, n)) = p
             /\ Append(p, n) \in N => Append(p, n) \in D
  <2>1. n \in Range(Listing(p)) /\ \A j \in found : nodes[j].name # n
    BY <1>3
  <2>2. n \in Names /\ Append(p, n) \in Paths /\ disk[Append(p, n)] # NoEntry
    BY <1>1, <2>1, ListingIs
  <2> DEFINE q == Append(p, n)
  <2>3. q # <<>> /\ Front(q) = p /\ Last(q) = n
    BY <1>1, <2>2, ChildPath
  <2>4. EntryAt(q) = disk[q]
    BY <2>3 DEF EntryAt
  <2> HIDE DEF q
  <2>5. ASSUME q \in N PROVE q \in D
    <3>1. nodes[at[q]].name = n /\ q \in N \ {<<>>}
      BY <1>4, <2>3, <2>5
    <3>2. at[q] \notin found
      BY <2>1, <3>1
    <3>3. QED
      BY <1>3, <1>5, <2>3, <3>1, <3>2
  <2>6. QED
    BY <2>2, <2>3, <2>4, <2>5 DEF q
<1>9. \A k \in DOMAIN new : new[k] \in Range(new)
  BY DEF Range
<1>10. MayCome(renewed, N, at, p, new, D)
  <2>1. renewed[at[p]].entry.dir
    BY <1>1, <1>6 DEF Alike
  <2>2. \A k \in DOMAIN new : /\ Append(p, new[k]) \in Paths
                              /\ EntryAt(Append(p, new[k])) \in Entry
                              /\ Append(p, new[k]) \in N => Append(p, new[k]) \in D
    BY <1>2, <1>8, <1>9
  <2>3. D \subseteq N \ {<<>>} /\ \A d \in D : Front(d) = p
    BY <1>5
  <2>4. QED
    BY <1>3, <2>1, <2>2, <2>3 DEF MayCome
<1>11. HasRoom(renewed, Len(new))
  <2>1. Allocated(renewed) = Allocated(nodes)
    BY <1>6 DEF Allocated, Alike
  <2>2. QED
    BY <2>1 DEF HasRoom
<1>12. children \ found = {at[d] : d \in D}
  <2>1. \A j : j \in children \ found <=> j \in {at[d] : d \in D}
    BY <1>3
  <2>2. QED
    BY <2>1
<1>13. PICK N2, at2 : IsChanged(renewed, N, at, D, Q, ns, N2, at2)
  <2>1. \E N2, at2 : IsChanged(renewed, N, at, D, Named(p, new),
                               Exchanged(renewed, at, p, new, D), N2, at2)
    BY <1>7, <1>10, <1>11, AddDelete
  <2>2. ns = Exchanged(renewed, at, p, new, D)
    BY <1>12 DEF ns, Exchanged
  <2>3. QED
    BY <2>1, <2>2 DEF Q
<1>14. \A q : q \in Q <=> \E n \in Range(new) : q = Append(p, n)
  <2>1. ASSUME NEW q \in Q PROVE \E n \in Range(new) : q = Append(p, n)
    <3>1. PICK k \in DOMAIN new : q = Append(p, new[k])
      BY DEF Q, Named
    <3>2. QED
      BY <1>9, <3>1
  <2>2. ASSUME NEW q, NEW n \in Range(new), q = Append(p, n) PROVE q \in Q
    <3>1. PICK k \in DOMAIN new : n = new[k]
      BY DEF Range
    <3>2. q \in Paths /\ q = Append(p, new[k])
      BY <1>8, <2>2, <3>1
    <3>3. QED
      BY <3>2 DEF Q, Named
  <2>3. QED
    BY <2>1, <2>2
<1>15. InDirectory(N, p, Q, D, F)
  <2>1. ASSUME NEW q \in Q PROVE q \in Paths /\ Front(q) = p
    <3>1. PICK n \in Range(new) : q = Append(p, n)
      BY <1>14
    <3>2. QED
      BY <1>8, <3>1
  <2>2. D \subseteq N \ {<<>>} /\ F \subseteq (N \ {<<>>}) \ D
    BY <1>5
  <2>3. \A q \in Q \cup D \cup F : Front(q) = p
    BY <1>5, <2>1
  <2>4. QED
    BY <2>1, <2>2, <2>3 DEF InDirectory
<1>16. /\ N2 = (N \ Under(N, D)) \cup Q
       /\ \A q \in N \ Under(N, D) :
            at2[q] = at[q] /\ ns[at[q]].entry = renewed[at[q]].entry
       /\ \A q \in Q : ns[at2[q]].entry = EntryAt(q)
  BY <1>13 DEF IsChanged
<1>17. ASSUME NEW q \in N, q \in Paths, Front(q) = p, q \notin D PROVE q \notin Under(N, D)
  <2>1. SUFFICES ASSUME NEW d \in D, IsPrefix(d, q) PROVE FALSE
    BY DEF Under
  <2>2. d \in N \ {<<>>} /\ Front(d) = p
    BY <1>5
  <2>3. d \in Paths
    BY <1>4, <2>2
  <2>4. q \in Seq(Names) /\ d \in Seq(Names)
    BY <1>1, <2>2
  <2>5. Len(p) = Len(q) - 1 /\ Len(p) = Len(d) - 1 /\ Len(q) \in Nat /\ Len(d) \in Nat
    BY <1>17, <2>2, <2>3, PlaceFacts
  <2>6. q = d
    BY <2>1, <2>4, <2>5 DEF IsPrefix
  <2>7. QED
    BY <1>17, <2>6
<1>18. \A d \in D : d \in Under(N, D)
  <2>1. \A d \in D : d \in N /\ d \in Seq(Names)
    BY <1>1, <1>5
  <2>2. \A d \in D : IsPrefix(d, d)
    BY <2>1 DEF IsPrefix
  <2>3. QED
    BY <2>1, <2>2 DEF Under
<1>19. ASSUME NEW q \in Paths, Front(q) = p
       PROVE  /\ q \in N2 <=> disk[q] # NoEntry
              /\ q \in N2 => ns[at2[q]].entry = disk[q]
  <2>1. q # <<>> /\ Last(q) \in Names /\ Append(p, Last(q)) = q
    BY <1>19, PlaceFacts
  <2>2. EntryAt(q) = disk[q]
    BY <2>1 DEF EntryAt
  <2>3. CASE q \in Q
    <3>1. PICK n \in Range(new) : q = Append(p, n)
      BY <1>14, <2>3
    <3>2. disk[q] # NoEntry
      BY <1>8, <3>1
    <3>3. QED
      BY <1>16, <2>2, <2>3, <3>2
  <2>4. CASE q \notin Q /\ q \in N /\ q \notin D
    <3>0. q \notin Under(N, D)
      BY <1>17, <1>19, <2>4
    <3>1. q \in N2 /\ ns[at2[q]].entry = renewed[at[q]].entry
      BY <1>16, <2>4, <3>0
    <3>2. disk[q] # NoEntry /\ (q \notin F => nodes[at[q]].entry = disk[q])
      BY <1>5, <1>19, <2>1, <2>4
    <3>3. renewed[at[q]].entry = IF q \in F THEN disk[q] ELSE nodes[at[q]].entry
      BY <1>6, <2>4 DEF RenewedIs
    <3>4. QED
      BY <3>1, <3>2, <3>3
  <2>5. CASE q \notin Q /\ (q \notin N \/ q \in D)
    <3>1. q \notin N2
      BY <1>16, <1>18, <2>5
    <3>2. SUFFICES ASSUME disk[q] # NoEntry PROVE FALSE
      BY <3>1
    <3>3. Last(q) \in Range(Listing(p))
      BY <1>1, <2>1, <3>2, ListingIs
    <3>4. Last(q) \notin Range(new)
      BY <1>14, <2>1, <2>5
    <3>6. PICK j \in found : nodes[j].name = Last(q)
      BY <1>3, <3>3, <3>4
    <3>7. PICK r \in N \ {<<>>} : j = at[r] /\ Front(r) = p
      BY <1>3, <3>6
    <3>8. r = q
      <4>1. Append(p, nodes[at[r]].name) = r
        BY <1>4, <3>7
      <4>2. QED
        BY <2>1, <3>6, <3>7, <4>1
    <3>9. q \in D /\ at[q] \in found
      BY <2>5, <3>6, <3>7, <3>8
    <3>10. QED
      BY <1>3, <3>9
  <2>6. QED
    BY <2>3, <2>4, <2>5
<1>20. ComparesTo(N, at, p, new, renewed, ns, N2, at2)
  BY <1>13, <1>14, <1>15, <1>19 DEF ComparesTo, Q, D, F
<1>21. QED
  BY <1>20 DEF ns

\* What a comparison that has room for the new nodes changes.
CompareChanges(c, children, found, differ, renewed, new) ==
  /\ nodes' = DeleteChildren(AddChildren(renewed, c.node, c.path, new), c.node,
                             children \ found)
  /\ todo' = CallsBelow(nodes', c, TRUE)
  /\ failed' = failed
  /\ \E created, deleted, changed :
       /\ Tell(created, deleted, changed)
       /\ \A k : k \in created <=>
            \E n \in Range(new) : k = Known(Append(c.path, n), disk[Append(c.path, n)])
       /\ \A k : k \in deleted <=>
            \E j \in children \ found : k = Known(Append(c.path, nodes[j].name), nodes[j].entry)
       /\ \A x : x \in changed <=>
            \E j \in differ :
              x = [path |-> Append(c.path, nodes[j].name), old |-> nodes[j].entry,
                   new |-> AsTold(nodes[j].entry, disk[Append(c.path, nodes[j].name)])]

LEMMA CompareIs ==
  ASSUME Compare
  PROVE  \E children, found, differ, renewed, new :
           /\ IsComparison(Head(todo).path, Head(todo).node, children, found, differ, renewed, new)
           /\ IF HasRoom(nodes, Len(new))
              THEN CompareChanges(Head(todo), children, found, differ, renewed, new)
              ELSE failed' = TRUE /\ UNCHANGED <<nodes, todo, bucket, view>>
<1> DEFINE c == Head(todo)
           PathOf(i) == Append(c.path, nodes[i].name)
           children == Range(nodes[c.node].children)
           found == {i \in children : Matches(i, PathOf(i))}
           differ == {i \in found : nodes[i].entry # disk[PathOf(i)]}
           renewed == [i \in Id |-> IF i \in differ
                        THEN [nodes[i] EXCEPT !.entry = disk[PathOf(i)]]
                        ELSE nodes[i]]
           new == Without(Listing(c.path), {nodes[i].name : i \in found})
           created == {Known(Append(c.path, n), disk[Append(c.path, n)]) : n \in Range(new)}
           deleted == {Known(PathOf(i), nodes[i].entry) : i \in children \ found}
           changed == {[path |-> PathOf(i), old |-> nodes[i].entry,
                        new |-> AsTold(nodes[i].entry, disk[PathOf(i)])] : i \in differ}
<1>1. IF HasRoom(nodes, Len(new))
      THEN /\ nodes' = DeleteChildren(AddChildren(renewed, c.node, c.path, new), c.node,
                                      children \ found)
           /\ todo' = CallsBelow(nodes', c, TRUE)
           /\ Tell(created, deleted, changed)
           /\ failed' = failed
      ELSE failed' = TRUE /\ UNCHANGED <<nodes, todo, bucket, view>>
  BY DEF Compare
<1>2. IsComparison(c.path, c.node, children, found, differ, renewed, new)
  BY DEF IsComparison
<1>3. /\ \A k : k \in created <=>
            \E n \in Range(new) : k = Known(Append(c.path, n), disk[Append(c.path, n)])
      /\ \A k : k \in deleted <=>
            \E j \in children \ found : k = Known(Append(c.path, nodes[j].name), nodes[j].entry)
      /\ \A x : x \in changed <=>
            \E j \in differ :
              x = [path |-> Append(c.path, nodes[j].name), old |-> nodes[j].entry,
                   new |-> AsTold(nodes[j].entry, disk[Append(c.path, nodes[j].name)])]
  <2> HIDE DEF children, found, differ, renewed, new, c
  <2>1. QED
    OBVIOUS
<1> HIDE DEF created, deleted, changed, new, renewed, differ, found, children, c
<1>4. HasRoom(nodes, Len(new)) => CompareChanges(c, children, found, differ, renewed, new)
  BY <1>1, <1>3 DEF CompareChanges
<1>5. QED
  BY <1>1, <1>2, <1>4 DEF c

\* The nodes renewed have the marks of those they renew.
LEMMA RenewedMarks ==
  ASSUME NEW ns, NEW N, NEW at, TreeOf(ns, N, at), NEW b, MarksAre(ns, N, at, b),
         NEW ns2, Alike(ns, ns2),
         \A j \in Id : ns[j] # Free => ns2[j].monitored = ns[j].monitored
  PROVE  MarksAre(ns2, N, at, b)
<1>1. \A p \in N : at[p] \in Id /\ ns[at[p]] # Free
  BY TreeFacts
<1>2. \A p \in N : ns2[at[p]].entry.dir = ns[at[p]].entry.dir
                   /\ ns2[at[p]].monitored = ns[at[p]].monitored
  BY <1>1 DEF Alike
<1>3. QED
  BY <1>2 DEF MarksAre

\* The notes of a comparison as they are told by path.
LEMMA NotesAre ==
  ASSUME NEW N, NEW at, TreeOf(nodes, N, at), NEW p \in N, TypeOK, NEW i,
         NEW children, NEW found, NEW differ, NEW renewed, NEW new,
         FoundAre(N, at, p, i, children, found, differ, renewed, new),
         \A q \in ChangedIn(N, at, p) :
           disk[q] \in Entry /\ disk[q].dir = nodes[at[q]].entry.dir,
         NEW ns, NEW N2, NEW at2, ComparesTo(N, at, p, new, renewed, ns, N2, at2),
         NEW c, c.path = p, CompareChanges(c, children, found, differ, renewed, new)
  PROVE  \E created, deleted, changed :
           /\ Tell(created, deleted, changed)
           /\ CreatedAre(Named(p, new), created)
           /\ DeletedAre(at, GoneFrom(N, at, p), deleted)
           /\ ChangedAre(at, ChangedIn(N, at, p), changed)
<1> DEFINE D == GoneFrom(N, at, p)
           F == ChangedIn(N, at, p)
           Q == Named(p, new)
<1>1. PICK created, deleted, changed :
       /\ Tell(created, deleted, changed)
       /\ \A k : k \in created <=>
            \E n \in Range(new) : k = Known(Append(p, n), disk[Append(p, n)])
       /\ \A k : k \in deleted <=>
            \E j \in children \ found : k = Known(Append(p, nodes[j].name), nodes[j].entry)
       /\ \A x : x \in changed <=>
            \E j \in differ :
              x = [path |-> Append(p, nodes[j].name), old |-> nodes[j].entry,
                   new |-> AsTold(nodes[j].entry, disk[Append(p, nodes[j].name)])]
  BY DEF CompareChanges
<1>2. /\ \A j : j \in children \ found <=> \E d \in D : j = at[d]
      /\ \A j : j \in differ <=> \E d \in F : j = at[d]
  BY DEF FoundAre
<1>3. \A q : q \in Q <=> \E n \in Range(new) : q = Append(p, n)
  BY DEF ComparesTo
<1>4. \A q \in D \cup F : q \in N /\ q # <<>> /\ Front(q) = p
  BY DEF GoneFrom, ChangedIn
<1>5. \A q \in D \cup F : Append(p, nodes[at[q]].name) = q
  <2>1. SUFFICES ASSUME NEW q \in D \cup F PROVE Append(p, nodes[at[q]].name) = q
    OBVIOUS
  <2>2. q \in N /\ q # <<>> /\ Front(q) = p
    BY <1>4
  <2> HIDE DEF D, F, Q
  <2>3. QED
    BY <2>2, ChildFacts
<1>6. \A q \in F : AsTold(nodes[at[q]].entry, disk[q]) = disk[q]
  <2>1. SUFFICES ASSUME NEW q \in F PROVE AsTold(nodes[at[q]].entry, disk[q]) = disk[q]
    OBVIOUS
  <2>2. disk[q] \in Entry /\ disk[q].dir = nodes[at[q]].entry.dir
    OBVIOUS
  <2>3. nodes[at[q]] \in Node
    BY <1>4, TreeFacts
  <2>4. nodes[at[q]].entry \in Entry
    BY <2>3 DEF Node
  <2>5. QED
    BY <2>2, <2>4, AsToldIs
<1> HIDE DEF D, F, Q
<1>7. CreatedAre(Q, created)
  <2>1. ASSUME NEW k \in created PROVE \E q \in Q : k = Known(q, disk[q])
    <3>1. PICK n \in Range(new) : k = Known(Append(p, n), disk[Append(p, n)])
      BY <1>1
    <3>2. Append(p, n) \in Q
      BY <1>3
    <3>3. QED
      BY <3>1, <3>2
  <2>2. ASSUME NEW q \in Q, NEW k, k = Known(q, disk[q]) PROVE k \in created
    <3>1. PICK n \in Range(new) : q = Append(p, n)
      BY <1>3
    <3>2. k = Known(Append(p, n), disk[Append(p, n)])
      BY <2>2, <3>1
    <3>3. QED
      BY <1>1, <3>2
  <2>3. QED
    BY <2>1, <2>2 DEF CreatedAre
<1>8. DeletedAre(at, D, deleted)
  <2>1. ASSUME NEW k \in deleted PROVE \E d \in D : k = Known(d, nodes[at[d]].entry)
    <3>1. PICK j \in children \ found : k = Known(Append(p, nodes[j].name), nodes[j].entry)
      BY <1>1
    <3>2. PICK d \in D : j = at[d]
      BY <1>2
    <3>3. Append(p, nodes[j].name) = d
      BY <1>5, <3>2
    <3>4. QED
      BY <3>1, <3>2, <3>3
  <2>2. ASSUME NEW d \in D, NEW k, k = Known(d, nodes[at[d]].entry) PROVE k \in deleted
    <3>1. at[d] \in children \ found
      BY <1>2
    <3>2. QED
      BY <1>1, <1>5, <2>2, <3>1
  <2>3. QED
    BY <2>1, <2>2 DEF DeletedAre
<1>9. ChangedAre(at, F, changed)
  <2>1. ASSUME NEW x \in changed
        PROVE  \E q \in F : x = [path |-> q, old |-> nodes[at[q]].entry, new |-> disk[q]]
    <3>1. PICK j \in differ :
              x = [path |-> Append(p, nodes[j].name), old |-> nodes[j].entry,
                   new |-> AsTold(nodes[j].entry, disk[Append(p, nodes[j].name)])]
      BY <1>1
    <3>2. PICK q \in F : j = at[q]
      BY <1>2
    <3>3. Append(p, nodes[j].name) = q /\ AsTold(nodes[j].entry, disk[q]) = disk[q]
      BY <1>5, <1>6, <3>2
    <3>4. QED
      BY <3>1, <3>2, <3>3
  <2>2. ASSUME NEW q \in F,
               NEW x, x = [path |-> q, old |-> nodes[at[q]].entry, new |-> disk[q]]
        PROVE  x \in changed
    <3>1. at[q] \in differ
      BY <1>2
    <3>2. Append(p, nodes[at[q]].name) = q /\ AsTold(nodes[at[q]].entry, disk[q]) = disk[q]
      BY <1>5, <1>6
    <3>3. x = [path |-> Append(p, nodes[at[q]].name), old |-> nodes[at[q]].entry,
                   new |-> AsTold(nodes[at[q]].entry, disk[Append(p, nodes[at[q]].name)])]
      BY <2>2, <3>2
    <3>4. QED
      BY <1>1, <3>1, <3>3
  <2>3. QED
    BY <2>1, <2>2 DEF ChangedAre
<1>10. QED
  BY <1>1, <1>7, <1>8, <1>9 DEF D, F, Q

\* The entries of a tree are known by paths and entries there may be.
LEMMA EntriesAre ==
  ASSUME NEW ns, NEW N, NEW at, TreeOf(ns, N, at), NEW p \in Seq(Names)
  PROVE  Entries(ns, N, at, p) \subseteq [path : Paths, entry : Entry]
<1>1. SUFFICES ASSUME NEW q \in N, IsStrictPrefix(p, q)
               PROVE  Known(q, ns[at[q]].entry) \in [path : Paths, entry : Entry]
  BY DEF Entries
<1>2. q # <<>>
  BY <1>1 DEF IsStrictPrefix, IsPrefix
<1>3. q \in Paths /\ ns[at[q]] \in Node
  BY <1>2, ChildFacts, NodeFacts
<1>4. QED
  BY <1>3 DEF Known, Node

\* A directory is compared, and the memory suffices.
LEMMA CompareStep ==
  ASSUME IInv, Compare
  PROVE  IInv'
<1>1. PICK N, at : Inv(N, at)
  BY DEF IInv
<1>2. /\ TypeOK /\ DiskIsClosed /\ Typed /\ todo \in Seq(CallSet)
      /\ bucket.path \in Seq(Names)
      /\ bucket = [path |-> bucket.path, mark |-> bucket.mark] /\ bucket.mark \in BOOLEAN
  BY BucketPath DEF IInv
<1>3. /\ TreeOf(nodes, N, at) /\ MarksAre(nodes, N, at, bucket)
      /\ CallsAre(nodes, N, at, bucket, todo)
      /\ Listens(bucket) => view = Entries(nodes, N, at, bucket.path)
      /\ quiet /\ Listens(bucket) => Compared(nodes, N, at, bucket, todo)
  BY <1>1 DEF Inv
<1> DEFINE c == Head(todo)
           p == c.path
           rest == Tail(todo)
<1>4. /\ todo # <<>> /\ ~c.check
      /\ c.monitored \/ nodes[c.node].monitored
      /\ UNCHANGED <<disk, changes, quiet>>
  BY DEF Compare
<1>5. /\ CallIs(nodes, N, at, bucket, c) /\ rest \in Seq(CallSet)
      /\ CallsAre(nodes, N, at, bucket, rest) /\ Apart(rest, p)
      /\ \A n \in DOMAIN todo : todo[n] = c \/ \E k \in DOMAIN rest : todo[n] = rest[k]
  BY <1>2, <1>3, <1>4, HeadAndTail
<1>6. PICK children, found, differ, renewed, new :
           /\ IsComparison(p, c.node, children, found, differ, renewed, new)
           /\ IF HasRoom(nodes, Len(new))
              THEN CompareChanges(c, children, found, differ, renewed, new)
              ELSE failed' = TRUE /\ UNCHANGED <<nodes, todo, bucket, view>>
  BY CompareIs
<1>7. CASE ~HasRoom(nodes, Len(new))
  <2>1. UNCHANGED <<disk, changes, nodes, todo, quiet, bucket, view>> /\ failed' = TRUE
    BY <1>4, <1>6, <1>7
  <2>2. QED
    BY <2>1, CompareFails
<1>8. CASE HasRoom(nodes, Len(new))
  <2> DEFINE D == GoneFrom(N, at, p)
             F == ChangedIn(N, at, p)
             Q == Named(p, new)
  <2>1. CompareChanges(c, children, found, differ, renewed, new)
    BY <1>6, <1>8
  <2>2. todo' = CallsBelow(nodes', c, TRUE) /\ failed' = failed
        /\ nodes' = DeleteChildren(AddChildren(renewed, c.node, p, new), c.node,
                                   children \ found)
    BY <2>1 DEF CompareChanges
  <2> HIDE DEF c, rest
  <2>3. /\ p \in N /\ c.node = at[p] /\ nodes[at[p]].entry.dir
        /\ Listens(bucket) /\ IsPrefix(bucket.path, p)
    <3>1. p \in N /\ c.node = at[p] /\ nodes[at[p]].entry.dir
          /\ (c.monitored <=> Listens(bucket) /\ IsStrictPrefix(bucket.path, p))
      BY <1>5 DEF CallIs
    <3>2. nodes[at[p]].monitored <=> Listens(bucket) /\ p = bucket.path
      BY <1>3, <3>1 DEF MarksAre
    <3>3. IsPrefix(bucket.path, bucket.path)
      BY <1>2 DEF IsPrefix
    <3>4. QED
      BY <1>4, <3>1, <3>2, <3>3 DEF IsStrictPrefix
  <2>4. FoundAre(N, at, p, c.node, children, found, differ, renewed, new)
    <3> HIDE DEF p
    <3>1. QED
      BY <1>3, <1>6, <2>3, FoundIs DEF p
  <2>5. /\ Alike(nodes, renewed) /\ RenewedIs(N, at, F, renewed)
        /\ \A j \in Id : nodes[j] # Free => renewed[j].monitored = nodes[j].monitored
        /\ \A q \in F : disk[q] \in Entry /\ disk[q].dir = nodes[at[q]].entry.dir
    BY <1>2, <1>3, <2>3, <2>4, RenewedAre
  <2>6. TreeOf(renewed, N, at)
    BY <1>3, <2>5, SameShape
  <2>7. PICK N2, at2 : ComparesTo(N, at, p, new, renewed, nodes', N2, at2)
    <3>1. \E N2, at2 : ComparesTo(N, at, p, new, renewed,
             DeleteChildren(AddChildren(renewed, at[p], p, new), at[p], children \ found), N2, at2)
      BY <1>2, <1>3, <1>8, <2>3, <2>4, ComparedIs
    <3>2. nodes' = DeleteChildren(AddChildren(renewed, at[p], p, new), at[p], children \ found)
      BY <2>2, <2>3
    <3>3. QED
      BY <3>1, <3>2
  <2>8. /\ InDirectory(N, p, Q, D, F)
        /\ IsChanged(renewed, N, at, D, Q, nodes', N2, at2)
        /\ \A q \in Paths : Front(q) = p => (q \in N2 <=> disk[q] # NoEntry)
        /\ \A q \in Paths : Front(q) = p /\ q \in N2 => nodes'[at2[q]].entry = disk[q]
    BY <2>7 DEF ComparesTo
  <2>9. PICK created, deleted, changed :
           /\ Tell(created, deleted, changed)
           /\ CreatedAre(Q, created) /\ DeletedAre(at, D, deleted)
           /\ ChangedAre(at, F, changed)
    BY <1>2, <1>3, <2>1, <2>3, <2>4, <2>5, <2>7, NotesAre
  <2> HIDE DEF D, F, Q, p
  <2>10. bucket' = bucket /\ view' = Entries(nodes', N2, at2, bucket.path)
    <3>1. view = Entries(nodes, N, at, bucket.path)
      BY <1>3, <2>3
    <3>2. QED
      BY <1>2, <1>3, <2>3, <2>5, <2>8, <2>9, <3>1, ToldIs
  <2>11. /\ N \subseteq Seq(Names) /\ p \in Seq(Names)
         /\ \A q \in N : q # <<>> => q \in Paths
    BY <1>3, <2>3, TreeFacts
  <2>12. /\ Q \subseteq Paths /\ D \subseteq N /\ F \subseteq N
         /\ D \subseteq Paths
         /\ \A q \in Q : Front(q) = p
         /\ \A q \in D : Front(q) = p
         /\ \A q \in F : Front(q) = p
    BY <2>8, <2>11 DEF InDirectory
  <2>13. /\ TreeOf(nodes', N2, at2) /\ N2 = (N \ Under(N, D)) \cup Q
         /\ \A q \in N \ Under(N, D) :
              q \notin Q /\ at2[q] = at[q] /\ nodes'[at[q]].entry = renewed[at[q]].entry
    BY <2>8 DEF IsChanged
  \* What is deleted lies below p, and the calls that wait do not.
  <2>14. ASSUME NEW q \in Seq(Names), q \in Under(N, D)
         PROVE  IsPrefix(p, q) /\ q # p
    <3>1. PICK d \in D : IsPrefix(d, q)
      BY <2>14 DEF Under
    <3>2. d \in Paths /\ d \in Seq(Names) /\ Front(d) = p
      BY <2>11, <2>12
    <3>3. IsPrefix(p, d) /\ Len(p) = Len(d) - 1 /\ Len(d) \in Nat
      BY <3>2, FrontIsPrefix, PlaceFacts
    <3>4. IsPrefix(p, q)
      BY <2>11, <3>1, <3>2, <3>3, PrefixTransitive
    <3>5. Len(d) <= Len(q)
      BY <3>1 DEF IsPrefix
    <3>6. QED
      BY <3>3, <3>4, <3>5
  <2>15. p \notin Under(N, D) /\ bucket.path \notin Under(N, D)
    <3>1. p \notin Under(N, D)
      BY <2>11, <2>14
    <3>2. ASSUME bucket.path \in Under(N, D) PROVE FALSE
      <4>1. IsPrefix(p, bucket.path) /\ bucket.path # p
        BY <1>2, <2>14, <3>2
      <4>2. QED
        BY <1>2, <2>3, <2>11, <4>1 DEF IsPrefix
    <3>3. QED
      BY <3>1, <3>2
  <2>16. \A q \in Q : IsStrictPrefix(bucket.path, q)
    BY <1>2, <2>3, <2>11, <2>12, Heard
  <2>17. MarksAre(nodes', N2, at2, bucket)
    <3>1. MarksAre(renewed, N, at, bucket)
      BY <1>3, <2>5, RenewedMarks
    <3>2. MayBeNew(bucket, Q) /\ bucket.path \notin Q
      BY <2>3, <2>16 DEF MayBeNew, IsStrictPrefix
    <3>3. QED
      BY <1>2, <2>6, <2>8, <2>12, <2>15, <3>1, <3>2, MarksKept
  <2>18. \A n \in DOMAIN rest : rest[n].path \in Seq(Names)
    BY <1>5, <2>11 DEF CallsAre, CallIs
  <2>19. CallsAre(nodes', N2, at2, bucket, rest)
    <3>1. CallsAre(renewed, N, at, bucket, rest)
      BY <1>3, <1>5, <2>5, AlikeCalls
    <3>2. ClearOf(N, D, rest)
      BY <1>5, <2>14, <2>18 DEF ClearOf, Apart, p
    <3>3. SameFor(bucket, bucket, rest)
      BY DEF SameFor
    <3>4. QED
      BY <2>6, <2>8, <2>12, <3>1, <3>2, <3>3, CallsKept
  <2>20. p \in N2 /\ at2[p] = at[p]
    BY <2>3, <2>13, <2>15
  <2> DEFINE calls == CallsBelow(nodes', c, TRUE)
  <2>21. BelowAndRest(nodes', N2, at2, p, TRUE, rest, calls)
    <3>1. \A m, n \in DOMAIN rest : rest[m].path = rest[n].path => m = n
      <4>1. \A n \in DOMAIN rest : IsPrefix(rest[n].path, rest[n].path)
        BY <2>18 DEF IsPrefix
      <4>2. QED
        BY <1>5, <4>1 DEF CallsAre
    <3>2. c.path \in N2 /\ c.node = at2[c.path]
      BY <2>3, <2>20 DEF p
    <3>3. Apart(Tail(todo), c.path)
      BY <1>5 DEF p, rest
    <3>4. BelowAndRest(nodes', N2, at2, c.path, TRUE, Tail(todo), CallsBelow(nodes', c, TRUE))
      BY <1>2, <1>4, <2>13, <3>1, <3>2, <3>3, CallsBelowAre DEF rest
    <3>5. QED
      BY <3>4 DEF p, rest
  <2> HIDE DEF calls
  <2>22. CallsAre(nodes', N2, at2, bucket, calls)
    <3>1. Apart(rest, p)
      BY <1>5 DEF p
    <3>2. QED
      BY <1>2, <2>3, <2>13, <2>19, <2>20, <2>21, <3>1, CallsAfter
  <2>23. ASSUME quiet PROVE Compared(nodes', N2, at2, bucket, calls)
    <3>1. SUFFICES ASSUME NEW d \in N2, nodes'[at2[d]].entry.dir,
                          IsPrefix(bucket.path, d), Readable(d),
                          \A n \in DOMAIN calls : ~IsPrefix(calls[n].path, d)
                   PROVE  ExactIn(nodes', N2, at2, d)
      BY DEF Compared
    <3>2. /\ d = p \/ ~IsPrefix(p, d)
          /\ \A k \in DOMAIN rest : ~IsPrefix(rest[k].path, d)
      <4>1. TreeOf(nodes', N2, at2) /\ p \in N2
        BY <2>13, <2>20
      <4>2. Uncalled(calls, d)
        BY <3>1 DEF Uncalled
      <4>3. (d = p \/ ~IsPrefix(p, d)) /\ Uncalled(rest, d)
        BY <2>21, <3>1, <4>1, <4>2, NotCalled
      <4>4. QED
        BY <4>3 DEF Uncalled
    <3>3. CASE d = p
      BY <2>8, <3>3 DEF ExactIn
    <3>4. CASE d # p
      <4>1. d \in Seq(Names) /\ ~IsPrefix(p, d)
        BY <2>13, <3>2, <3>4, NodeFacts
      <4>2. d \notin Q
        <5>1. ASSUME d \in Q PROVE FALSE
          <6>1. d \in Paths /\ Front(d) = p
            BY <2>12, <5>1
          <6>2. IsPrefix(p, d)
            BY <4>1, <6>1, FrontIsPrefix, PlaceFacts
          <6>3. QED
            BY <4>1, <6>2
        <5>2. QED
          BY <5>1
      <4>3. d \in N \ Under(N, D)
        BY <2>13, <4>2
      <4>4. nodes[at[d]].entry.dir
        <5>1. at[d] \in Id /\ nodes[at[d]] # Free
          BY <1>3, <4>3, TreeFacts
        <5>2. QED
          BY <2>5, <2>13, <3>1, <4>3, <5>1 DEF Alike
      <4>5. \A n \in DOMAIN todo : ~IsPrefix(todo[n].path, d)
        BY <1>5, <3>2, <4>1 DEF p
      <4>6. ExactIn(nodes, N, at, d)
        BY <1>3, <2>3, <2>23, <3>1, <4>3, <4>4, <4>5 DEF Compared
      <4>7. ASSUME NEW q \in Paths, Front(q) = d
            PROVE  /\ q \in N2 <=> disk[q] # NoEntry
                   /\ q \in N2 => nodes'[at2[q]].entry = disk[q]
        <5>1. q \notin Q /\ q \notin F
          BY <2>12, <3>4, <4>7
        <5>2. q \notin Under(N, D)
          <6>1. ASSUME q \in Under(N, D) PROVE FALSE
            <7>1. q \in Seq(Names) /\ q # <<>>
              BY PlaceFacts DEF Places
            <7>2. IsPrefix(p, q) /\ q # p
              BY <2>14, <6>1, <7>1
            <7>3. IsPrefix(p, Front(q))
              BY <2>11, <7>1, <7>2, PrefixOfChild
            <7>4. QED
              BY <4>1, <4>7, <7>3
          <6>2. QED
            BY <6>1
        <5>3. q \in N2 <=> q \in N
          BY <2>13, <5>1, <5>2
        <5>4. q \in N => nodes'[at2[q]].entry = nodes[at[q]].entry
          BY <2>5, <2>13, <5>1, <5>2 DEF RenewedIs
        <5>5. QED
          BY <4>6, <4>7, <5>3, <5>4 DEF ExactIn
      <4>8. QED
        BY <4>7 DEF ExactIn
    <3>5. QED
      BY <3>3, <3>4
  <2>24. Typed'
    <3>1. view' \subseteq [path : Paths, entry : Entry]
      BY <1>2, <2>10, <2>13, EntriesAre
    <3>2. QED
      BY <1>2, <1>4, <2>2, <2>10, <3>1 DEF Typed
  <2>25. calls \in Seq(CallSet) /\ todo' = calls
    BY <2>2, <2>21 DEF BelowAndRest, calls
  <2>26. QED
    BY <1>2, <1>4, <2>10, <2>13, <2>17, <2>22, <2>23, <2>24, <2>25, InvAfter
<1>9. QED
  BY <1>7, <1>8

\* Other programs leave a disk on which every entry lies in a directory.
LEMMA DiskStaysClosed ==
  ASSUME TypeOK, DiskIsClosed, NEW p \in Paths, Make(p) \/ Erase(p) \/ Alter(p)
  PROVE  disk' \in [Paths -> Entry \cup {NoEntry}] /\ DiskIsClosed'
<1>1. disk \in [Paths -> Entry \cup {NoEntry}]
  BY DEF TypeOK
<1>2. \A q \in Paths : disk[q] # NoEntry /\ Len(q) > 1 => disk[Front(q)].dir /\ Front(q) \in Paths
  BY PathsAreClosed DEF DiskIsClosed
<1>3. ~NoEntry.dir /\ NoEntry \notin Entry
  BY NoEntryIsNone DEF NoEntry
<1>4. p \in Seq(Names) /\ \A q \in Paths : q \in Seq(Names) /\ q # <<>> /\ Len(q) \in Nat
                                         /\ Len(Front(q)) = Len(q) - 1
  BY PlaceFacts DEF Places
<1>5. CASE Make(p)
  <2>1. PICK e \in Entry : disk' = [disk EXCEPT ![p] = e]
    <3>1. {[dir |-> TRUE, perms |-> "open", data |-> "none"],
              [dir |-> FALSE, perms |-> "open", data |-> "short"]} \subseteq Entry
      BY DEF Entry, Contents
    <3>2. QED
      BY <1>5, <3>1 DEF Make
  <2>2. disk[p] = NoEntry /\ EntryAt(Front(p)).dir
    BY <1>5 DEF Make
  <2>3. disk' \in [Paths -> Entry \cup {NoEntry}] /\ disk'[p] = e
        /\ \A q \in Paths : q # p => disk'[q] = disk[q]
    BY <1>1, <2>1
  <2>4. ASSUME NEW q \in Paths, disk'[q] # NoEntry, Len(q) > 1
        PROVE  disk'[Front(q)].dir
    <3>1. Front(q) \in Paths /\ Front(q) # q /\ Front(q) # <<>>
      BY <1>4, <2>4, PathsAreClosed
    <3>2. CASE q = p
      BY <2>2, <2>3, <3>1, <3>2 DEF EntryAt
    <3>3. CASE q # p
      BY <1>2, <1>3, <2>2, <2>3, <2>4, <3>1, <3>3
    <3>4. QED
      BY <3>2, <3>3
  <2>5. QED
    BY <2>3, <2>4 DEF DiskIsClosed
<1>6. CASE Erase(p)
  <2>1. disk' \in [Paths -> Entry \cup {NoEntry}]
        /\ \A q \in Paths : disk'[q] = IF IsPrefix(p, q) THEN NoEntry ELSE disk[q]
    BY <1>1, <1>6 DEF Erase
  <2>2. ASSUME NEW q \in Paths, disk'[q] # NoEntry, Len(q) > 1
        PROVE  disk'[Front(q)].dir
    <3>1. ~IsPrefix(p, q) /\ disk[q] # NoEntry
      BY <2>1, <2>2
    <3>2. ~IsPrefix(p, Front(q))
      BY <1>4, <3>1, PrefixOfChild
    <3>3. QED
      BY <1>2, <2>1, <2>2, <3>1, <3>2
  <2>3. QED
    BY <2>1, <2>2 DEF DiskIsClosed
<1>7. CASE Alter(p)
  <2>1. PICK e \in Entry : e.dir = disk[p].dir /\ disk' = [disk EXCEPT ![p] = e]
    BY <1>7 DEF Alter
  <2>2. disk[p] # NoEntry
    BY <1>7 DEF Alter
  <2>3. disk' \in [Paths -> Entry \cup {NoEntry}] /\ disk'[p] = e
        /\ \A q \in Paths : q # p => disk'[q] = disk[q]
    BY <1>1, <2>1
  <2>4. ASSUME NEW q \in Paths, disk'[q] # NoEntry, Len(q) > 1
        PROVE  disk'[Front(q)].dir
    <3>1. disk[q] # NoEntry
      BY <2>2, <2>3, <2>4
    <3>2. disk[Front(q)].dir /\ Front(q) \in Paths
      BY <1>2, <2>4, <3>1
    <3>3. QED
      BY <2>1, <2>3, <3>2
  <2>5. QED
    BY <2>3, <2>4 DEF DiskIsClosed
<1>8. QED
  BY <1>5, <1>6, <1>7

LEMMA ChangeDiskStep ==
  ASSUME IInv, ChangeDisk
  PROVE  IInv'
<1>1. PICK N, at : Inv(N, at)
  BY DEF IInv
<1>2. TypeOK /\ DiskIsClosed /\ todo \in Seq(CallSet)
  BY DEF IInv
<1>3. /\ changes < MaxChanges /\ changes' = changes + 1 /\ quiet' = FALSE
      /\ UNCHANGED <<nodes, bucket, view, todo, failed>>
  BY DEF ChangeDisk
<1>4. disk' \in [Paths -> Entry \cup {NoEntry}] /\ DiskIsClosed'
  <2>1. PICK p \in Paths : Make(p) \/ Erase(p) \/ Alter(p)
    BY DEF ChangeDisk
  <2>2. QED
    BY <1>2, <2>1, DiskStaysClosed
<1>5. TypeOK'
  <2>1. changes' \in 0..MaxChanges
    BY <1>2, <1>3, BoundsAreNat DEF TypeOK
  <2>2. QED
    BY <1>2, <1>3, <1>4, <2>1 DEF TypeOK
<1>6. Inv(N, at)'
  BY <1>1, <1>3 DEF Inv
<1>7. QED
  BY <1>2, <1>3, <1>4, <1>5, <1>6 DEF IInv

\* The empty tree.
LEMMA RootAlone ==
  ASSUME NEW ns \in [Id -> Node \cup {Free}], ns[Root] \in Node, ns[Root].children = <<>>,
         \A i \in Id : ns[i] # Free /\ i # Root => ~ns[i].entry.dir /\ ns[i].children = <<>>
  PROVE  TreeOf(ns, {<<>>}, [p \in {<<>>} |-> Root])
<1> DEFINE at == [p \in {<<>>} |-> Root]
<1>1. at \in [{<<>>} -> Id] /\ at[<<>>] = Root
  BY IdFacts
<1>2. Range(<<>>) = {} /\ IsInjective(<<>>)
  BY DEF Range, IsInjective
<1> HIDE DEF at
<1>3. /\ {<<>>} \subseteq Places
      /\ \A p, q \in {<<>>} : at[p] = at[q] => p = q
      /\ \A p \in {<<>>} : ns[at[p]] \in Node /\ IsInjective(ns[at[p]].children)
      /\ \A p \in {<<>>} : Range(ns[at[p]].children) = {}
  BY <1>1, <1>2 DEF Places
<1>4. \A i \in Id : ns[i] # Free /\ (\A p \in {<<>>} : at[p] # i) =>
       ~ns[i].entry.dir /\ ns[i].children = <<>>
  BY <1>1
<1>5. TreeOf(ns, {<<>>}, at)
  BY <1>1, <1>3, <1>4 DEF TreeOf
<1>6. QED
  BY <1>5 DEF at

LEMMA RootMarks ==
  ASSUME NEW ns, ns[Root].entry.dir, ~ns[Root].monitored, NEW b, ~Listens(b)
  PROVE  MarksAre(ns, {<<>>}, [p \in {<<>>} |-> Root], b)
BY DEF MarksAre

LEMMA InitStep ==
  ASSUME Init
  PROVE  IInv
<1> DEFINE at == [p \in {<<>>} |-> Root]
<1>1. PICK depth \in {1, 3} : disk = [p \in Paths |->
         IF Len(p) > depth THEN NoEntry
         ELSE IF \E q \in Paths : IsStrictPrefix(p, q)
         THEN [dir |-> TRUE, perms |-> "open", data |-> "none"]
         ELSE [dir |-> FALSE, perms |-> "open", data |-> "short"]]
  BY DEF Init
<1>2. /\ [dir |-> TRUE, perms |-> "open", data |-> "none"] \in Entry
      /\ [dir |-> FALSE, perms |-> "open", data |-> "short"] \in Entry
  BY DEF Entry, Contents
<1>3. disk \in [Paths -> Entry \cup {NoEntry}]
  BY <1>1, <1>2
<1>4. /\ changes = 0 /\ bucket = NoBucket /\ view = {} /\ todo = <<>>
      /\ quiet = FALSE /\ failed = FALSE
      /\ nodes = [i \in Id |-> IF i = Root THEN NewNode("/", DirectoryEntry) ELSE Free]
  BY DEF Init, DirectoryEntry
<1>5. DiskIsClosed
  <2>1. SUFFICES ASSUME NEW p \in Paths, disk[p] # NoEntry, Len(p) > 1
                 PROVE  disk[Front(p)].dir
    BY DEF DiskIsClosed
  <2>2. /\ p \in Seq(Names) /\ p # <<>> /\ Len(p) \in Nat /\ Len(Front(p)) = Len(p) - 1
        /\ Front(p) \in Paths
    BY <2>1, PlaceFacts, PathsAreClosed DEF Places
  <2>3. IsStrictPrefix(Front(p), p)
    BY <2>2, FrontIsPrefix DEF IsStrictPrefix
  <2>4. ~(Len(p) > depth)
    BY <1>1, <2>1
  <2>5. ~(Len(Front(p)) > depth)
    BY <2>2, <2>4
  <2>6. disk[Front(p)] = [dir |-> TRUE, perms |-> "open", data |-> "none"]
    BY <1>1, <2>2, <2>3, <2>5
  <2>7. QED
    BY <2>6
<1>6. NewNode("/", DirectoryEntry) \in Node /\ NewNode("/", DirectoryEntry).children = <<>>
      /\ ~NewNode("/", DirectoryEntry).monitored /\ NewNode("/", DirectoryEntry).entry.dir
  BY <1>2 DEF NewNode, Node, DirectoryEntry
<1>7. nodes \in [Id -> Node \cup {Free}] /\ nodes[Root] = NewNode("/", DirectoryEntry)
      /\ \A i \in Id : i # Root => nodes[i] = Free
  BY <1>4, <1>6, IdFacts
<1>8. TreeOf(nodes, {<<>>}, at)
  BY <1>6, <1>7, RootAlone
<1>9. ~Listens(bucket) /\ bucket \in [path : Watched \cup {<<>>}, mark : BOOLEAN]
  BY <1>4 DEF Listens, NoBucket
<1>10. MarksAre(nodes, {<<>>}, at, bucket)
  BY <1>6, <1>7, <1>9, RootMarks
<1> HIDE DEF at
<1>11. Inv({<<>>}, at)
  BY <1>4, <1>8, <1>9, <1>10 DEF Inv, CallsAre
<1>12. TypeOK
  <2>1. changes \in 0..MaxChanges /\ {quiet, failed} \subseteq BOOLEAN
    <3>1. changes = 0 /\ MaxChanges \in Nat
      BY <1>4, BoundsAreNat
    <3>2. quiet \in BOOLEAN /\ failed \in BOOLEAN
      BY <1>4
    <3>3. QED
      BY <3>1, <3>2
  <2>2. \A i \in Id : nodes[i] = Free \/ nodes[i] \in Node
    BY <1>7
  <2>3. view \subseteq [path : Paths, entry : Entry]
    BY <1>4
  <2>4. \A n \in DOMAIN todo :
       todo[n] \in [node : Id, father : Id, path : Paths \cup {<<>>},
                   monitored : BOOLEAN, check : BOOLEAN]
    BY <1>4
  <2>5. QED
    BY <1>3, <1>9, <2>1, <2>2, <2>3, <2>4 DEF TypeOK
<1>13. QED
  BY <1>4, <1>5, <1>11, <1>12 DEF IInv

\* __unmark_server_subtree takes the mark from the node of path p, if it has one.
LEMMA UnmarkIs ==
  ASSUME NEW ns, NEW N, NEW at, TreeOf(ns, N, at), NEW p \in Seq(Names)
  PROVE  /\ Alike(ns, Unmark(ns, p))
         /\ \A q \in N : /\ Unmark(ns, p)[at[q]].entry = ns[at[q]].entry
                         /\ Unmark(ns, p)[at[q]].monitored <=> ns[at[q]].monitored /\ q # p
<1>1. NodeAt(ns, p) = IF p \in N THEN at[p] ELSE 0
  BY NodeAtIs
<1>2. ns \in [Id -> Node \cup {Free}]
  BY DEF TreeOf
<1>3. \A q \in N : at[q] \in Id /\ ns[at[q]] \in Node
  BY TreeFacts
<1>4. \A x \in Node : x.monitored \in BOOLEAN
  BY DEF Node
<1>5. CASE p \notin N
  <2>1. Unmark(ns, p) = ns
    BY <1>1, <1>5 DEF Unmark
  <2>2. Alike(ns, ns)
    BY <1>2 DEF Alike
  <2>3. QED
    BY <1>5, <2>1, <2>2
<1>6. CASE p \in N
  <2> DEFINE ns2 == Unmark(ns, p)
  <2>1. at[p] # 0
    BY <1>3, <1>6, IdFacts
  <2>2. ns2 = [ns EXCEPT ![at[p]].monitored = FALSE]
    BY <1>1, <1>6, <2>1 DEF Unmark
  <2> HIDE DEF ns2
  <2>3. /\ ns2[at[p]] = [ns[at[p]] EXCEPT !.monitored = FALSE]
        /\ \A i \in Id : i # at[p] => ns2[i] = ns[i]
        /\ DOMAIN ns2 = Id /\ ns2 = [i \in Id |-> ns2[i]]
    BY <1>2, <1>3, <1>6, <2>2
  <2>4. /\ ns2[at[p]] \in Node /\ ns2[at[p]].name = ns[at[p]].name
        /\ ns2[at[p]].children = ns[at[p]].children
        /\ ns2[at[p]].entry = ns[at[p]].entry /\ ns2[at[p]].monitored = FALSE
    BY <1>3, <1>6, <2>3 DEF Node
  <2>5. ns2 \in [Id -> Node \cup {Free}]
    <3>1. \A i \in Id : ns2[i] \in Node \cup {Free}
      BY <1>2, <2>3, <2>4
    <3>2. QED
      BY <2>3, <3>1
  <2>6. Alike(ns, ns2)
    <3>1. ns2[at[p]] # Free /\ ns[at[p]] # Free
      BY <1>3, <1>6, <2>4, FreeIsNoNode
    <3>2. ASSUME NEW i \in Id
          PROVE  IF ns[i] = Free THEN ns2[i] = Free
                   ELSE /\ ns2[i] # Free /\ ns2[i].name = ns[i].name
                        /\ ns2[i].children = ns[i].children
                        /\ ns2[i].entry.dir = ns[i].entry.dir
      BY <2>3, <2>4, <3>1
    <3>3. QED
      BY <2>5, <3>2 DEF Alike
  <2>7. ASSUME NEW q \in N
        PROVE  /\ ns2[at[q]].entry = ns[at[q]].entry
               /\ ns2[at[q]].monitored <=> ns[at[q]].monitored /\ q # p
    <3>1. CASE q = p
      BY <2>4, <3>1
    <3>2. CASE q # p
      <4>1. at[q] # at[p] /\ at[q] \in Id
        BY <1>3, <1>6, <3>2, TreeFacts
      <4>2. QED
        BY <2>3, <3>2, <4>1
    <3>3. QED
      BY <3>1, <3>2
  <2>8. QED
    BY <2>6, <2>7 DEF ns2
<1>7. QED
  BY <1>5, <1>6

\* Where nothing is monitored, __dfs_clean_subtree leaves the root.
LEMMA CleanIs ==
  ASSUME NEW ns, NEW N, NEW at, TreeOf(ns, N, at),
         \A q \in N : ~ns[at[q]].monitored
  PROVE  /\ Clean(ns) \in [Id -> Node \cup {Free}]
         /\ Clean(ns)[Root] = [ns[Root] EXCEPT !.children = <<>>]
         /\ Clean(ns)[Root] \in Node /\ Clean(ns)[Root].children = <<>>
         /\ Clean(ns)[Root].entry = ns[Root].entry
         /\ Clean(ns)[Root].monitored = ns[Root].monitored
         /\ \A i \in Id : Clean(ns)[i] # Free /\ i # Root =>
              ~Clean(ns)[i].entry.dir /\ Clean(ns)[i].children = <<>>
<1> DEFINE tree == Reach(ns, Root)
           below == [i \in tree |-> Reach(ns, i)]
           kept == {i \in tree : \E m \in tree :
                      ns[m].monitored /\ (m \in below[i] \/ i \in below[m])}
           gone == tree \ (kept \cup {Root})
           ns2 == Clean(ns)
<1>1. /\ N \subseteq Seq(Names) /\ <<>> \in N /\ at[<<>>] = Root
      /\ \A q \in N : at[q] \in Id /\ ns[at[q]] \in Node
  BY TreeFacts
<1>2. \A i : i \in tree <=> \E q \in N : i = at[q]
  <2>1. Reach(ns, at[<<>>]) = {at[q] : q \in {r \in N : IsPrefix(<<>>, r)}}
    BY <1>1, ReachIs
  <2>2. \A r \in N : IsPrefix(<<>>, r)
    BY <1>1 DEF IsPrefix
  <2>3. QED
    BY <1>1, <2>1, <2>2
<1>3. ns2 = [i \in Id |-> IF i \in gone THEN Free
                    ELSE IF i \in tree
                    THEN [ns[i] EXCEPT !.children = Without(@, gone)]
                    ELSE ns[i]]
  BY DEF Clean
<1> HIDE DEF tree, ns2
<1>4. kept = {}
  BY <1>2
<1> HIDE DEF kept
<1>5. \A i : i \in gone <=> i \in tree /\ i # Root
  BY <1>4
<1> HIDE DEF gone
<1>6. Root \in tree /\ Root \in Id
  BY <1>1, <1>2, IdFacts
<1>7. ns2[Root] = [ns[Root] EXCEPT !.children = Without(@, gone)]
  BY <1>3, <1>5, <1>6
<1>8. Without(ns[Root].children, gone) = <<>>
  <2> DEFINE list == ns[Root].children
  <2>1. list \in Seq(Id) /\ IsInjective(list)
    BY <1>1, TreeFacts
  <2>2. ASSUME NEW i \in Range(list) PROVE i \in gone
    <3>1. i \in Range(ns[at[<<>>]].children)
      BY <1>1, <2>2
    <3>2. PICK q \in N \ {<<>>} : i = at[q] /\ Front(q) = <<>>
      <4>1. \A r \in N : \A k \in Range(ns[at[r]].children) :
              \E q \in N \ {<<>>} : k = at[q] /\ Front(q) = r
        BY Zenon DEF TreeOf
      <4>2. QED
        BY <1>1, <3>1, <4>1
    <3>3. i # Root
      BY <1>1, <3>2, TreeFacts
    <3>4. QED
      BY <1>2, <1>5, <3>2, <3>3
  <2> HIDE DEF list
  <2>3. Without(list, gone) \in Seq(Id) /\ Range(Without(list, gone)) = Range(list) \ gone
    BY <2>1, WithoutFacts
  <2>4. Range(Without(list, gone)) = {}
    BY <2>2, <2>3
  <2>5. ASSUME NEW s \in Seq(Id), Range(s) = {} PROVE s = <<>>
    <3>1. SUFFICES ASSUME s # <<>> PROVE FALSE
      OBVIOUS
    <3>2. s[1] \in Range(s)
      <4>1. 1 \in DOMAIN s
        BY <3>1
      <4>2. QED
        BY <4>1 DEF Range
    <3>3. QED
      BY <2>5, <3>2
  <2>6. QED
    BY <2>3, <2>4, <2>5 DEF list
<1>9. ns2[Root] = [ns[Root] EXCEPT !.children = <<>>] /\ ns[Root] \in Node
  BY <1>1, <1>7, <1>8
<1>10. /\ ns2[Root] \in Node /\ ns2[Root].children = <<>>
       /\ ns2[Root].entry = ns[Root].entry /\ ns2[Root].monitored = ns[Root].monitored
  <2> DEFINE none == <<>>
             x == ns[Root]
             y == [x EXCEPT !.children = none]
  <2>1. none \in Seq(Id) /\ x \in Node /\ ns2[Root] = y
    BY <1>9
  <2> HIDE DEF none, x
  <2>2. y \in Node /\ y.children = none /\ y.entry = x.entry /\ y.monitored = x.monitored
    BY <2>1, NodeWithChildren
  <2>3. QED
    BY <2>1, <2>2 DEF none, x
<1>11. ns \in [Id -> Node \cup {Free}]
       /\ \A i \in Id : ns[i] # Free /\ (\A p \in N : at[p] # i) =>
            ~ns[i].entry.dir /\ ns[i].children = <<>>
  BY DEF TreeOf
<1>12. \A i \in Id : i # Root => ns2[i] = IF i \in gone THEN Free ELSE ns[i]
  BY <1>3, <1>5
<1>13. ns2 \in [Id -> Node \cup {Free}]
  <2>1. \A i \in Id : ns2[i] \in Node \cup {Free}
    BY <1>10, <1>11, <1>12
  <2>2. ns2 = [i \in Id |-> ns2[i]]
    BY <1>3
  <2>3. QED
    BY <2>1, <2>2
<1>14. ASSUME NEW i \in Id, ns2[i] # Free, i # Root
       PROVE  ~ns2[i].entry.dir /\ ns2[i].children = <<>>
  <2>1. i \notin gone /\ ns2[i] = ns[i]
    BY <1>12, <1>14
  <2>2. \A p \in N : at[p] # i
    BY <1>2, <1>5, <1>14, <2>1
  <2>3. QED
    BY <1>11, <1>14, <2>1, <2>2
<1>15. QED
  BY <1>9, <1>10, <1>13, <1>14 DEF ns2

LEMMA LeaveStep ==
  ASSUME IInv, Leave
  PROVE  IInv'
<1>1. PICK N, at : Inv(N, at)
  BY DEF IInv
<1>2. TypeOK /\ DiskIsClosed /\ Typed /\ todo \in Seq(CallSet) /\ bucket.path \in Seq(Names)
  BY BucketPath DEF IInv
<1>3. TreeOf(nodes, N, at) /\ MarksAre(nodes, N, at, bucket)
  BY <1>1 DEF Inv
<1>4. /\ todo = <<>> /\ bucket' = NoBucket /\ view' = {}
      /\ nodes' = Clean(Unmark(nodes, bucket.path))
      /\ UNCHANGED <<disk, changes, todo, quiet, failed>>
  BY DEF Leave
<1> DEFINE ns == Unmark(nodes, bucket.path)
<1>5. /\ Alike(nodes, ns)
      /\ \A q \in N : /\ ns[at[q]].entry = nodes[at[q]].entry
                      /\ ns[at[q]].monitored <=> nodes[at[q]].monitored /\ q # bucket.path
  BY <1>2, <1>3, UnmarkIs
<1> HIDE DEF ns
<1>6. TreeOf(ns, N, at)
  BY <1>3, <1>5, SameShape
<1>7. \A q \in N : ~ns[at[q]].monitored
  BY <1>3, <1>5 DEF MarksAre
<1>8. nodes' = Clean(ns)
  BY <1>4 DEF ns
<1>9. ns[Root].entry.dir /\ ~ns[Root].monitored
  <2>1. <<>> \in N /\ at[<<>>] = Root
    BY <1>3, TreeFacts
  <2>2. ~IsStrictPrefix(bucket.path, <<>>)
    BY <1>2 DEF IsStrictPrefix, IsPrefix
  <2>3. nodes[at[<<>>]].entry.dir
    BY <1>3, <2>1, <2>2 DEF MarksAre
  <2>4. QED
    BY <1>5, <1>7, <2>1, <2>3
<1>10. /\ nodes' \in [Id -> Node \cup {Free}]
       /\ nodes'[Root] \in Node /\ nodes'[Root].children = <<>>
       /\ nodes'[Root].entry = ns[Root].entry /\ nodes'[Root].monitored = ns[Root].monitored
       /\ \A i \in Id : nodes'[i] # Free /\ i # Root =>
              ~nodes'[i].entry.dir /\ nodes'[i].children = <<>>
  BY <1>6, <1>7, <1>8, CleanIs
<1>11. TreeOf(nodes', {<<>>}, [p \in {<<>>} |-> Root])
  BY <1>10, RootAlone
<1>12. ~Listens(bucket')
  BY <1>4 DEF Listens, NoBucket
<1>13. MarksAre(nodes', {<<>>}, [p \in {<<>>} |-> Root], bucket')
  BY <1>9, <1>10, <1>12, RootMarks
<1>14. CallsAre(nodes', {<<>>}, [p \in {<<>>} |-> Root], bucket', todo')
  BY <1>4 DEF CallsAre
<1>15. Typed' /\ (todo \in Seq(CallSet))'
  BY <1>2, <1>4 DEF Typed, NoBucket
<1>16. QED
  <2> DEFINE M == {<<>>}
             at2 == [p \in {<<>>} |-> Root]
  <2>1. TreeOf(nodes', M, at2) /\ MarksAre(nodes', M, at2, bucket')
        /\ CallsAre(nodes', M, at2, bucket', todo')
    BY <1>11, <1>13, <1>14
  <2> HIDE DEF M, at2
  <2>2. QED
    BY <1>2, <1>4, <1>12, <1>15, <2>1, InvAfter

-----------------------------------------------------------------------------
(* Registrations.                                                          *)

\* The states of a registration's scan.
Accs == [ns : [Id -> Node \cup {Free}], todo : Seq(Places), ok : BOOLEAN]

\* What begins a path there may be is one.
LEMMA PrefixIsPlace ==
  ASSUME NEW q \in Places, NEW p \in Seq(Names), IsPrefix(p, q)
  PROVE  p \in Places
<1> DEFINE S == {r \in Places : IsPrefix(p, r)}
           U == {r \in Places : p \in Places}
<1>1. S \subseteq Seq(Names)
  BY PlaceFacts
<1>2. ASSUME NEW r \in S, \A s \in S : Len(s) < Len(r) => s \in U PROVE r \in U
  <2>1. CASE r = p
    BY <2>1
  <2>2. CASE r # p
    <3>1. r # <<>>
      BY <1>1, <2>2 DEF IsPrefix
    <3>2. Front(r) \in Places /\ Len(Front(r)) = Len(r) - 1 /\ Len(r) \in Nat
      BY <3>1, PlaceFacts DEF Places
    <3>3. IsPrefix(p, Front(r))
      BY <1>1, <2>2, <3>1, PrefixOfChild
    <3>4. Front(r) \in U
      BY <1>2, <3>2, <3>3
    <3>5. QED
      BY <3>4
  <2>3. QED
    BY <2>1, <2>2
<1> HIDE DEF U
<1>3. S \subseteq U
  BY <1>1, <1>2, PathInduction
<1>4. QED
  BY <1>3 DEF U

\* On the way to p: the tree has the first n directories of the way.
IsBuilt(p, b, acc, n, N, at) ==
  /\ TreeOf(acc.ns, N, at) /\ MarksAre(acc.ns, N, at, b) /\ SubSeq(p, 1, n) \in N

OnTheWay(p, b, acc, n) ==
  acc \in Accs /\ acc.todo = <<p>> /\ (acc.ok => \E N, at : IsBuilt(p, b, acc, n, N, at))

LEMMA AccFacts ==
  ASSUME NEW acc \in Accs
  PROVE  /\ acc.ns \in [Id -> Node \cup {Free}] /\ acc.todo \in Seq(Places)
         /\ acc.ok \in BOOLEAN
         /\ [acc EXCEPT !.ok = FALSE] \in Accs
         /\ [acc EXCEPT !.ok = FALSE].todo = acc.todo
         /\ ~[acc EXCEPT !.ok = FALSE].ok
         /\ \A ns \in [Id -> Node \cup {Free}] :
              /\ [acc EXCEPT !.ns = ns] \in Accs /\ [acc EXCEPT !.ns = ns].ns = ns
              /\ [acc EXCEPT !.ns = ns].todo = acc.todo /\ [acc EXCEPT !.ns = ns].ok = acc.ok
BY DEF Accs

LEMMA AddNodeStep ==
  ASSUME TypeOK, DiskIsClosed, NEW p \in Paths, Readable(p),
         NEW b, b.path \in Seq(Names), b.path # <<>> => IsPrefix(p, b.path),
         NEW n \in 1..Len(p), NEW acc, OnTheWay(p, b, acc, n - 1)
  PROVE  OnTheWay(p, b, AddNode(acc, SubSeq(p, 1, n)), n)
<1> DEFINE d == SubSeq(p, 1, n)
           f == SubSeq(p, 1, n - 1)
<1>0. p \in Seq(Names) /\ p \in Places
  BY PlaceFacts DEF Places
<1>1. /\ d \in Seq(Names) /\ d # <<>> /\ Front(d) = f /\ Last(d) = p[n] /\ p[n] \in Names
      /\ IsPrefix(d, p) /\ Len(d) = n
  BY <1>0, WayFacts
<1> HIDE DEF d, f
<1>2. d \in Paths /\ Append(f, Last(d)) = d /\ f \in Places /\ Len(f) = n - 1 /\ f \in Seq(Names)
  <2>1. d \in Paths
    BY <1>0, <1>1, PrefixIsPlace DEF Places
  <2>2. f \in Places
    BY <1>1, <2>1, PlaceFacts
  <2>3. QED
    BY <1>1, <2>1, <2>2, PlaceFacts
<1>3. acc \in Accs /\ acc.todo = <<p>>
  BY DEF OnTheWay
<1>4. CASE ~acc.ok
  <2>1. AddNode(acc, d) = acc
    BY <1>4 DEF AddNode
  <2>2. QED
    BY <1>3, <1>4, <2>1 DEF OnTheWay, d
<1>5. CASE acc.ok
  <2>1. PICK N, at : IsBuilt(p, b, acc, n - 1, N, at)
    BY <1>5 DEF OnTheWay
  <2> DEFINE ns == acc.ns
  <2>2. TreeOf(ns, N, at) /\ MarksAre(ns, N, at, b) /\ f \in N
    BY <2>1 DEF IsBuilt, f
  <2> HIDE DEF ns
  <2>3. NodeAt(ns, d) = (IF d \in N THEN at[d] ELSE 0) /\ NodeAt(ns, f) = at[f]
        /\ \A q \in N : at[q] # 0
    <3>1. \A q \in N : at[q] # 0
      BY <2>2, TreeFacts, IdFacts
    <3>2. NodeAt(ns, d) = IF d \in N THEN at[d] ELSE 0
      BY <1>1, <2>2, NodeAtIs
    <3>3. NodeAt(ns, f) = IF f \in N THEN at[f] ELSE 0
      BY <1>2, <2>2, NodeAtIs
    <3>4. QED
      BY <2>2, <3>1, <3>2, <3>3
  <2>4. CASE d \in N
    <3>1. AddNode(acc, d) = acc
      BY <2>3, <2>4 DEF AddNode, ns
    <3>2. IsBuilt(p, b, acc, n, N, at)
      BY <2>2, <2>4 DEF IsBuilt, d, ns
    <3>3. QED
      BY <1>3, <3>1, <3>2 DEF OnTheWay, d
  <2>5. CASE d \notin N /\ ~HasRoom(ns, 1)
    <3>1. AddNode(acc, d) = [acc EXCEPT !.ok = FALSE]
      BY <1>5, <2>3, <2>5 DEF AddNode, ns
    <3>2. QED
      BY <1>3, <3>1, AccFacts DEF OnTheWay, d
  <2>6. CASE d \notin N /\ HasRoom(ns, 1)
    <3> DEFINE names == <<Last(d)>>
               ns2 == AddChildren(ns, at[f], f, names)
    <3>1. AddNode(acc, d) = [acc EXCEPT !.ns = ns2]
      BY <1>1, <1>5, <2>3, <2>6 DEF AddNode, ns
    <3>2. names \in Seq(Names) /\ IsInjective(names) /\ Len(names) = 1 /\ DOMAIN names = {1}
          /\ names[1] = Last(d)
      BY <1>1 DEF IsInjective
    <3> HIDE DEF names, ns2
    <3>3. EntryAt(d).dir /\ EntryAt(d) \in Entry
      <4>1. EntryAt(p).dir
        BY DEF Readable, IsDirectory
      <4>2. EntryAt(d).dir
        BY <1>0, <1>1, <4>1, DirsAbove
      <4>3. EntryAt(d) = disk[d] /\ disk[d] \in Entry \cup {NoEntry}
        BY <1>1, <1>2 DEF EntryAt, TypeOK
      <4>4. QED
        BY <4>2, <4>3 DEF NoEntry
    <3>4. ns[at[f]].entry.dir
      <4>1. ~(Listens(b) /\ IsStrictPrefix(b.path, f))
        <5>1. SUFFICES ASSUME b.path # <<>>, IsPrefix(b.path, f) PROVE FALSE
          BY DEF Listens, IsStrictPrefix
        <5>2. IsPrefix(p, b.path)
          BY <5>1
        <5>3. Len(p) <= Len(b.path) /\ Len(b.path) <= Len(f)
          BY <5>1, <5>2 DEF IsPrefix
        <5>4. Len(p) \in Nat /\ Len(b.path) \in Nat /\ Len(f) = n - 1
          BY <1>0, <1>2
        <5>5. QED
          BY <5>3, <5>4
      <4>2. QED
        BY <2>2, <4>1 DEF MarksAre
    <3>5. MayCome(ns, N, at, f, names, {})
      <4>1. \A k \in DOMAIN names : Append(f, names[k]) = d
        BY <1>2, <3>2
      <4>2. QED
        BY <1>2, <2>2, <2>6, <3>2, <3>3, <3>4, <4>1 DEF MayCome
    <3>6. PICK N2, at2 : IsChanged(ns, N, at, {}, Named(f, names), ns2, N2, at2)
      BY <2>2, <2>6, <3>2, <3>5, AddOnly DEF ns2
    <3>7. \A q : q \in Named(f, names) <=> q = d
      BY <1>2, <3>2 DEF Named
    <3>8. Under(N, {}) = {}
      BY DEF Under
    <3>9. TreeOf(ns2, N2, at2) /\ d \in N2
      BY <3>6, <3>7 DEF IsChanged
    <3>10. MarksAre(ns2, N2, at2, b)
      <4>1. MayBeNew(b, Named(f, names)) /\ (Listens(b) => b.path \notin Named(f, names))
        BY <2>2, <2>6, <3>3, <3>7 DEF MayBeNew, MarksAre
      <4>2. {} \subseteq N /\ b.path \notin Under(N, {})
        BY <3>8
      <4>3. QED
        BY <2>2, <3>6, <4>1, <4>2, MarksKept
    <3>11. ns2 \in [Id -> Node \cup {Free}]
      BY <3>9 DEF TreeOf
    <3> DEFINE acc2 == [acc EXCEPT !.ns = ns2]
    <3>12. acc2 \in Accs /\ acc2.ns = ns2 /\ acc2.todo = <<p>>
      BY <1>3, <3>11, AccFacts
    <3> HIDE DEF acc2
    <3>13. IsBuilt(p, b, acc2, n, N2, at2)
      BY <3>9, <3>10, <3>12 DEF IsBuilt, d
    <3>14. OnTheWay(p, b, acc2, n)
      BY <3>12, <3>13 DEF OnTheWay
    <3>15. QED
      BY <3>1, <3>14 DEF acc2, d
  <2>7. QED
    BY <2>4, <2>5, <2>6
<1>6. QED
  BY <1>3, <1>4, <1>5, AccFacts

\* During __support_first_scan for p: the tree has p, which is marked now, and files
\* below it only; the directories to be entered are at or below p.
IsScanned(p, b, acc, N, at) ==
  /\ TreeOf(acc.ns, N, at) /\ p \in N /\ acc.ns[at[p]].entry.dir
  /\ Listens(b) => b.path \in N
  /\ \A q \in N : acc.ns[at[q]].monitored <=> q = p \/ (Listens(b) /\ q = b.path)
  /\ \A q \in N : acc.ns[at[q]].entry.dir \/ IsStrictPrefix(p, q)
  /\ \A k \in DOMAIN acc.todo : /\ acc.todo[k] \in N /\ acc.ns[at[acc.todo[k]]].entry.dir
                                /\ IsPrefix(p, acc.todo[k])

InScan(p, b, acc) ==
  /\ acc \in Accs
  /\ IF acc.ok THEN \E N, at : IsScanned(p, b, acc, N, at) ELSE acc.todo = <<>>

LEMMA TodoFacts ==
  ASSUME NEW acc \in Accs, NEW l \in Seq(Places)
  PROVE  /\ [acc EXCEPT !.todo = l] \in Accs /\ [acc EXCEPT !.todo = l].todo = l
         /\ [acc EXCEPT !.todo = l].ns = acc.ns /\ [acc EXCEPT !.todo = l].ok = acc.ok
BY DEF Accs

LEMMA NoRoomFacts ==
  ASSUME NEW acc \in Accs
  PROVE  /\ [acc EXCEPT !.ok = FALSE, !.todo = <<>>] \in Accs
         /\ [acc EXCEPT !.ok = FALSE, !.todo = <<>>].todo = <<>>
         /\ ~[acc EXCEPT !.ok = FALSE, !.todo = <<>>].ok
<1>1. <<>> \in Seq(Places)
  OBVIOUS
<1>2. QED
  BY <1>1 DEF Accs

\* The directories __support_first_scan enters next, before those that wait.
EnterNext(ns, i, d, gone) ==
  LET enter == Without(ChildDirectories(ns, i), gone)
  IN  [k \in DOMAIN enter |-> Append(d, ns[enter[k]].name)]

MayEnter(ns, N, at, d, first) ==
  /\ first \in Seq(Places)
  /\ \A k \in DOMAIN first : /\ first[k] \in N /\ ns[at[first[k]]].entry.dir
                             /\ IsPrefix(d, first[k])

LEMMA EnteredNext ==
  ASSUME NEW ns, NEW N, NEW at, TreeOf(ns, N, at), NEW d \in N, NEW gone
  PROVE  MayEnter(ns, N, at, d, EnterNext(ns, at[d], d, gone))
<1> DEFINE dirs == ChildDirectories(ns, at[d])
           enter == Without(dirs, gone)
           first == EnterNext(ns, at[d], d, gone)
<1>0. first = [k \in DOMAIN enter |-> Append(d, ns[enter[k]].name)]
  BY DEF EnterNext
<1>1. /\ dirs \in Seq(Id) /\ IsInjective(dirs)
      /\ \A i : i \in Range(dirs) <=> IsChildDirectory(ns, N, at, d, i)
  BY ChildDirectoriesAre
<1> HIDE DEF dirs, enter, first
<1>2. Without(dirs, gone) \in Seq(Id) /\ Range(Without(dirs, gone)) = Range(dirs) \ gone
  BY <1>1, WithoutFacts
<1>3. enter \in Seq(Id) /\ Range(enter) = Range(dirs) \ gone
  BY <1>2 DEF enter
<1>4. /\ DOMAIN enter = 1..Len(enter) /\ Len(enter) \in Nat
      /\ \A k \in DOMAIN enter : enter[k] \in Range(enter)
  BY <1>3 DEF Range
<1>5. DOMAIN first = DOMAIN enter
      /\ \A k \in DOMAIN enter : first[k] = Append(d, ns[enter[k]].name)
  BY <1>0
<1>6. ASSUME NEW k \in DOMAIN first
      PROVE  /\ first[k] \in N /\ ns[at[first[k]]].entry.dir /\ IsPrefix(d, first[k])
             /\ first[k] \in Places
  <2>1. IsChildDirectory(ns, N, at, d, enter[k])
    BY <1>1, <1>3, <1>4, <1>5
  <2>2. PICK q \in N \ {<<>>} : enter[k] = at[q] /\ Front(q) = d /\ ns[enter[k]].entry.dir
    BY <2>1 DEF IsChildDirectory
  <2>3. Append(Front(q), Last(q)) = q /\ ns[at[q]].name = Last(q)
    BY <2>2, ChildFacts
  <2>4. first[k] = q
    BY <1>5, <2>2, <2>3
  <2>5. q \in Seq(Names) /\ q \in Places
    BY <2>2, NodeFacts
  <2>6. IsPrefix(d, q)
    BY <2>2, <2>5, FrontIsPrefix
  <2>7. QED
    BY <2>2, <2>4, <2>5, <2>6
<1>7. first \in Seq(Places)
  <2>1. first = [k \in 1..Len(enter) |-> first[k]]
    BY <1>0, <1>4
  <2>2. \A k \in 1..Len(enter) : first[k] \in Places
    BY <1>4, <1>5, <1>6
  <2>3. QED
    BY <1>4, <2>1, <2>2
<1>8. QED
  BY <1>6, <1>7 DEF MayEnter, first

LEMMA SupportScanStep ==
  ASSUME TypeOK, NEW p \in Paths, NEW b, NEW acc, InScan(p, b, acc)
  PROVE  InScan(p, b, SupportScan(acc))
<1>1. acc \in Accs
  BY DEF InScan
<1>2. CASE acc.todo = <<>>
  <2>1. SupportScan(acc) = acc
    BY <1>2 DEF SupportScan
  <2>2. QED
    BY <2>1
<1>3. CASE acc.todo # <<>>
  <2>1. acc.ok
    BY <1>3 DEF InScan
  <2>2. PICK N, at : IsScanned(p, b, acc, N, at)
    BY <2>1 DEF InScan
  <2> DEFINE ns == acc.ns
             d == Head(acc.todo)
             rest == Tail(acc.todo)
  <2>3. /\ TreeOf(ns, N, at) /\ p \in N /\ ns[at[p]].entry.dir
        /\ Listens(b) => b.path \in N
        /\ \A q \in N : ns[at[q]].monitored <=> q = p \/ (Listens(b) /\ q = b.path)
        /\ \A q \in N : ns[at[q]].entry.dir \/ IsStrictPrefix(p, q)
        /\ \A k \in DOMAIN acc.todo : /\ acc.todo[k] \in N /\ ns[at[acc.todo[k]]].entry.dir
                                      /\ IsPrefix(p, acc.todo[k])
    BY <2>2 DEF IsScanned
  <2>4. /\ d = acc.todo[1] /\ 1 \in DOMAIN acc.todo
        /\ rest \in Seq(Places)
        /\ \A k \in DOMAIN rest : k + 1 \in DOMAIN acc.todo /\ rest[k] = acc.todo[k + 1]
    <3>1. acc.todo \in Seq(Places)
      BY <1>1, AccFacts
    <3>2. QED
      BY <1>3, <3>1
  <2> HIDE DEF ns, d, rest
  <2>5. /\ d \in N /\ ns[at[d]].entry.dir /\ IsPrefix(p, d)
        /\ \A k \in DOMAIN rest : /\ rest[k] \in N /\ ns[at[rest[k]]].entry.dir
                                  /\ IsPrefix(p, rest[k])
    BY <2>3, <2>4
  <2>6. p \in Seq(Names) /\ d \in Seq(Names) /\ N \subseteq Seq(Names) /\ at[d] # 0
    BY <2>3, <2>5, TreeFacts, IdFacts
  <2>7. NodeAt(ns, d) = at[d]
    BY <2>3, <2>5, <2>6, NodeAtIs
  <2> DEFINE known == {n \in Range(Order) : ChildNamed(ns, at[d], n) # 0}
             names == Without(Listing(d), known)
             ns2 == AddChildren(ns, at[d], d, names)
             gone == {i \in Allocated(ns2) : ns2[i].monitored}
             first == EnterNext(ns2, at[d], d, gone)
  <2>8. SupportScan(acc) =
          IF ~Readable(d) THEN [acc EXCEPT !.todo = rest]
          ELSE IF ~HasRoom(ns, Len(names)) THEN [acc EXCEPT !.ok = FALSE, !.todo = <<>>]
          ELSE [acc EXCEPT !.ns = ns2, !.todo = first \o rest]
    <3>1. NodeAt(acc.ns, Head(acc.todo)) = at[d]
      BY <2>7 DEF ns, d
    <3>2. QED
      BY <1>3, <3>1 DEF SupportScan, EnterNext, ns, d, rest
  <2> HIDE DEF known, names, ns2, gone, first
  <2>9. CASE ~Readable(d)
    <3> DEFINE acc2 == [acc EXCEPT !.todo = rest]
    <3>1. SupportScan(acc) = acc2
      BY <2>8, <2>9
    <3>2. acc2 \in Accs /\ acc2.todo = rest /\ acc2.ns = ns /\ acc2.ok = acc.ok
      BY <1>1, <2>4, TodoFacts DEF ns
    <3> HIDE DEF acc2
    <3>3. IsScanned(p, b, acc2, N, at)
      BY <2>3, <2>5, <3>2 DEF IsScanned
    <3>4. QED
      BY <2>1, <3>1, <3>2, <3>3 DEF InScan
  <2>10. CASE Readable(d) /\ ~HasRoom(ns, Len(names))
    <3>1. SupportScan(acc) = [acc EXCEPT !.ok = FALSE, !.todo = <<>>]
      BY <2>8, <2>10
    <3>2. QED
      BY <1>1, <3>1, NoRoomFacts DEF InScan
  <2>11. CASE Readable(d) /\ HasRoom(ns, Len(names))
    <3>1. /\ names \in Seq(Names) /\ IsInjective(names)
          /\ \A n \in Range(names) : n \in Range(Listing(d)) /\ n \notin known
      <4>1. Listing(d) \in Seq(Names) /\ IsInjective(Listing(d))
        BY <2>6, ListingIs
      <4>2. /\ Without(Listing(d), known) \in Seq(Names)
            /\ IsInjective(Without(Listing(d), known))
            /\ Range(Without(Listing(d), known)) = Range(Listing(d)) \ known
        BY <4>1, WithoutFacts
      <4>3. QED
        BY <4>2 DEF names
    <3>2. ASSUME NEW n \in Range(names)
          PROVE  /\ Append(d, n) \in Paths /\ EntryAt(Append(d, n)) \in Entry
                 /\ Append(d, n) \notin N /\ n \in Names
      <4>1. n \in Names /\ Append(d, n) \in Paths /\ disk[Append(d, n)] # NoEntry
        BY <2>6, <3>1, ListingIs
      <4>2. ChildNamed(ns, at[d], n) = 0
        BY <3>1, <4>1 DEF known, Names
      <4>3. ChildNamed(ns, at[d], n) = IF Append(d, n) \in N THEN at[Append(d, n)] ELSE 0
        BY <2>3, <2>5, <4>1, ChildNamedIs
      <4>4. \A q \in N : at[q] # 0
        BY <2>3, TreeFacts, IdFacts
      <4>5. EntryAt(Append(d, n)) = disk[Append(d, n)]
        <5>1. Append(d, n) # <<>>
          BY <2>6, <4>1, ChildPath
        <5>2. QED
          BY <5>1 DEF EntryAt
      <4>6. QED
        BY <4>1, <4>2, <4>3, <4>4, <4>5 DEF TypeOK
    <3>3. \A k \in DOMAIN names : names[k] \in Range(names)
      BY DEF Range
    <3>4. MayCome(ns, N, at, d, names, {})
      BY <2>5, <3>1, <3>2, <3>3 DEF MayCome
    <3>5. PICK N2, at2 : IsChanged(ns, N, at, {}, Named(d, names), ns2, N2, at2)
      BY <2>3, <2>11, <3>4, AddOnly DEF ns2
    <3> DEFINE Q == Named(d, names)
    <3>6. ASSUME NEW q \in Q PROVE q \notin N /\ IsStrictPrefix(p, q)
      <4>1. PICK k \in DOMAIN names : q = Append(d, names[k])
        BY DEF Named
      <4>2. names[k] \in Names /\ q \notin N /\ names[k] \in Range(names)
        BY <3>2, <3>3, <4>1
      <4>3. IsPrefix(d, q) /\ q \in Seq(Names)
        BY <2>6, <4>1, <4>2, ChildPath
      <4>4. IsPrefix(p, q)
        BY <2>5, <2>6, <4>3, PrefixTransitive
      <4>5. QED
        BY <2>3, <4>2, <4>4 DEF IsStrictPrefix
    <3> HIDE DEF Q
    <3>7. Under(N, {}) = {}
      BY DEF Under
    <3>8. /\ TreeOf(ns2, N2, at2) /\ N2 = N \cup Q
          /\ \A q \in N : /\ at2[q] = at[q] /\ ns2[at[q]].entry = ns[at[q]].entry
                          /\ ns2[at[q]].monitored = ns[at[q]].monitored
          /\ \A q \in Q : ~ns2[at2[q]].monitored
      BY <3>5, <3>7 DEF IsChanged, Q
    <3>9. /\ first \in Seq(Places)
          /\ \A k \in DOMAIN first : /\ first[k] \in N2 /\ ns2[at2[first[k]]].entry.dir
                                     /\ IsPrefix(d, first[k])
      <4>1. d \in N2 /\ at2[d] = at[d]
        BY <2>5, <3>8
      <4>2. MayEnter(ns2, N2, at2, d, EnterNext(ns2, at2[d], d, gone))
        BY <3>8, <4>1, EnteredNext
      <4>3. QED
        BY <4>1, <4>2 DEF first, MayEnter
    <3>10. \A k \in DOMAIN first : IsPrefix(p, first[k])
      <4>1. SUFFICES ASSUME NEW k \in DOMAIN first PROVE IsPrefix(p, first[k])
        OBVIOUS
      <4>2. first[k] \in Seq(Names) /\ IsPrefix(d, first[k])
        BY <3>8, <3>9, TreeFacts
      <4>3. QED
        BY <2>5, <2>6, <4>2, PrefixTransitive
    <3> DEFINE l == first \o rest
    <3>11. /\ l \in Seq(Places)
           /\ \A k \in DOMAIN l : \/ \E j \in DOMAIN first : l[k] = first[j]
                                  \/ \E j \in DOMAIN rest : l[k] = rest[j]
      <4>1. /\ l \in Seq(Places) /\ DOMAIN l = 1..(Len(first) + Len(rest))
            /\ Len(first) \in Nat /\ Len(rest) \in Nat /\ DOMAIN rest = 1..Len(rest)
            /\ \A n \in 1..Len(first) : l[n] = first[n]
            /\ \A n \in (Len(first) + 1)..(Len(first) + Len(rest)) : l[n] = rest[n - Len(first)]
        BY <2>4, <3>9, ConcatIs
      <4>2. DOMAIN first = 1..Len(first)
        BY <3>9
      <4> HIDE DEF l
      <4>3. ASSUME NEW k \in DOMAIN l
            PROVE  \/ \E j \in DOMAIN first : l[k] = first[j]
                   \/ \E j \in DOMAIN rest : l[k] = rest[j]
        <5>1. CASE k \in 1..Len(first)
          BY <4>1, <4>2, <5>1
        <5>2. CASE k \notin 1..Len(first)
          <6>1. k \in (Len(first) + 1)..(Len(first) + Len(rest)) /\ k - Len(first) \in 1..Len(rest)
            BY <4>1, <5>2
          <6>2. QED
            BY <4>1, <6>1
        <5>3. QED
          BY <5>1, <5>2
      <4>4. QED
        BY <4>1, <4>3
    <3> HIDE DEF l
    <3> DEFINE acc2 == [acc EXCEPT !.ns = ns2, !.todo = l]
    <3>12. SupportScan(acc) = acc2
      BY <2>8, <2>11 DEF l
    <3>13. acc2 \in Accs /\ acc2.ns = ns2 /\ acc2.todo = l /\ acc2.ok = acc.ok
      <4>1. ns2 \in [Id -> Node \cup {Free}]
        BY <3>8 DEF TreeOf
      <4>2. l \in Seq(Places)
        BY <3>11
      <4>3. /\ [acc EXCEPT !.ns = ns2, !.todo = l] \in Accs
            /\ [acc EXCEPT !.ns = ns2, !.todo = l].ns = ns2
            /\ [acc EXCEPT !.ns = ns2, !.todo = l].todo = l
            /\ [acc EXCEPT !.ns = ns2, !.todo = l].ok = acc.ok
        BY <1>1, <4>1, <4>2 DEF Accs
      <4>4. QED
        BY <4>3
    <3> HIDE DEF acc2
    <3>14. \A k \in DOMAIN l : l[k] \in N2 /\ ns2[at2[l[k]]].entry.dir /\ IsPrefix(p, l[k])
      <4>1. \A j \in DOMAIN rest :
              rest[j] \in N2 /\ ns2[at2[rest[j]]].entry.dir /\ IsPrefix(p, rest[j])
        BY <2>5, <3>8
      <4>2. QED
        BY <3>9, <3>10, <3>11, <4>1
    <3>15. \A q \in N2 : ns2[at2[q]].monitored <=> q = p \/ (Listens(b) /\ q = b.path)
      <4>2. \A q \in Q : q # p /\ q \notin N
        BY <2>3, <3>6
      <4>3. Listens(b) => b.path \notin Q
        BY <2>3, <3>6
      <4>4. QED
        BY <2>3, <3>8, <4>2, <4>3
    <3>16. \A q \in N2 : ns2[at2[q]].entry.dir \/ IsStrictPrefix(p, q)
      BY <2>3, <3>6, <3>8
    <3>17. p \in N2 /\ ns2[at2[p]].entry.dir
      BY <2>3, <3>8
    <3>20. Listens(b) => b.path \in N2
      BY <2>3, <3>8
    <3>18. IsScanned(p, b, acc2, N2, at2)
      BY <3>8, <3>13, <3>14, <3>15, <3>16, <3>17, <3>20 DEF IsScanned
    <3>19. QED
      BY <2>1, <3>12, <3>13, <3>18 DEF InScan
  <2>12. QED
    BY <2>9, <2>10, <2>11
<1>4. QED
  BY <1>2, <1>3

\* The two recursions of __first_scan.
WayRec(p, way) ==
  way = [n \in 0..Len(p) |->
           IF n = 0 THEN [ns |-> nodes, todo |-> <<p>>, ok |-> TRUE]
           ELSE AddNode(way[n - 1], SubSeq(p, 1, n))]

ScanRec(marked, scan) ==
  scan = [k \in 0..MaxNodes |-> IF k = 0 THEN marked ELSE SupportScan(scan[k - 1])]

Built(p) == (CHOOSE way : WayRec(p, way))[Len(p)]
Scanned(marked) == (CHOOSE scan : ScanRec(marked, scan))[MaxNodes]

LEMMA BuiltIs ==
  ASSUME TypeOK, DiskIsClosed, NEW N, NEW at, TreeOf(nodes, N, at),
         NEW b, MarksAre(nodes, N, at, b), b.path \in Seq(Names),
         NEW p \in Paths, Readable(p), b.path # <<>> => IsPrefix(p, b.path)
  PROVE  OnTheWay(p, b, Built(p), Len(p))
<1> DEFINE s0 == [ns |-> nodes, todo |-> <<p>>, ok |-> TRUE]
           L == Len(p)
           F == [x \in (1..L) \X Accs |-> AddNode(x[2], SubSeq(p, 1, x[1]))]
           G == {x \in (0..L) \X Accs : OnTheWay(p, b, x[2], x[1])}
<1>1. p \in Seq(Names) /\ L \in Nat /\ SubSeq(p, 1, 0) = <<>> /\ p \in Places
  BY PlaceFacts DEF Places
<1>2. OnTheWay(p, b, s0, 0)
  <2>1. nodes \in [Id -> Node \cup {Free}] /\ <<>> \in N
    BY DEF TreeOf
  <2>2. <<p>> \in Seq(Places)
    BY <1>1
  <2>3. s0 \in Accs /\ s0.todo = <<p>> /\ s0.ns = nodes
    BY <2>1, <2>2 DEF Accs
  <2> HIDE DEF s0
  <2>4. IsBuilt(p, b, s0, 0, N, at)
    BY <1>1, <2>1, <2>3 DEF IsBuilt
  <2>5. QED
    BY <2>3, <2>4 DEF OnTheWay
<1> HIDE DEF s0
<1>3. ASSUME NEW n \in 1..L, NEW s, OnTheWay(p, b, s, n - 1)
      PROVE  OnTheWay(p, b, AddNode(s, SubSeq(p, 1, n)), n) /\ s \in Accs
  BY <1>3, AddNodeStep DEF OnTheWay
<1> HIDE DEF L
<1>4. \A n \in 1..L : n \in 0..L /\ n - 1 \in 0..L /\ n # 0
  BY <1>1
<1>5. \E way : WayRec(p, way)
  <2>1. PICK g : IsRecursive(g, L, s0, F)
    BY <1>1, Recursion
  <2>2. <<0, s0>> \in G
    BY <1>1, <1>2 DEF OnTheWay
  <2>3. ASSUME NEW n \in 1..L, NEW s, <<n - 1, s>> \in G
        PROVE  <<n, F[<<n, s>>]>> \in G
    <3>1. OnTheWay(p, b, s, n - 1) /\ s \in Accs
      BY <2>3
    <3>2. F[<<n, s>>] = AddNode(s, SubSeq(p, 1, n))
      BY <3>1
    <3>3. OnTheWay(p, b, AddNode(s, SubSeq(p, 1, n)), n)
      BY <1>3, <3>1
    <3>4. AddNode(s, SubSeq(p, 1, n)) \in Accs
      BY <3>3 DEF OnTheWay
    <3> HIDE DEF F
    <3>5. QED
      BY <1>4, <3>2, <3>3, <3>4
  <2>4. \A n \in 1..L : \A s \in Accs : F[<<n, s>>] = AddNode(s, SubSeq(p, 1, n))
    OBVIOUS
  <2>5. \A n \in 0..L : \A s : <<n, s>> \in G => s \in Accs
    OBVIOUS
  <2> HIDE DEF F, G
  <2>6. \A n \in 0..L : <<n, g[n]>> \in G
    BY <1>1, <2>1, <2>2, <2>3, RecursionKeeps
  <2> DEFINE h == [n \in 0..L |-> IF n = 0 THEN s0 ELSE AddNode(g[n - 1], SubSeq(p, 1, n))]
             h1 == [n \in 0..L |-> IF n = 0 THEN s0 ELSE F[<<n, g[n - 1]>>]]
  <2>7. g = h1
    BY <2>1 DEF IsRecursive
  <2>8. ASSUME NEW n \in 0..L PROVE h1[n] = h[n]
    <3>1. CASE n = 0
      BY <3>1
    <3>2. CASE n # 0
      <4>1. n \in 1..L /\ n - 1 \in 0..L
        BY <1>1, <3>2
      <4>2. g[n - 1] \in Accs
        BY <2>5, <2>6, <4>1
      <4>3. F[<<n, g[n - 1]>>] = AddNode(g[n - 1], SubSeq(p, 1, n))
        BY <2>4, <4>1, <4>2
      <4>4. h1[n] = F[<<n, g[n - 1]>>] /\ h[n] = AddNode(g[n - 1], SubSeq(p, 1, n))
        BY <3>2
      <4>5. QED
        BY <4>3, <4>4
    <3>3. QED
      BY <3>1, <3>2
  <2>9. h1 = h
    BY <2>8
  <2>10. g = h
    BY <2>7, <2>9
  <2>11. WayRec(p, g)
    BY <2>10 DEF WayRec, s0, L
  <2>12. QED
    BY <2>11
<1> DEFINE way == CHOOSE way : WayRec(p, way)
<1>6. WayRec(p, way)
  BY <1>5
<1> HIDE DEF way
<1>7. way[0] = s0 /\ \A n \in 1..L : way[n] = AddNode(way[n - 1], SubSeq(p, 1, n))
  <2>1. way = [n \in 0..L |-> IF n = 0 THEN s0 ELSE AddNode(way[n - 1], SubSeq(p, 1, n))]
    BY <1>6 DEF WayRec, s0, L
  <2>2. \A n \in 0..L : way[n] = IF n = 0 THEN s0 ELSE AddNode(way[n - 1], SubSeq(p, 1, n))
    BY <2>1
  <2>3. 0 \in 0..L
    BY <1>1
  <2>4. QED
    BY <1>4, <2>2, <2>3
<1> DEFINE U == {n \in 0..L : OnTheWay(p, b, way[n], n)}
<1>8. 0 \in U
  BY <1>1, <1>2, <1>7
<1>9. ASSUME NEW n \in 1..L, n - 1 \in U PROVE n \in U
  <2>1. OnTheWay(p, b, way[n - 1], n - 1)
    BY <1>9
  <2>2. OnTheWay(p, b, AddNode(way[n - 1], SubSeq(p, 1, n)), n)
    BY <1>3, <2>1
  <2>3. OnTheWay(p, b, way[n], n)
    BY <1>7, <2>2
  <2>4. QED
    BY <1>4, <2>3
<1> HIDE DEF U
<1>10. 0..L \subseteq U
  BY <1>1, <1>8, <1>9, UpToInduction
<1>11. OnTheWay(p, b, way[L], L)
  BY <1>1, <1>10 DEF U
<1>12. QED
  BY <1>11 DEF Built, way, L

LEMMA ScannedIs ==
  ASSUME TypeOK, NEW p \in Paths, NEW b, NEW m, InScan(p, b, m)
  PROVE  InScan(p, b, Scanned(m))
<1> DEFINE L == MaxNodes
           F == [x \in (1..L) \X Accs |-> SupportScan(x[2])]
           G == {x \in (0..L) \X Accs : InScan(p, b, x[2])}
<1>1. L \in Nat
  BY IdFacts
<1>2. ASSUME NEW s, InScan(p, b, s) PROVE InScan(p, b, SupportScan(s))
  BY <1>2, SupportScanStep
<1>3. ASSUME NEW s, InScan(p, b, s) PROVE s \in Accs
  BY <1>3 DEF InScan
<1> HIDE DEF L
<1>4. \A n \in 1..L : n \in 0..L /\ n - 1 \in 0..L /\ n # 0
  BY <1>1
<1>5. \E scan : ScanRec(m, scan)
  <2>1. PICK g : IsRecursive(g, L, m, F)
    BY <1>1, Recursion
  <2>2. <<0, m>> \in G
    BY <1>1, <1>3
  <2>3. ASSUME NEW n \in 1..L, NEW s, <<n - 1, s>> \in G
        PROVE  <<n, F[<<n, s>>]>> \in G
    <3>1. InScan(p, b, s) /\ s \in Accs
      BY <2>3
    <3>2. F[<<n, s>>] = SupportScan(s)
      BY <3>1
    <3>3. InScan(p, b, SupportScan(s))
      BY <1>2, <3>1
    <3>4. SupportScan(s) \in Accs
      BY <1>3, <3>3
    <3> HIDE DEF F
    <3>5. QED
      BY <1>4, <3>2, <3>3, <3>4
  <2>4. \A n \in 1..L : \A s \in Accs : F[<<n, s>>] = SupportScan(s)
    OBVIOUS
  <2>5. \A n \in 0..L : \A s : <<n, s>> \in G => s \in Accs
    OBVIOUS
  <2> HIDE DEF F, G
  <2>6. \A n \in 0..L : <<n, g[n]>> \in G
    BY <1>1, <2>1, <2>2, <2>3, RecursionKeeps
  <2> DEFINE h == [n \in 0..L |-> IF n = 0 THEN m ELSE SupportScan(g[n - 1])]
             h1 == [n \in 0..L |-> IF n = 0 THEN m ELSE F[<<n, g[n - 1]>>]]
  <2>7. g = h1
    BY <2>1 DEF IsRecursive
  <2>8. ASSUME NEW n \in 0..L PROVE h1[n] = h[n]
    <3>1. CASE n = 0
      BY <3>1
    <3>2. CASE n # 0
      <4>1. n \in 1..L /\ n - 1 \in 0..L
        BY <1>1, <3>2
      <4>2. g[n - 1] \in Accs
        BY <2>5, <2>6, <4>1
      <4>3. F[<<n, g[n - 1]>>] = SupportScan(g[n - 1])
        BY <2>4, <4>1, <4>2
      <4>4. h1[n] = F[<<n, g[n - 1]>>] /\ h[n] = SupportScan(g[n - 1])
        BY <3>2
      <4>5. QED
        BY <4>3, <4>4
    <3>3. QED
      BY <3>1, <3>2
  <2>9. h1 = h
    BY <2>8
  <2>10. g = h
    BY <2>7, <2>9
  <2>11. ScanRec(m, g)
    BY <2>10 DEF ScanRec, L
  <2>12. QED
    BY <2>11
<1> DEFINE scan == CHOOSE scan : ScanRec(m, scan)
<1>6. ScanRec(m, scan)
  BY <1>5
<1> HIDE DEF scan
<1>7. scan[0] = m /\ \A n \in 1..L : scan[n] = SupportScan(scan[n - 1])
  <2>1. scan = [n \in 0..L |-> IF n = 0 THEN m ELSE SupportScan(scan[n - 1])]
    BY <1>6 DEF ScanRec, L
  <2>2. \A n \in 0..L : scan[n] = IF n = 0 THEN m ELSE SupportScan(scan[n - 1])
    BY <2>1
  <2>3. 0 \in 0..L
    BY <1>1
  <2>4. QED
    BY <1>4, <2>2, <2>3
<1> DEFINE U == {n \in 0..L : InScan(p, b, scan[n])}
<1>8. 0 \in U
  BY <1>1, <1>7
<1>9. ASSUME NEW n \in 1..L, n - 1 \in U PROVE n \in U
  BY <1>2, <1>4, <1>7, <1>9
<1> HIDE DEF U
<1>10. 0..L \subseteq U
  BY <1>1, <1>8, <1>9, UpToInduction
<1>11. InScan(p, b, scan[L])
  BY <1>1, <1>10 DEF U
<1>12. QED
  BY <1>11 DEF Scanned, scan, L

LEMMA PrefixIsAsymmetric ==
  ASSUME NEW p \in Seq(Names), NEW q \in Seq(Names), IsPrefix(p, q), IsPrefix(q, p)
  PROVE  p = q
<1>1. Len(p) = Len(q) /\ p = SubSeq(q, 1, Len(p))
  BY DEF IsPrefix
<1>2. SubSeq(q, 1, Len(q)) = q
  OBVIOUS
<1>3. QED
  BY <1>1, <1>2

\* __mark_server_subtree sets the mark of the node of path p.
Marked(ns, i) == [ns EXCEPT ![i].monitored = TRUE]

LEMMA MarkIs ==
  ASSUME NEW ns, NEW N, NEW at, TreeOf(ns, N, at), NEW p \in N
  PROVE  /\ Alike(ns, Marked(ns, at[p]))
         /\ \A q \in N :
              /\ Marked(ns, at[p])[at[q]].entry = ns[at[q]].entry
              /\ Marked(ns, at[p])[at[q]].monitored <=> ns[at[q]].monitored \/ q = p
<1> DEFINE ns2 == Marked(ns, at[p])
<1>0. ns2 = [ns EXCEPT ![at[p]].monitored = TRUE]
  BY DEF Marked
<1> HIDE DEF ns2
<1>1. ns \in [Id -> Node \cup {Free}]
  BY DEF TreeOf
<1>2. \A q \in N : at[q] \in Id /\ ns[at[q]] \in Node
  BY TreeFacts
<1>3. \A x \in Node : x.monitored \in BOOLEAN
  BY DEF Node
<1>4. /\ ns2[at[p]] = [ns[at[p]] EXCEPT !.monitored = TRUE]
      /\ \A i \in Id : i # at[p] => ns2[i] = ns[i]
      /\ DOMAIN ns2 = Id /\ ns2 = [i \in Id |-> ns2[i]]
  BY <1>0, <1>1, <1>2
<1>5. /\ ns2[at[p]] \in Node /\ ns2[at[p]].name = ns[at[p]].name
      /\ ns2[at[p]].children = ns[at[p]].children
      /\ ns2[at[p]].entry = ns[at[p]].entry /\ ns2[at[p]].monitored = TRUE
  BY <1>2, <1>4 DEF Node
<1>6. ns2 \in [Id -> Node \cup {Free}]
  <2>1. \A i \in Id : ns2[i] \in Node \cup {Free}
    BY <1>1, <1>4, <1>5
  <2>2. QED
    BY <1>4, <2>1
<1>7. Alike(ns, ns2)
  <2>1. ns2[at[p]] # Free /\ ns[at[p]] # Free
    BY <1>2, <1>5, FreeIsNoNode
  <2>2. ASSUME NEW i \in Id
        PROVE  IF ns[i] = Free THEN ns2[i] = Free
                 ELSE /\ ns2[i] # Free /\ ns2[i].name = ns[i].name
                      /\ ns2[i].children = ns[i].children
                      /\ ns2[i].entry.dir = ns[i].entry.dir
    BY <1>4, <1>5, <2>1
  <2>3. QED
    BY <1>6, <2>2 DEF Alike
<1>8. ASSUME NEW q \in N
      PROVE  /\ ns2[at[q]].entry = ns[at[q]].entry
             /\ ns2[at[q]].monitored <=> ns[at[q]].monitored \/ q = p
  <2>1. CASE q = p
    BY <1>5, <2>1
  <2>2. CASE q # p
    <3>1. at[q] # at[p] /\ at[q] \in Id
      BY <1>2, <2>2, TreeFacts
    <3>2. QED
      BY <1>4, <2>2, <3>1
  <2>3. QED
    BY <2>1, <2>2
<1>9. QED
  BY <1>7, <1>8 DEF ns2

LEMMA FirstScanIs ==
  ASSUME TypeOK, DiskIsClosed, NEW N0, NEW at0, TreeOf(nodes, N0, at0),
         NEW b, MarksAre(nodes, N0, at0, b), b.path \in Seq(Names),
         NEW p \in Paths, Readable(p), b.path # <<>> => IsPrefix(p, b.path),
         FirstScan(p).ok
  PROVE  \E N, at : IsScanned(p, b, FirstScan(p), N, at)
<1> DEFINE acc == Built(p)
           ns == acc.ns
           ns2 == Marked(ns, NodeAt(ns, p))
           m == [acc EXCEPT !.ns = ns2]
<1>1. \/ FirstScan(p) = acc /\ ~acc.ok
      \/ FirstScan(p) = m /\ acc.ok
      \/ FirstScan(p) = Scanned(m) /\ acc.ok
  BY DEF FirstScan, Built, Scanned, WayRec, ScanRec, Marked
<1>2. OnTheWay(p, b, acc, Len(p))
  BY BuiltIs
<1> HIDE DEF acc
<1>3. acc.ok
  BY <1>1
<1>4. p \in Seq(Names) /\ SubSeq(p, 1, Len(p)) = p /\ p \in Places /\ Len(p) \in Nat
  BY PlaceFacts DEF Places
<1>5. PICK N, at : IsBuilt(p, b, acc, Len(p), N, at)
  BY <1>2, <1>3 DEF OnTheWay
<1>6. TreeOf(ns, N, at) /\ MarksAre(ns, N, at, b) /\ p \in N
      /\ acc \in Accs /\ acc.todo = <<p>>
  BY <1>2, <1>4, <1>5 DEF IsBuilt, OnTheWay
<1> HIDE DEF ns
<1>7. NodeAt(ns, p) = at[p]
  BY <1>4, <1>6, NodeAtIs
<1>8. ns2 = Marked(ns, at[p])
  BY <1>7
<1> HIDE DEF ns2
<1>9. /\ Alike(ns, ns2)
      /\ \A q \in N : /\ ns2[at[q]].entry = ns[at[q]].entry
                      /\ ns2[at[q]].monitored <=> ns[at[q]].monitored \/ q = p
  BY <1>6, <1>8, MarkIs
<1>10. TreeOf(ns2, N, at) /\ ns2 \in [Id -> Node \cup {Free}]
  <2>1. TreeOf(ns2, N, at)
    BY <1>6, <1>9, SameShape
  <2>2. QED
    BY <2>1 DEF TreeOf
<1>11. m \in Accs /\ m.ns = ns2 /\ m.todo = <<p>> /\ m.ok
  BY <1>3, <1>6, <1>10, AccFacts
<1>12. \A q \in N : ns2[at[q]].monitored <=> q = p \/ (Listens(b) /\ q = b.path)
  BY <1>6, <1>9 DEF MarksAre
<1>13. \A q \in N : ns2[at[q]].entry.dir \/ IsStrictPrefix(p, q)
  <2>1. SUFFICES ASSUME NEW q \in N, ~ns2[at[q]].entry.dir PROVE IsStrictPrefix(p, q)
    OBVIOUS
  <2>2. Listens(b) /\ IsStrictPrefix(b.path, q)
    BY <1>6, <1>9, <2>1 DEF MarksAre
  <2>3. IsPrefix(p, b.path) /\ IsPrefix(b.path, q) /\ b.path # q /\ q \in Seq(Names)
    BY <1>6, <2>2, TreeFacts DEF Listens, IsStrictPrefix
  <2>4. IsPrefix(p, q)
    BY <1>4, <2>3, PrefixTransitive
  <2>5. p # q
    BY <1>4, <2>3, PrefixIsAsymmetric
  <2>6. QED
    BY <2>4, <2>5 DEF IsStrictPrefix
<1>14. ns2[at[p]].entry.dir
  BY <1>6, <1>13 DEF IsStrictPrefix
<1>15. Listens(b) => b.path \in N
  BY <1>6 DEF MarksAre
<1> HIDE DEF m
<1>16. \A k \in DOMAIN m.todo : m.todo[k] = p
  BY <1>11
<1>17. IsPrefix(p, p)
  BY <1>4 DEF IsPrefix
<1>18. IsScanned(p, b, m, N, at)
  BY <1>6, <1>10, <1>11, <1>12, <1>13, <1>14, <1>15, <1>16, <1>17 DEF IsScanned
<1>19. InScan(p, b, m)
  BY <1>11, <1>18 DEF InScan
<1>20. InScan(p, b, Scanned(m))
  BY <1>19, ScannedIs
<1>21. CASE FirstScan(p) = m
  BY <1>18, <1>21
<1>22. CASE FirstScan(p) = Scanned(m)
  BY <1>20, <1>22 DEF InScan
<1>23. QED
  BY <1>1, <1>3, <1>21, <1>22

\* The entries below p that the tree has.
LEMMA TreeBelowIs ==
  ASSUME NEW ns, NEW N, NEW at, TreeOf(ns, N, at), NEW p \in Seq(Names)
  PROVE  TreeBelow(ns, p) = Entries(ns, N, at, p)
<1>1. \A r \in Paths : NodeAt(ns, r) = IF r \in N THEN at[r] ELSE 0
  <2>1. Paths \subseteq Seq(Names)
    BY PlaceFacts DEF Places
  <2>2. QED
    BY <2>1, NodeAtIs
<1>2. \A r \in N : at[r] # 0 /\ r \in Seq(Names) /\ r \in Places
  BY TreeFacts, IdFacts
<1>3. \A r : IsStrictPrefix(p, r) => r # <<>>
  BY DEF IsStrictPrefix, IsPrefix
<1>4. ASSUME NEW r
      PROVE  r \in Paths /\ IsStrictPrefix(p, r) /\ NodeAt(ns, r) # 0
             <=> r \in N /\ IsStrictPrefix(p, r)
  BY <1>1, <1>2, <1>3 DEF Places
<1>5. ASSUME NEW k PROVE k \in TreeBelow(ns, p) <=> k \in Entries(ns, N, at, p)
  <2>1. k \in TreeBelow(ns, p) <=>
          \E q \in Paths : /\ IsStrictPrefix(p, q) /\ NodeAt(ns, q) # 0
                           /\ k = Known(q, ns[NodeAt(ns, q)].entry)
    BY DEF TreeBelow
  <2>2. k \in Entries(ns, N, at, p) <=>
          \E q \in N : IsStrictPrefix(p, q) /\ k = Known(q, ns[at[q]].entry)
    BY DEF Entries
  <2>3. QED
    BY <1>1, <1>4, <2>1, <2>2
<1>6. QED
  BY <1>5

LEMMA SameEntries ==
  ASSUME NEW ns, NEW N, NEW at, NEW p, NEW ns2,
         \A q \in N : ns2[at[q]].entry = ns[at[q]].entry
  PROVE  Entries(ns2, N, at, p) = Entries(ns, N, at, p)
BY DEF Entries

LEMMA RegisterStep ==
  ASSUME IInv, NEW p \in Watched, Register(p)
  PROVE  IInv'
<1>1. PICK N0, at0 : Inv(N0, at0)
  BY DEF IInv
<1>2. /\ TypeOK /\ DiskIsClosed /\ Typed /\ todo \in Seq(CallSet) /\ bucket.path \in Seq(Names)
      /\ bucket.mark \in BOOLEAN
  BY BucketPath DEF IInv
<1>3. TreeOf(nodes, N0, at0) /\ MarksAre(nodes, N0, at0, bucket)
      /\ (Listens(bucket) => view = Entries(nodes, N0, at0, bucket.path))
      /\ CallsAre(nodes, N0, at0, bucket, todo)
  BY <1>1 DEF Inv
<1> DEFINE scan == FirstScan(p)
<1>4. /\ todo = <<>> /\ ~bucket.mark /\ Readable(p)
      /\ ~(bucket.path # <<>> /\ IsPrefix(bucket.path, p))
      /\ bucket.path = <<>> \/ IsPrefix(p, bucket.path)
      /\ quiet' = FALSE /\ UNCHANGED <<disk, changes, todo>>
      /\ \/ /\ scan.ok
            /\ nodes' = IF bucket.path = <<>> THEN scan.ns ELSE Unmark(scan.ns, bucket.path)
            /\ bucket' = [path |-> p, mark |-> FALSE]
            /\ view' = TreeBelow(scan.ns, p)
            /\ failed' = failed
         \/ failed' = TRUE /\ UNCHANGED <<nodes, bucket, view>>
  BY DEF Register
<1>5. p \in Paths /\ p \in Seq(Names) /\ p # <<>>
  BY WatchedPaths, PathsAreClosed, PlaceFacts DEF Places
<1>6. (todo \in Seq(CallSet))' /\ todo' = <<>>
  BY <1>2, <1>4
<1> HIDE DEF scan
<1>7. CASE failed' = TRUE /\ UNCHANGED <<nodes, bucket, view>>
  <2>1. Typed'
    BY <1>2, <1>4, <1>7 DEF Typed
  <2>2. CallsAre(nodes', N0, at0, bucket', todo')
    BY <1>3, <1>4, <1>7
  <2>3. MarksAre(nodes', N0, at0, bucket') /\ TreeOf(nodes', N0, at0)
        /\ (Listens(bucket') => view' = Entries(nodes', N0, at0, bucket'.path))
    BY <1>3, <1>7
  <2>4. QED
    BY <1>2, <1>4, <1>6, <2>1, <2>2, <2>3, InvAfter
<1>8. CASE /\ scan.ok
           /\ nodes' = IF bucket.path = <<>> THEN scan.ns ELSE Unmark(scan.ns, bucket.path)
           /\ bucket' = [path |-> p, mark |-> FALSE]
           /\ view' = TreeBelow(scan.ns, p)
           /\ failed' = failed
  <2>1. PICK N, at : IsScanned(p, bucket, scan, N, at)
    BY <1>2, <1>3, <1>4, <1>5, <1>8, FirstScanIs DEF scan
  <2> DEFINE ns == scan.ns
  <2>2. /\ TreeOf(ns, N, at) /\ p \in N /\ ns[at[p]].entry.dir
        /\ \A q \in N : ns[at[q]].monitored <=> q = p \/ (Listens(bucket) /\ q = bucket.path)
        /\ \A q \in N : ns[at[q]].entry.dir \/ IsStrictPrefix(p, q)
    BY <2>1 DEF IsScanned
  <2>3. nodes' = (IF bucket.path = <<>> THEN ns ELSE Unmark(ns, bucket.path))
        /\ view' = TreeBelow(ns, p)
    BY <1>8
  <2> HIDE DEF ns
  <2>4. TreeOf(nodes', N, at) /\ \A q \in N : /\ nodes'[at[q]].entry = ns[at[q]].entry
                                              /\ nodes'[at[q]].monitored <=> q = p
    <3>1. CASE bucket.path = <<>>
      BY <2>2, <2>3, <3>1 DEF Listens
    <3>2. CASE bucket.path # <<>>
      <4>1. /\ Alike(ns, nodes')
            /\ \A q \in N : /\ nodes'[at[q]].entry = ns[at[q]].entry
                            /\ nodes'[at[q]].monitored <=> ns[at[q]].monitored /\ q # bucket.path
        BY <1>2, <2>2, <2>3, <3>2, UnmarkIs
      <4>2. p # bucket.path
        BY <1>2, <1>4, <3>2 DEF IsPrefix
      <4>3. QED
        BY <2>2, <4>1, <4>2, SameShape
    <3>3. QED
      BY <3>1, <3>2
  <2>5. bucket'.path = p /\ Listens(bucket')
    BY <1>5, <1>8 DEF Listens
  <2>6. MarksAre(nodes', N, at, bucket')
    BY <2>2, <2>4, <2>5 DEF MarksAre
  <2>7. view' = Entries(nodes', N, at, bucket'.path)
    BY <1>5, <2>2, <2>3, <2>4, <2>5, TreeBelowIs, SameEntries
  <2>8. CallsAre(nodes', N, at, bucket', todo')
    BY <1>6 DEF CallsAre
  <2>9. Typed'
    <3>1. view' \subseteq [path : Paths, entry : Entry]
      BY <1>5, <2>4, <2>5, <2>7, EntriesAre
    <3>2. bucket' \in [path : Watched \cup {<<>>}, mark : BOOLEAN]
      BY <1>8
    <3>3. QED
      BY <1>2, <1>4, <1>8, <3>1, <3>2 DEF Typed
  <2>10. QED
    BY <1>2, <1>4, <1>6, <2>4, <2>6, <2>7, <2>8, <2>9, InvAfter
<1>9. QED
  BY <1>4, <1>7, <1>8

LEMMA SameStep ==
  ASSUME IInv, UNCHANGED vars
  PROVE  IInv'
<1>1. PICK N, at : Inv(N, at)
  BY DEF IInv
<1>2. TypeOK /\ DiskIsClosed /\ Typed /\ todo \in Seq(CallSet)
  BY BucketPath DEF IInv
<1>3. /\ disk' = disk /\ changes' = changes /\ nodes' = nodes /\ bucket' = bucket
      /\ view' = view /\ todo' = todo /\ quiet' = quiet /\ failed' = failed
  BY DEF vars
<1>4. Typed'
  BY <1>2, <1>3 DEF Typed
<1>5. /\ TreeOf(nodes', N, at) /\ MarksAre(nodes', N, at, bucket')
      /\ CallsAre(nodes', N, at, bucket', todo')
      /\ Listens(bucket') => view' = Entries(nodes', N, at, bucket'.path)
      /\ quiet' /\ Listens(bucket') => Compared(nodes', N, at, bucket', todo')
  BY <1>1, <1>3 DEF Inv
<1>6. (todo \in Seq(CallSet))'
  BY <1>2, <1>3
<1>7. QED
  BY <1>2, <1>3, <1>4, <1>5, <1>6, InvAfter

LEMMA NextStep ==
  ASSUME IInv, [Next]_vars
  PROVE  IInv'
<1>1. CASE StartScan
  BY <1>1, StartScanStep
<1>2. CASE CheckDirectory
  BY <1>2, CheckedStep, UncheckedStep
<1>3. CASE PassThrough
  BY <1>3, PassThroughStep
<1>4. CASE Compare
  BY <1>4, CompareStep
<1>5. ASSUME NEW p \in Watched, Register(p)
      PROVE  IInv'
  BY <1>5, RegisterStep
<1>6. CASE ReadMarked
  BY <1>6, ReadMarkedStep
<1>7. CASE Leave
  BY <1>7, LeaveStep
<1>8. CASE ChangeDisk
  BY <1>8, ChangeDiskStep
<1>9. CASE UNCHANGED vars
  BY <1>9, SameStep
<1>10. QED
  BY <1>1, <1>2, <1>3, <1>4, <1>5, <1>6, <1>7, <1>8, <1>9 DEF Next, Scan, Terminated

-----------------------------------------------------------------------------
(* What the invariant says of the tree and of the listener.                *)

\* A block in use is the node of a path, or was lost.
LEMMA UsedIs ==
  ASSUME NEW ns, NEW N, NEW at, TreeOf(ns, N, at), NEW i \in Allocated(ns)
  PROVE  (\E p \in N : i = at[p]) \/ (~ns[i].entry.dir /\ ns[i].children = <<>>)
BY DEF TreeOf, Allocated

LEMMA TreeIsSoundFrom ==
  ASSUME IInv
  PROVE  TreeIsSound
<1>1. PICK N, at : Inv(N, at)
  BY DEF IInv
<1>2. TreeOf(nodes, N, at) /\ CallsAre(nodes, N, at, bucket, todo)
  BY <1>1 DEF Inv
<1>3. \A c : c \in Range(<<>>) => FALSE
  BY DEF Range
<1>4. ASSUME NEW p \in N, NEW c \in Range(nodes[at[p]].children)
      PROVE  \E q \in N \ {<<>>} : c = at[q] /\ Front(q) = p
  BY <1>2, <1>4, ChildIsInTree
<1>5. ASSUME NEW i \in Allocated(nodes)
      PROVE  /\ Range(nodes[i].children) \subseteq Allocated(nodes)
             /\ IsInjective(nodes[i].children)
             /\ \A j \in Allocated(nodes) \ {i} :
                  Range(nodes[i].children) \cap Range(nodes[j].children) = {}
             /\ \A c, d \in Range(nodes[i].children) :
                  c # d => nodes[c].name # nodes[d].name
  <2>1. CASE nodes[i].children = <<>>
    <3>1. IsInjective(<<>>)
      BY DEF IsInjective
    <3>2. QED
      BY <1>3, <2>1, <3>1
  <2>2. CASE nodes[i].children # <<>>
    <3>1. PICK p \in N : i = at[p]
      BY <1>2, <2>2, UsedIs
    <3>2. IsInjective(nodes[i].children)
      BY <1>2, <3>1, NodeFacts
    <3>3. ASSUME NEW c \in Range(nodes[i].children) PROVE c \in Allocated(nodes)
      <4>1. PICK q \in N \ {<<>>} : c = at[q] /\ Front(q) = p
        BY <1>4, <3>1, <3>3
      <4>2. at[q] \in Id /\ nodes[at[q]] # Free
        BY <1>2, <4>1, NodeFacts
      <4>3. QED
        BY <4>1, <4>2 DEF Allocated
    <3>4. ASSUME NEW j \in Allocated(nodes) \ {i}, NEW c \in Range(nodes[i].children),
                 c \in Range(nodes[j].children)
          PROVE  FALSE
      <4>1. PICK q \in N \ {<<>>} : c = at[q] /\ Front(q) = p
        BY <1>4, <3>1, <3>4
      <4>2. nodes[j].children # <<>>
        BY <1>3, <3>4
      <4>3. PICK p2 \in N : j = at[p2]
        BY <1>2, <3>4, <4>2, UsedIs
      <4>4. PICK q2 \in N \ {<<>>} : c = at[q2] /\ Front(q2) = p2
        BY <1>4, <3>4, <4>3
      <4>5. q = q2
        <5>1. at[q] = at[q2] /\ q \in N /\ q2 \in N
          BY <4>1, <4>4
        <5>2. \A r, s \in N : at[r] = at[s] => r = s
          BY <1>2, TreeFacts
        <5>3. QED
          BY <5>1, <5>2
      <4>6. QED
        BY <3>1, <3>4, <4>1, <4>3, <4>4, <4>5
    <3>5. ASSUME NEW c \in Range(nodes[i].children), NEW d \in Range(nodes[i].children),
                 nodes[c].name = nodes[d].name
          PROVE  c = d
      <4>1. PICK q \in N \ {<<>>} : c = at[q] /\ Front(q) = p
        BY <1>4, <3>1, <3>5
      <4>2. PICK r \in N \ {<<>>} : d = at[r] /\ Front(r) = p
        BY <1>4, <3>1, <3>5
      <4>3. /\ Append(Front(q), Last(q)) = q /\ nodes[at[q]].name = Last(q)
            /\ Append(Front(r), Last(r)) = r /\ nodes[at[r]].name = Last(r)
        BY <1>2, <4>1, <4>2, ChildFacts
      <4>4. QED
        BY <3>5, <4>1, <4>2, <4>3
    <3>6. QED
      BY <3>2, <3>3, <3>4, <3>5
  <2>3. QED
    BY <2>1, <2>2
<1>6. ASSUME NEW n \in DOMAIN todo
      PROVE  NodeAt(nodes, todo[n].path) = todo[n].node
  <2>1. todo[n].path \in N /\ todo[n].node = at[todo[n].path]
    BY <1>2 DEF CallsAre, CallIs
  <2>2. todo[n].path \in Seq(Names)
    BY <1>2, <2>1, NodeFacts
  <2>3. QED
    BY <1>2, <2>1, <2>2, NodeAtIs
<1>7. QED
  BY <1>5, <1>6 DEF TreeIsSound

\* The tree that can be reached from its root is that of the paths.
LEMMA ReachIsTree ==
  ASSUME NEW ns, NEW N, NEW at, TreeOf(ns, N, at)
  PROVE  \A i : i \in Reach(ns, Root) <=> \E q \in N : i = at[q]
<1>1. N \subseteq Seq(Names) /\ <<>> \in N /\ at[<<>>] = Root
  BY TreeFacts
<1>2. Reach(ns, at[<<>>]) = {at[q] : q \in {r \in N : IsPrefix(<<>>, r)}}
  <2> DEFINE root == <<>>
  <2>1. root \in N
    BY <1>1
  <2> HIDE DEF root
  <2>2. Reach(ns, at[root]) = {at[q] : q \in {r \in N : IsPrefix(root, r)}}
    BY <2>1, ReachIs
  <2>3. QED
    BY <2>2 DEF root
<1>3. \A r \in N : IsPrefix(<<>>, r)
  BY <1>1 DEF IsPrefix
<1>4. QED
  BY <1>1, <1>2, <1>3

LEMMA OnlyFilesLeakFrom ==
  ASSUME IInv
  PROVE  OnlyFilesLeak
<1>1. PICK N, at : Inv(N, at)
  BY DEF IInv
<1>2. TreeOf(nodes, N, at)
  BY <1>1 DEF Inv
<1>3. ASSUME NEW i \in Allocated(nodes), nodes[i].entry.dir
      PROVE  i \in Reach(nodes, Root)
  <2>1. \E p \in N : i = at[p]
    BY <1>2, <1>3, UsedIs
  <2>2. QED
    BY <1>2, <2>1, ReachIsTree
<1>4. QED
  BY <1>3 DEF OnlyFilesLeak

LEMMA ToldFrom ==
  ASSUME IInv
  PROVE  ToldWhatTreeHolds
<1>1. PICK N, at : Inv(N, at)
  BY DEF IInv
<1>2. TreeOf(nodes, N, at) /\ (Listens(bucket) => view = Entries(nodes, N, at, bucket.path))
  BY <1>1 DEF Inv
<1>3. bucket.path \in Seq(Names)
  BY BucketPath DEF IInv
<1>4. TreeBelow(nodes, bucket.path) = Entries(nodes, N, at, bucket.path)
  BY <1>2, <1>3, TreeBelowIs
<1>5. QED
  BY <1>2, <1>4 DEF ToldWhatTreeHolds, Listening, Listens

LEMMA ScansFrom ==
  ASSUME IInv
  PROVE  ScansWhatIsWatched
<1>1. PICK N, at : Inv(N, at)
  BY DEF IInv
<1>2. TreeOf(nodes, N, at) /\ MarksAre(nodes, N, at, bucket)
  BY <1>1 DEF Inv
<1>3. bucket.path \in Seq(Names)
  BY BucketPath DEF IInv
<1>4. NodeAt(nodes, bucket.path) = IF bucket.path \in N THEN at[bucket.path] ELSE 0
  BY <1>2, <1>3, NodeAtIs
<1>5. \A i : i \in Reach(nodes, Root) <=> \E q \in N : i = at[q]
  BY <1>2, ReachIsTree
<1>6. /\ Listens(bucket) => bucket.path \in N
      /\ \A p \in N : nodes[at[p]].monitored <=> Listens(bucket) /\ p = bucket.path
  BY <1>2 DEF MarksAre
<1>7. ASSUME NEW i
      PROVE  i \in Reach(nodes, Root) /\ nodes[i].monitored <=>
               Listens(bucket) /\ i = NodeAt(nodes, bucket.path)
  <2>1. CASE Listens(bucket)
    BY <1>4, <1>5, <1>6, <2>1
  <2>2. CASE ~Listens(bucket)
    BY <1>5, <1>6, <2>2
  <2>3. QED
    BY <2>1, <2>2
<1>8. Listening <=> Listens(bucket)
  BY DEF Listening, Listens
<1>9. QED
  BY <1>7, <1>8 DEF ScansWhatIsWatched

\* After a scan during which nothing changed, the directories below the server's
\* path that can be read have nodes.
LEMMA QuietTree ==
  ASSUME IInv, NEW N, NEW at, Inv(N, at), todo = <<>>, quiet, Listens(bucket),
         NEW d \in Paths, IsPrefix(bucket.path, d), Readable(d)
  PROVE  d \in N /\ nodes[at[d]].entry.dir /\ ExactIn(nodes, N, at, d)
<1> DEFINE b == bucket.path
           S == {r \in Paths : IsPrefix(b, r) /\ Readable(r)}
           U == {r \in Paths : r \in N /\ nodes[at[r]].entry.dir}
<1>1. /\ TreeOf(nodes, N, at) /\ MarksAre(nodes, N, at, bucket)
      /\ Compared(nodes, N, at, bucket, todo)
  BY DEF Inv
<1>2. TypeOK /\ DiskIsClosed /\ b \in Seq(Names)
  BY BucketPath DEF IInv
<1>3. S \subseteq Seq(Names) /\ Paths \subseteq Seq(Names)
  BY PlaceFacts DEF Places
<1>4. b \in N /\ nodes[at[b]].entry.dir /\ b # <<>>
  BY <1>1 DEF MarksAre, Listens
<1> HIDE DEF b
<1>5. ASSUME NEW r \in Paths, r \in N, nodes[at[r]].entry.dir, IsPrefix(b, r), Readable(r)
      PROVE  ExactIn(nodes, N, at, r)
  BY <1>1, <1>5 DEF Compared, b
<1>6. ASSUME NEW r \in S, \A s \in S : Len(s) < Len(r) => s \in U PROVE r \in U
  <2>1. CASE r = b
    BY <1>4, <2>1
  <2>2. CASE r # b
    <3>1. r \in Paths /\ r \in Seq(Names) /\ r # <<>> /\ IsPrefix(b, r) /\ Readable(r)
      BY <1>3, <1>6, PathsAreClosed
    <3>2. Front(r) \in Places /\ Len(Front(r)) = Len(r) - 1 /\ Len(r) \in Nat
          /\ Front(r) \in Seq(Names) /\ r \in Places
      BY <3>1, PlaceFacts DEF Places
    <3>3. IsPrefix(b, Front(r))
      BY <1>2, <2>2, <3>1, PrefixOfChild DEF b
    <3>4. Front(r) # <<>>
      BY <1>2, <1>4, <3>3 DEF IsPrefix, b
    <3>5. Readable(Front(r))
      BY <1>2, <3>1, <3>2, FrontIsPrefix, ReadableAbove
    <3>6. Front(r) \in S /\ Front(r) \in Paths
      BY <3>2, <3>3, <3>4, <3>5 DEF Places
    <3>7. Front(r) \in U
      BY <1>6, <3>2, <3>6
    <3>8. ExactIn(nodes, N, at, Front(r))
      BY <1>5, <3>3, <3>5, <3>6, <3>7
    <3>9. disk[r].dir
      BY <3>1 DEF Readable, IsDirectory, EntryAt
    <3>10. disk[r] # NoEntry
      BY <3>9 DEF NoEntry
    <3>11. r \in N /\ nodes[at[r]].entry = disk[r]
      BY <3>1, <3>8, <3>10 DEF ExactIn
    <3>12. QED
      BY <3>1, <3>9, <3>11
  <2>3. QED
    BY <2>1, <2>2
<1>7. d \in S
  BY DEF b
<1> HIDE DEF U, S
<1>8. S \subseteq U
  BY <1>3, <1>6, PathInduction
<1>9. d \in N /\ nodes[at[d]].entry.dir
  BY <1>7, <1>8 DEF U
<1>10. QED
  BY <1>5, <1>9 DEF b

LEMMA QuietFrom ==
  ASSUME IInv
  PROVE  QuietScanIsExact
<1>1. SUFFICES ASSUME todo = <<>>, quiet, Listens(bucket) PROVE UpToDate
  BY DEF QuietScanIsExact, Listening, Listens
<1>2. PICK N, at : Inv(N, at)
  BY DEF IInv
<1>3. /\ TreeOf(nodes, N, at) /\ MarksAre(nodes, N, at, bucket)
      /\ view = Entries(nodes, N, at, bucket.path)
  BY <1>1, <1>2 DEF Inv
<1>4. bucket.path \in Seq(Names) /\ bucket.path # <<>>
  BY <1>1, BucketPath DEF IInv, Listens
<1> DEFINE Visible(q) == IsStrictPrefix(bucket.path, q) /\ Readable(Front(q))
<1>5. ASSUME NEW q \in Paths, Visible(q)
      PROVE  /\ q \in N <=> disk[q] # NoEntry
             /\ q \in N => nodes[at[q]].entry = disk[q]
  <2>1. q \in Seq(Names) /\ q # <<>> /\ Front(q) \in Places /\ q # bucket.path
        /\ IsPrefix(bucket.path, q) /\ Front(q) \in Seq(Names)
    BY <1>5, PlaceFacts, PathsAreClosed DEF Places, IsStrictPrefix
  <2>2. IsPrefix(bucket.path, Front(q))
    BY <1>4, <2>1, PrefixOfChild
  <2>3. Front(q) # <<>>
    BY <1>4, <2>2 DEF IsPrefix
  <2>4. Front(q) \in Paths
    BY <2>1, <2>3 DEF Places
  <2>5. ExactIn(nodes, N, at, Front(q))
    BY <1>1, <1>2, <1>5, <2>2, <2>4, QuietTree
  <2>6. QED
    BY <2>5 DEF ExactIn
<1>6. \A q \in N : q \in Places /\ (q # <<>> => q \in Paths)
  BY <1>3, TreeFacts DEF Places
<1>7. ~IsStrictPrefix(bucket.path, <<>>)
  BY <1>4 DEF IsStrictPrefix, IsPrefix
<1> HIDE DEF Visible
<1>8. \A k : k \in view <=>
        \E q \in N : IsStrictPrefix(bucket.path, q) /\ k = Known(q, nodes[at[q]].entry)
  BY <1>3 DEF Entries
<1>9. \A q, e : Known(q, e).path = q
  BY DEF Known
<1>10. \A q : Visible(q) => IsStrictPrefix(bucket.path, q)
  BY DEF Visible
<1> DEFINE Left == {k \in view : Visible(k.path)}
           Right == {Known(p, disk[p]) : p \in {q \in Paths : Visible(q) /\ disk[q] # NoEntry}}
<1>11. ASSUME NEW k \in Left PROVE k \in Right
  <2>1. PICK q \in N : IsStrictPrefix(bucket.path, q) /\ k = Known(q, nodes[at[q]].entry)
    BY <1>8, <1>11
  <2>2. Visible(q) /\ q \in Paths
    BY <1>6, <1>7, <1>9, <1>11, <2>1
  <2>3. disk[q] # NoEntry /\ nodes[at[q]].entry = disk[q]
    BY <1>5, <2>1, <2>2
  <2>4. QED
    BY <2>1, <2>2, <2>3
<1>12. ASSUME NEW k \in Right PROVE k \in Left
  <2>1. PICK q \in Paths : Visible(q) /\ disk[q] # NoEntry /\ k = Known(q, disk[q])
    BY <1>12
  <2>2. q \in N /\ nodes[at[q]].entry = disk[q]
    BY <1>5, <2>1
  <2>3. k \in view /\ k.path = q
    BY <1>8, <1>9, <1>10, <2>1, <2>2
  <2>4. QED
    BY <2>1, <2>3
<1>13. Left = Right
  <2> HIDE DEF Left, Right
  <2>1. QED
    BY <1>11, <1>12
<1>14. QED
  BY <1>13 DEF UpToDate, Visible

-----------------------------------------------------------------------------
(* The theorems.                                                           *)

\* Any sequence of scans, registrations, departures and changes keeps the tree, the
\* daemon's stack and what the listener was told in agreement.
THEOREM FilesystemTreeInvariant == Spec => []IInv
<1>1. Init => IInv
  BY InitStep
<1>2. IInv /\ [Next]_vars => IInv'
  BY NextStep
<1>3. QED
  BY <1>1, <1>2, PTL DEF Spec

\* The blocks of the shared memory hold nodes or are free, and the stack holds calls.
THEOREM FilesystemTreeTypes == Spec => []TypeOK
<1>1. IInv => TypeOK
  BY DEF IInv
<1>2. QED
  BY <1>1, FilesystemTreeInvariant, PTL

\* No block is freed that a list or a call of __scan still leads to, no node lies in
\* two lists, and no directory's block is lost: fst_delete_child,
\* __dfs_clean_subtree and the loops of __scan that call the one while they go
\* through a list.
THEOREM MemoryStaysSound == Spec => []MemoryIsSound
<1>1. IInv => MemoryIsSound
  BY TreeIsSoundFrom, OnlyFilesLeakFrom DEF MemoryIsSound
<1>2. QED
  BY <1>1, FilesystemTreeInvariant, PTL

\* __scan and register_server_path: what the listener was told is what the tree
\* holds below its path, also between two directories of a scan.
THEOREM ListenerKnowsTree == Spec => []ToldWhatTreeHolds
<1>1. IInv => ToldWhatTreeHolds
  BY ToldFrom
<1>2. QED
  BY <1>1, FilesystemTreeInvariant, PTL

\* register_server_path and unregister_server, with __mark_server_subtree,
\* __unmark_server_subtree and __dfs_clean_subtree: the one marked node is that of
\* the path the server listens to.
THEOREM OnlyWatchedIsScanned == Spec => []ScansWhatIsWatched
<1>1. IInv => ScansWhatIsWatched
  BY ScansFrom
<1>2. QED
  BY <1>1, FilesystemTreeInvariant, PTL

\* update: a scan during which no file changes leaves the listener with what the
\* directories hold that can be read, whatever earlier scans had missed.
THEOREM QuietScanTellsAll == Spec => []QuietScanIsExact
<1>1. IInv => QuietScanIsExact
  BY QuietFrom
<1>2. QED
  BY <1>1, FilesystemTreeInvariant, PTL
=============================================================================
