----------------------- MODULE MonitoredPaths_proofs ------------------------
(***************************************************************************)
(* What the servers of one host monitor, proved for any number of servers, *)
(* any directories and any scenarios: the tree is connected, marks follow  *)
(* buckets, buckets follow the lists of paths, and a server is told of     *)
(* what it monitors, and of what was deleted.                              *)
(***************************************************************************)
EXTENDS MonitoredPaths, PathNames_proofs

Name == UNION {Range(d) : d \in Dirs}

Node == [attrs : Attrs, monitored : BOOLEAN]

Bucket == [server : Server, path : Dirs, mark : BOOLEAN, updated : BOOLEAN,
           told : SUBSET Dirs]

-----------------------------------------------------------------------------
(* Directories.                                                            *)

LEMMA DirIsSequence ==
  ASSUME NEW d \in Dirs
  PROVE  d \in Seq(Name) /\ d # <<>> /\ Ancestors(d) \subseteq Dirs
BY DirsAreSequences, DirsAreClosed DEF Name

\* "Begins" is an order on directories, and those that begin a third one are
\* comparable.
LEMMA PathOrder ==
  /\ \A p \in Dirs : IsPrefix(p, p)
  /\ \A p, q, r \in Dirs : IsPrefix(p, q) /\ IsPrefix(q, r) => IsPrefix(p, r)
  /\ \A p, q, r \in Dirs :
       IsPrefix(p, r) /\ IsPrefix(q, r) => IsPrefix(p, q) \/ IsPrefix(q, p)
  /\ \A p, q \in Dirs : IsPrefix(p, q) /\ IsPrefix(q, p) => p = q
<1>1. \A p \in Dirs : IsPrefix(p, p)
  BY DirIsSequence DEF IsPrefix
<1>2. \A p, q, r \in Dirs : IsPrefix(p, q) /\ IsPrefix(q, r) => IsPrefix(p, r)
  BY DirIsSequence, PrefixTransitive
<1>3. ASSUME NEW p \in Dirs, NEW q \in Dirs, NEW r \in Dirs,
             IsPrefix(p, r), IsPrefix(q, r)
      PROVE  IsPrefix(p, q) \/ IsPrefix(q, p)
  <2>1. p \in Seq(Name) /\ q \in Seq(Name) /\ r \in Seq(Name)
    BY DirIsSequence
  <2>2. Len(p) <= Len(q) \/ Len(q) <= Len(p)
    BY <2>1
  <2>3. QED
    BY <1>3, <2>1, <2>2, PrefixesNest
<1>4. ASSUME NEW p \in Dirs, NEW q \in Dirs, IsPrefix(p, q), IsPrefix(q, p)
      PROVE  p = q
  <2>1. p \in Seq(Name) /\ q \in Seq(Name)
    BY DirIsSequence
  <2>2. Len(p) = Len(q)
    BY <1>4, <2>1 DEF IsPrefix
  <2>3. IsPrefix(q, q)
    BY <1>1
  <2>4. QED
    BY <1>4, <2>1, <2>2, <2>3, SameLengthPrefixes
<1>5. QED
  BY <1>1, <1>2, <1>3, <1>4

\* The way to a directory is made of the directories that begin it.
LEMMA AncestorsBegin ==
  ASSUME NEW d \in Dirs
  PROVE  \A e : e \in Ancestors(d) <=> e \in Dirs /\ IsPrefix(e, d)
<1>1. \A e \in Dirs : e \in Ancestors(d) <=> IsPrefix(e, d)
  BY DirIsSequence, PrefixIsAncestor
<1>2. QED
  BY <1>1, DirIsSequence

\* The parent of a directory is on the way to it.
LEMMA FrontIsAncestor ==
  ASSUME NEW d \in Dirs, Len(d) > 1
  PROVE  Front(d) \in Dirs /\ IsPrefix(Front(d), d) /\ Front(d) # d
<1>1. d \in Seq(Name) /\ d # <<>>
  BY DirIsSequence
<1>2. /\ Front(d) \in Seq(Name) /\ Len(Front(d)) = Len(d) - 1
      /\ IsPrefix(Front(d), d)
  BY <1>1, FrontIsPrefix
<1>3. Front(d) # <<>> /\ Front(d) # d
  BY <1>1, <1>2
<1>4. Front(d) \in Ancestors(d)
  BY <1>1, <1>2, <1>3, PrefixIsAncestor
<1>5. QED
  BY <1>2, <1>3, <1>4, DirIsSequence

\* A directory that begins another one and is not it is shorter.
LEMMA StrictIsShorter ==
  ASSUME NEW p \in Dirs, NEW q \in Dirs, IsStrictPrefix(p, q)
  PROVE  Len(p) \in Nat /\ Len(q) \in Nat /\ Len(p) < Len(q)
<1>1. p \in Seq(Name) /\ q \in Seq(Name)
  BY DirIsSequence
<1>2. IsPrefix(p, q) /\ p # q /\ IsPrefix(q, q)
  BY PathOrder DEF IsStrictPrefix
<1>3. Len(p) # Len(q)
  BY <1>1, <1>2, SameLengthPrefixes
<1>4. QED
  BY <1>1, <1>2, <1>3 DEF IsPrefix

-----------------------------------------------------------------------------
(* Types, and the shape of the disk and of the tree.                       *)

NodesOK(t) ==
  DOMAIN t \subseteq Dirs /\ \A d \in DOMAIN t : t[d] \in Node

TypeInv ==
  /\ scenario \in Scenarios
  /\ fs \in [Dirs -> {Gone} \cup Attrs]
  /\ NodesOK(tree)
  /\ buckets \in Seq(Bucket)
  /\ phase \in [Server -> {"new", "up", "gone", "broken"}]
  /\ serverPaths \in [Server -> Seq(Dirs)]
  /\ request \in [Server -> [path : Dirs \cup {<<>>}, result : Result]]
  /\ deleted \in [Server -> SUBSET Dirs]

\* A directory is in one that exists.
FsClosed ==
  \A d, e \in Dirs : IsPrefix(e, d) /\ Exists(d) => Exists(e)

\* A tree holds the way to each of its nodes.
ClosedTree(t) ==
  \A d \in DOMAIN t : \A e \in Dirs : IsPrefix(e, d) => e \in DOMAIN t

TreeInv == TypeInv /\ FsClosed /\ ClosedTree(tree)

\* A server answers about a path it is asked to monitor.
RequestsAsked ==
  \A s \in Server : request[s] # NoRequest => request[s].path \in Asked[s]

LEMMA BucketParts ==
  ASSUME TypeInv
  PROVE  /\ DOMAIN buckets = 1..Len(buckets) /\ Len(buckets) \in Nat
         /\ \A i \in DOMAIN buckets :
              /\ buckets[i] \in Bucket
              /\ buckets[i].server \in Server /\ buckets[i].path \in Dirs
              /\ buckets[i].mark \in BOOLEAN /\ buckets[i].updated \in BOOLEAN
              /\ buckets[i].told \subseteq Dirs
<1>1. buckets \in Seq(Bucket)
  BY DEF TypeInv
<1>2. \A b \in Bucket :
        /\ b.server \in Server /\ b.path \in Dirs
        /\ b.mark \in BOOLEAN /\ b.updated \in BOOLEAN /\ b.told \subseteq Dirs
  BY DEF Bucket
<1>3. \A i \in DOMAIN buckets : buckets[i] \in Bucket
  BY <1>1
<1>4. QED
  BY <1>1, <1>2, <1>3

LEMMA AskedAreDirs ==
  ASSUME scenario \in Scenarios
  PROVE  \A s \in Server : Asked[s] \subseteq Dirs
BY ScenariosAreKnown DEF Asked

\* What the first scan of a path adds to the tree.
LEMMA FirstScanFacts ==
  ASSUME TreeInv, NEW p \in Dirs
  PROVE  LET t == FirstScan(p)
             ok == FirstScanResult(p) = "ok"
         IN  /\ NodesOK(t) /\ ClosedTree(t)
             /\ DOMAIN tree \subseteq DOMAIN t
             /\ \A d \in DOMAIN tree :
                  /\ t[d].attrs = tree[d].attrs
                  /\ t[d].monitored <=> tree[d].monitored \/ (d = p /\ ok)
             /\ \A d \in DOMAIN t \ DOMAIN tree :
                  /\ Exists(d) /\ t[d].attrs = fs[d]
                  /\ t[d].monitored <=> d = p /\ ok
                  /\ IsPrefix(d, p) \/ (ok /\ IsPrefix(p, d))
             /\ ok => p \in DOMAIN t
<1> DEFINE t == FirstScan(p)
           ok == FirstScanResult(p) = "ok"
           way == {d \in Missing(p) : Exists(d)}
           found == IF ok THEN ScannedBelow(p) ELSE {}
           attrsOf(d) == IF d \in DOMAIN tree THEN tree[d].attrs ELSE fs[d]
           markOf(d) == \/ d = p /\ ok
                        \/ d \in DOMAIN tree /\ tree[d].monitored
<1>1. DOMAIN t = DOMAIN tree \cup way \cup found
  BY DEF FirstScan
<1>13. \A d \in DOMAIN t : t[d] = [attrs |-> attrsOf(d), monitored |-> markOf(d)]
  BY DEF FirstScan
<1>2. /\ \A d \in way : d \in Dirs \ DOMAIN tree /\ IsPrefix(d, p) /\ Exists(d)
      /\ \A d \in Dirs \ DOMAIN tree : IsPrefix(d, p) /\ Exists(d) => d \in way
  BY AncestorsBegin DEF Missing
<1>3. \A d \in found :
        /\ ok /\ d \in Dirs /\ IsPrefix(p, d) /\ Exists(d)
        /\ \A m \in DOMAIN tree : IsStrictPrefix(p, m) /\ IsStrictPrefix(m, d)
                                    => ~tree[m].monitored
        /\ ~AnyMonitored(p)
  BY DEF ScannedBelow, Below, IsStrictPrefix, TreeInv, TypeInv, NodesOK
<1>4. ASSUME NEW d \in found, NEW e \in Dirs, IsStrictPrefix(p, e), IsPrefix(e, d)
      PROVE  e \in found
  <2>1. Exists(e)
    BY <1>3, <1>4 DEF TreeInv, FsClosed
  <2>2. \A m \in DOMAIN tree \cap Below(p) :
          IsStrictPrefix(m, e) => ~tree[m].monitored
    <3> SUFFICES ASSUME NEW m \in DOMAIN tree, m \in Below(p), IsStrictPrefix(m, e)
                 PROVE  ~tree[m].monitored
      BY Zenon
    <3>1. m \in Dirs /\ IsStrictPrefix(p, m) /\ IsPrefix(m, e) /\ m # e /\ d \in Dirs
      BY <1>3 DEF Below, IsStrictPrefix
    <3>2. IsPrefix(m, d) /\ m # d
      BY <1>4, <3>1, PathOrder
    <3>3. QED
      BY <1>3, <3>1, <3>2 DEF IsStrictPrefix
  <2>3. e \in Below(p)
    BY <1>4 DEF Below
  <2>4. QED
    BY <1>3, <2>1, <2>2, <2>3 DEF ScannedBelow
<1>5. ok => \A d \in Missing(p) : Exists(d)
  BY DEF FirstScanResult
<1>6. ok => Ancestors(p) \subseteq DOMAIN t
  BY <1>1, <1>5 DEF Missing
<1> HIDE DEF t, ok, way, found
<1>0. /\ \A d : d \in DOMAIN tree => attrsOf(d) = tree[d].attrs
      /\ \A d : d \notin DOMAIN tree => attrsOf(d) = fs[d]
      /\ \A d : d \in DOMAIN tree => (markOf(d) <=> tree[d].monitored \/ (d = p /\ ok))
      /\ \A d : d \notin DOMAIN tree => (markOf(d) <=> d = p /\ ok)
      /\ \A d : markOf(d) \in BOOLEAN
  BY Zenon
<1> HIDE DEF attrsOf, markOf
<1>7. NodesOK(t)
  <2>1. DOMAIN t \subseteq Dirs
    BY <1>1, <1>2, <1>3 DEF TreeInv, TypeInv, NodesOK
  <2>2. ASSUME NEW d \in DOMAIN t
        PROVE  t[d] \in Node
    <3>1. d \in DOMAIN tree => tree[d].attrs \in Attrs /\ tree[d].monitored \in BOOLEAN
      BY DEF TreeInv, TypeInv, NodesOK, Node
    <3>2. d \notin DOMAIN tree => fs[d] \in Attrs
      <4> SUFFICES ASSUME d \notin DOMAIN tree PROVE fs[d] \in Attrs
        OBVIOUS
      <4>1. d \in way \/ d \in found
        BY <1>1
      <4>2. Exists(d) /\ d \in Dirs
        BY <1>2, <1>3, <4>1
      <4>3. QED
        BY <4>2, Zenon DEF TreeInv, TypeInv, Exists
    <3>3. attrsOf(d) \in Attrs /\ markOf(d) \in BOOLEAN
      BY <1>0, <3>1, <3>2, Zenon
    <3>4. QED
      BY <1>13, <3>3 DEF Node
  <2>3. QED
    BY <2>1, <2>2 DEF NodesOK
<1>8. ClosedTree(t)
  <2> SUFFICES ASSUME NEW d \in DOMAIN t, NEW e \in Dirs, IsPrefix(e, d)
               PROVE  e \in DOMAIN t
    BY DEF ClosedTree
  <2>1. CASE d \in DOMAIN tree
    BY <1>1, <2>1 DEF TreeInv, ClosedTree
  <2>2. CASE d \in way
    <3>1. IsPrefix(e, p) /\ Exists(e)
      BY <1>2, <2>2, PathOrder DEF TreeInv, FsClosed
    <3>2. QED
      BY <1>1, <1>2, <3>1
  <2>3. CASE d \in found
    <3>1. IsPrefix(e, p) \/ IsPrefix(p, e)
      BY <1>3, <2>3, PathOrder
    <3>2. CASE IsPrefix(e, p)
      BY <1>3, <1>6, <2>3, <3>2, AncestorsBegin
    <3>3. CASE IsPrefix(p, e) /\ e # p
      BY <1>1, <1>4, <2>3, <3>3 DEF IsStrictPrefix
    <3>4. QED
      BY <3>1, <3>2, <3>3, PathOrder
  <2>4. QED
    BY <1>1, <2>1, <2>2, <2>3
<1>9. ok => p \in DOMAIN t
  BY <1>6, AncestorsBegin, PathOrder
<1>10. ASSUME NEW d \in DOMAIN tree
       PROVE  /\ t[d].attrs = tree[d].attrs
              /\ t[d].monitored <=> tree[d].monitored \/ (d = p /\ ok)
  <2>1. t[d].attrs = attrsOf(d) /\ t[d].monitored = markOf(d)
    <3>1. d \in DOMAIN t
      BY <1>1
    <3>2. QED
      BY <1>13, <3>1
  <2>2. QED
    BY <1>0, <2>1, Zenon
<1>11. ASSUME NEW d \in DOMAIN t \ DOMAIN tree
       PROVE  /\ Exists(d) /\ t[d].attrs = fs[d]
              /\ t[d].monitored <=> d = p /\ ok
              /\ IsPrefix(d, p) \/ (ok /\ IsPrefix(p, d))
  <2>1. d \in way \/ d \in found
    BY <1>1
  <2>2. Exists(d) /\ (IsPrefix(d, p) \/ (ok /\ IsPrefix(p, d)))
    BY <1>2, <1>3, <2>1
  <2>3. t[d].attrs = attrsOf(d) /\ t[d].monitored = markOf(d)
    BY <1>13
  <2>4. QED
    BY <1>0, <2>2, <2>3, Zenon
<1>12. QED
  BY <1>1, <1>7, <1>8, <1>9, <1>10, <1>11 DEF t, ok

LEMMA UnmarkFacts ==
  ASSUME NEW t, NodesOK(t), NEW P
  PROVE  LET u == Unmark(t, P)
         IN  /\ DOMAIN u = DOMAIN t /\ NodesOK(u)
             /\ \A d \in DOMAIN t :
                  /\ u[d].attrs = t[d].attrs
                  /\ u[d].monitored <=> t[d].monitored /\ d \notin P
<1> DEFINE u == Unmark(t, P)
<1>1. DOMAIN u = DOMAIN t
  BY DEF Unmark
<1> HIDE DEF u
<1>2. ASSUME NEW d \in DOMAIN t
      PROVE  /\ u[d] \in Node
             /\ u[d].attrs = t[d].attrs
             /\ u[d].monitored <=> t[d].monitored /\ d \notin P
  <2>1. PICK a \in Attrs, m \in BOOLEAN : t[d] = [attrs |-> a, monitored |-> m]
    BY DEF NodesOK, Node
  <2>2. PICK n \in BOOLEAN : n <=> m /\ d \notin P
    OBVIOUS
  <2>3. u[d] = [attrs |-> a, monitored |-> n]
    BY <2>1, <2>2 DEF Unmark, u
  <2>4. u[d] \in Node /\ u[d].attrs = t[d].attrs
    BY <2>1, <2>3 DEF Node
  <2>5. u[d].monitored = n /\ t[d].monitored = m
    BY <2>1, <2>3
  <2>6. QED
    BY <2>2, <2>4, <2>5, Zenon
<1>3. NodesOK(u)
  BY <1>1, <1>2 DEF NodesOK
<1>4. QED
  BY <1>1, <1>2, <1>3 DEF u

\* What a scan makes of the tree.
LEMMA ScannedTreeFacts ==
  ASSUME TreeInv
  PROVE  LET t == ScannedTree
         IN  /\ NodesOK(t) /\ ClosedTree(t)
             /\ DOMAIN t = (DOMAIN tree \ Vanished) \cup Created
             /\ \A d \in DOMAIN t : Exists(d)
             /\ \A d \in DOMAIN t :
                  /\ d \in DOMAIN tree => (t[d].monitored <=> tree[d].monitored)
                  /\ d \notin DOMAIN tree => ~t[d].monitored
                  /\ t[d].attrs = fs[d] \/ (d \in DOMAIN tree /\ t[d].attrs = tree[d].attrs)
<1> DEFINE t == ScannedTree
           attrsOf(d) == IF d \in Changed \cup Created THEN fs[d] ELSE tree[d].attrs
           markOf(d) == d \in DOMAIN tree /\ tree[d].monitored
<1>1. DOMAIN t = (DOMAIN tree \ Vanished) \cup Created
  BY DEF ScannedTree
<1>8. \A d \in DOMAIN t : t[d] = [attrs |-> attrsOf(d), monitored |-> markOf(d)]
  BY DEF ScannedTree
<1>2. /\ \A d : attrsOf(d) = fs[d] \/ (d \notin Created /\ attrsOf(d) = tree[d].attrs)
      /\ \A d \in DOMAIN tree : markOf(d) <=> tree[d].monitored
      /\ \A d : d \notin DOMAIN tree => ~markOf(d)
      /\ \A d : markOf(d) \in BOOLEAN
  BY Zenon
<1> HIDE DEF attrsOf, markOf, t
<1>3. \A d \in DOMAIN t : d \in Dirs /\ Exists(d)
  BY <1>1 DEF Created, Vanished, TreeInv, TypeInv, NodesOK
<1>4. ASSUME NEW d \in DOMAIN t
      PROVE  /\ t[d] \in Node
             /\ d \in DOMAIN tree => (t[d].monitored <=> tree[d].monitored)
             /\ d \notin DOMAIN tree => ~t[d].monitored
             /\ t[d].attrs = fs[d] \/ (d \in DOMAIN tree /\ t[d].attrs = tree[d].attrs)
  <2>1. t[d].attrs = attrsOf(d) /\ t[d].monitored = markOf(d)
    BY <1>8
  <2>2. fs[d] \in Attrs
    BY <1>3, Zenon DEF TreeInv, TypeInv, Exists
  <2>3. d \in Created \/ (d \in DOMAIN tree /\ tree[d].attrs \in Attrs)
    BY <1>1 DEF TreeInv, TypeInv, NodesOK, Node
  <2>4. attrsOf(d) \in Attrs /\ markOf(d) \in BOOLEAN
    BY <1>2, <2>2, <2>3, Zenon
  <2>5. t[d] \in Node
    BY <1>8, <2>4 DEF Node
  <2>6. /\ d \in DOMAIN tree => (t[d].monitored <=> tree[d].monitored)
        /\ d \notin DOMAIN tree => ~t[d].monitored
        /\ t[d].attrs = fs[d] \/ (d \in DOMAIN tree /\ t[d].attrs = tree[d].attrs)
    BY <1>2, <2>1, <2>3, Zenon
  <2>7. QED
    BY <2>5, <2>6
<1>5. ClosedTree(t)
  <2> SUFFICES ASSUME NEW d \in DOMAIN t, NEW e \in Dirs, IsPrefix(e, d)
               PROVE  e \in DOMAIN t
    BY DEF ClosedTree
  <2>1. d \in Dirs /\ Exists(e)
    BY <1>3 DEF TreeInv, FsClosed
  <2>2. CASE e \in DOMAIN tree
    BY <1>1, <2>1, <2>2 DEF Vanished
  <2>3. CASE e \notin DOMAIN tree
    <3>1. d \in Created
      BY <1>1, <2>3 DEF TreeInv, ClosedTree
    <3>2. PICK m \in DOMAIN tree : IsStrictPrefix(m, d) /\ tree[m].monitored
      BY <3>1 DEF Created, Scanned
    <3>3. m \in Dirs /\ IsPrefix(m, d)
      BY <3>2 DEF TreeInv, TypeInv, NodesOK, IsStrictPrefix
    <3>4. ~IsPrefix(e, m)
      BY <2>3, <3>3 DEF TreeInv, ClosedTree
    <3>5. IsStrictPrefix(m, e)
      BY <2>1, <3>3, <3>4, PathOrder DEF IsStrictPrefix
    <3>6. QED
      BY <1>1, <2>1, <2>3, <3>2, <3>5 DEF Created, Scanned
  <2>4. QED
    BY <2>2, <2>3
<1>6. NodesOK(t)
  BY <1>3, <1>4 DEF NodesOK
<1>7. QED
  BY <1>1, <1>3, <1>4, <1>5, <1>6 DEF t

\* What is left when the tree is cleaned.
LEMMA CleanFacts ==
  ASSUME NEW t, NodesOK(t), ClosedTree(t)
  PROVE  LET u == Clean(t)
         IN  /\ NodesOK(u) /\ ClosedTree(u)
             /\ DOMAIN u \subseteq DOMAIN t
             /\ \A d \in DOMAIN u : u[d] = t[d]
             /\ \A d \in DOMAIN t : t[d].monitored => d \in DOMAIN u
             /\ \A d \in DOMAIN u : \E m \in DOMAIN u :
                  u[m].monitored /\ (IsPrefix(m, d) \/ IsPrefix(d, m))
<1> DEFINE u == Clean(t)
<1>1. /\ \A d : d \in DOMAIN u <=>
           /\ d \in DOMAIN t
           /\ \E m \in DOMAIN t : t[m].monitored /\ (IsPrefix(m, d) \/ IsPrefix(d, m))
      /\ \A d \in DOMAIN u : u[d] = t[d]
  BY DEF Clean
<1>2. DOMAIN t \subseteq Dirs
  BY DEF NodesOK
<1> HIDE DEF u
<1>3. NodesOK(u)
  BY <1>1 DEF NodesOK
<1>4. \A d \in DOMAIN t : t[d].monitored => d \in DOMAIN u
  BY <1>1, <1>2, PathOrder
<1>5. ClosedTree(u)
  <2> SUFFICES ASSUME NEW d \in DOMAIN u, NEW e \in Dirs, IsPrefix(e, d)
               PROVE  e \in DOMAIN u
    BY DEF ClosedTree
  <2>1. d \in DOMAIN t /\ d \in Dirs /\ e \in DOMAIN t
    BY <1>1, <1>2 DEF ClosedTree
  <2>2. PICK m \in DOMAIN t : t[m].monitored /\ (IsPrefix(m, d) \/ IsPrefix(d, m))
    BY <1>1
  <2>3. IsPrefix(m, e) \/ IsPrefix(e, m)
    BY <1>2, <2>1, <2>2, PathOrder
  <2>4. QED
    BY <1>1, <2>1, <2>2, <2>3
<1>6. \A d \in DOMAIN u : \E m \in DOMAIN u :
        u[m].monitored /\ (IsPrefix(m, d) \/ IsPrefix(d, m))
  BY <1>1, <1>4
<1>7. QED
  BY <1>1, <1>3, <1>4, <1>5, <1>6 DEF u

-----------------------------------------------------------------------------
(* What the steps make of the list of buckets.                             *)

\* The positions of the buckets of s for directories below p.
InnerAt(s, p) == {i \in Own(s) : IsStrictPrefix(p, buckets[i].path)}

\* The inner buckets in list order.
LEMMA InnerFacts ==
  ASSUME TypeInv, NEW s, NEW p
  PROVE  LET inner == Inner(s, p)
         IN  /\ inner = <<>> <=> InnerAt(s, p) = {}
             /\ inner # <<>> =>
                  /\ inner[1] \in InnerAt(s, p)
                  /\ \A i \in InnerAt(s, p) : inner[1] <= i
                  /\ Range(Tail(inner)) = InnerAt(s, p) \ {inner[1]}
             /\ \A l \in 1..Len(inner) : inner[l] \in InnerAt(s, p)
             /\ \A i \in InnerAt(s, p) : \E l \in 1..Len(inner) : inner[l] = i
<1> DEFINE I == InnerAt(s, p)
           inner == Inner(s, p)
<1>1. PICK N \in Nat : N = Len(buckets) /\ DOMAIN buckets = 1..N
  BY DEF TypeInv
<1>2. I \subseteq 1..N
  BY <1>1 DEF InnerAt, Own
<1>3. inner = Ascending(I)
  BY DEF Inner, InnerAt
<1> HIDE DEF I, inner
<1>4. PICK C \in Nat :
        /\ inner \in [1..C -> I]
        /\ \A m, n \in 1..C : m < n => inner[m] < inner[n]
        /\ \A i \in I : \E n \in 1..C : inner[n] = i
  <2>1. /\ Cardinality(I) \in Nat
        /\ Ascending(I) \in [1..Cardinality(I) -> I]
        /\ \A m, n \in 1..Cardinality(I) : m < n => Ascending(I)[m] < Ascending(I)[n]
        /\ \A i \in I : \E n \in 1..Cardinality(I) : Ascending(I)[n] = i
    BY <1>2, AscendingFacts, Zenon
  <2>2. QED
    BY <1>3, <2>1, Zenon
<1>5. inner \in Seq(I) /\ Len(inner) = C
  BY <1>4
<1>6. inner = <<>> <=> I = {}
  <2>1. inner = <<>> <=> C = 0
    BY <1>5
  <2>2. C = 0 => I = {}
    BY <1>4
  <2>3. C # 0 => 1 \in 1..C
    OBVIOUS
  <2>4. QED
    BY <1>4, <2>1, <2>2, <2>3
<1>7. ASSUME inner # <<>>
      PROVE  /\ inner[1] \in I
             /\ \A i \in I : inner[1] <= i
             /\ Range(Tail(inner)) = I \ {inner[1]}
  <2>1. C # 0
    BY <1>5, <1>7
  <2>2. 1 \in 1..C /\ \A n \in 1..C : n = 1 \/ 1 < n
    BY <2>1
  <2>3. \A i \in I : i \in Nat
    BY <1>2
  <2>4. \A n \in 1..C : n # 1 => inner[1] < inner[n] /\ inner[n] # inner[1]
    <3>1. \A n \in 1..C : inner[n] \in Nat
      BY <1>4, <2>3
    <3>2. QED
      BY <1>4, <2>2, <3>1
  <2>5. /\ DOMAIN Tail(inner) = 1..C - 1
        /\ \A n \in 1..C - 1 : Tail(inner)[n] = inner[n + 1] /\ n + 1 \in 1..C
    BY <1>5, <2>1
  <2>6. \A n \in 1..C : n # 1 => n - 1 \in 1..C - 1 /\ Tail(inner)[n - 1] = inner[n]
    BY <2>5
  <2>7. \A i \in I : inner[1] <= i
    <3> SUFFICES ASSUME NEW i \in I PROVE inner[1] <= i
      OBVIOUS
    <3>1. PICK n \in 1..C : inner[n] = i
      BY <1>4
    <3>2. QED
      BY <2>2, <2>3, <2>4, <3>1, <1>4
  <2>8. ASSUME NEW i \in Range(Tail(inner))
        PROVE  i \in I \ {inner[1]}
    <3>1. PICK n \in 1..C - 1 : i = inner[n + 1] /\ n + 1 \in 1..C
      BY <2>5 DEF Range
    <3>2. n + 1 # 1
      BY <2>1
    <3>3. QED
      BY <1>4, <2>4, <3>1, <3>2
  <2>9. ASSUME NEW i \in I \ {inner[1]}
        PROVE  i \in Range(Tail(inner))
    <3>1. PICK n \in 1..C : inner[n] = i
      BY <1>4
    <3>2. QED
      BY <2>5, <2>6, <3>1 DEF Range
  <2>10. QED
    BY <1>4, <2>2, <2>7, <2>8, <2>9
<1>8. QED
  BY <1>4, <1>5, <1>6, <1>7 DEF I, inner

\* A bucket that is marked, and updated, is a bucket.
LEMMA BucketDropped ==
  ASSUME NEW b \in Bucket, NEW c, c = [b EXCEPT !.mark = TRUE, !.updated = TRUE]
  PROVE  /\ c \in Bucket /\ c.server = b.server /\ c.path = b.path
         /\ c.mark = TRUE /\ c.updated = TRUE /\ c.told = b.told
BY DEF Bucket

\* A bucket that is marked is a bucket.
LEMMA BucketMarked ==
  ASSUME NEW b \in Bucket, NEW c, c = [b EXCEPT !.mark = TRUE]
  PROVE  /\ c \in Bucket /\ c.server = b.server /\ c.path = b.path
         /\ c.mark = TRUE /\ c.updated = b.updated /\ c.told = b.told
BY DEF Bucket

\* A bucket that is told of directories is a bucket.
LEMMA BucketTold ==
  ASSUME NEW b \in Bucket, NEW c,
         NEW T, T \subseteq Dirs, c = [b EXCEPT !.told = T]
  PROVE  /\ c \in Bucket /\ c.server = b.server /\ c.path = b.path
         /\ c.mark = b.mark /\ c.updated = b.updated /\ c.told = T
BY DEF Bucket

\* A new bucket.
LEMMA NewBucketFacts ==
  ASSUME NEW s \in Server, NEW p \in Dirs, NEW t, NodesOK(t), NEW g \in BOOLEAN
  PROVE  LET b == NewBucket(s, p, t, g)
         IN  /\ b \in Bucket /\ b.server = s /\ b.path = p /\ b.mark = FALSE
             /\ b.updated = g /\ b.told = DOMAIN t \cap Below(p)
BY DEF NewBucket, Bucket, NodesOK

\* c is the list buckets with the bucket b at its end.
Appended(c, b) ==
  /\ c \in Seq(Bucket)
  /\ Len(c) = Len(buckets) + 1 /\ DOMAIN c = 1..Len(buckets) + 1
  /\ \A i \in DOMAIN buckets : i \in DOMAIN c /\ c[i] = buckets[i]
  /\ \A i \in DOMAIN c : i \in DOMAIN buckets \/ i = Len(buckets) + 1
  /\ \A i \in DOMAIN buckets : i < Len(buckets) + 1
  /\ c[Len(buckets) + 1] = b /\ b \in Bucket
  /\ Len(buckets) + 1 \in DOMAIN c \ DOMAIN buckets

LEMMA AppendFacts ==
  ASSUME TypeInv, NEW b \in Bucket
  PROVE  Appended(Append(buckets, b), b)
<1>1. buckets \in Seq(Bucket) /\ DOMAIN buckets = 1..Len(buckets) /\ Len(buckets) \in Nat
  BY DEF TypeInv
<1>2. QED
  BY <1>1 DEF Appended

\* c is the list buckets where the bucket at k has been widened to p and those
\* at the other places of I are to be dropped.
Widened(c, I, k, p, t) ==
  /\ c \in Seq(Bucket) /\ Len(c) = Len(buckets) /\ DOMAIN c = DOMAIN buckets
  /\ \A i \in DOMAIN buckets : c[i].server = buckets[i].server
  /\ c[k].path = p /\ c[k].mark = buckets[k].mark /\ c[k].updated = buckets[k].updated
  /\ c[k].told = DOMAIN t \cap Below(p)
  /\ \A i \in I \ {k} : /\ c[i].path = buckets[i].path
                        /\ c[i].mark = TRUE /\ c[i].updated = TRUE
  /\ \A i \in DOMAIN buckets \ I : c[i] = buckets[i]

LEMMA WidenFacts ==
  ASSUME TypeInv, NEW s \in Server, NEW p \in Dirs, NEW t, NodesOK(t),
         Inner(s, p) # <<>>
  PROVE  LET k == Inner(s, p)[1]
             I == InnerAt(s, p)
         IN  /\ k \in I /\ I \subseteq Own(s) /\ \A i \in I : k <= i
             /\ Widened(Widen(Inner(s, p), p, t), I, k, p, t)
<1> DEFINE k == Inner(s, p)[1]
           I == InnerAt(s, p)
           c == Widen(Inner(s, p), p, t)
<1>1. k \in I /\ I \subseteq Own(s) /\ \A i \in I : k <= i
  BY InnerFacts DEF InnerAt
<1>2. Range(Tail(Inner(s, p))) = I \ {k}
  BY InnerFacts
<1>3. DOMAIN c = DOMAIN buckets
  BY DEF Widen
<1>4. \A i \in DOMAIN buckets :
        c[i] = IF i = k THEN [buckets[i] EXCEPT !.path = p,
                                                !.told = DOMAIN t \cap Below(p)]
               ELSE IF i \in I \ {k}
               THEN [buckets[i] EXCEPT !.mark = TRUE, !.updated = TRUE]
               ELSE buckets[i]
  BY <1>2 DEF Widen
<1>5. /\ buckets \in Seq(Bucket) /\ DOMAIN buckets = 1..Len(buckets)
      /\ Len(buckets) \in Nat
      /\ \A i \in DOMAIN buckets : buckets[i] \in Bucket
  BY DEF TypeInv
<1>6. I \subseteq DOMAIN buckets
  BY <1>1 DEF Own
<1>7. DOMAIN t \cap Below(p) \subseteq Dirs
  BY DEF Below
<1> HIDE DEF k, I, c
<1>8. /\ c[k] \in Bucket /\ c[k].server = buckets[k].server
      /\ c[k].path = p /\ c[k].mark = buckets[k].mark
      /\ c[k].updated = buckets[k].updated /\ c[k].told = DOMAIN t \cap Below(p)
  <2>1. c[k] = [buckets[k] EXCEPT !.path = p, !.told = DOMAIN t \cap Below(p)]
    BY <1>1, <1>4, <1>6
  <2>2. buckets[k] \in Bucket
    BY <1>1, <1>5, <1>6
  <2>3. PICK T : T = DOMAIN t \cap Below(p)
    OBVIOUS
  <2>4. c[k] = [buckets[k] EXCEPT !.path = p, !.told = T] /\ T \subseteq Dirs
    BY <1>7, <2>1, <2>3
  <2>5. /\ c[k] \in Bucket /\ c[k].server = buckets[k].server
        /\ c[k].path = p /\ c[k].mark = buckets[k].mark
        /\ c[k].updated = buckets[k].updated /\ c[k].told = T
    <3>1. PICK b \in Bucket : b = buckets[k]
      BY <2>2
    <3>2. PICK d : d = [b EXCEPT !.path = p, !.told = T]
      OBVIOUS
    <3>3. /\ d \in Bucket /\ d.server = b.server /\ d.path = p
          /\ d.mark = b.mark /\ d.updated = b.updated /\ d.told = T
      BY <2>4, <3>2 DEF Bucket
    <3>4. c[k] = d
      BY <2>4, <3>1, <3>2, Zenon
    <3>5. QED
      BY <3>1, <3>3, <3>4
  <2>6. QED
    BY <2>3, <2>5
<1>9. ASSUME NEW i \in I \ {k}
      PROVE  /\ c[i] \in Bucket /\ c[i].server = buckets[i].server
             /\ c[i].path = buckets[i].path
             /\ c[i].mark = TRUE /\ c[i].updated = TRUE
  <2>1. c[i] = [buckets[i] EXCEPT !.mark = TRUE, !.updated = TRUE]
    BY <1>4, <1>6
  <2>2. buckets[i] \in Bucket
    BY <1>5, <1>6
  <2>3. QED
    BY <2>1, <2>2, BucketDropped, Zenon
<1>10. \A i \in DOMAIN buckets \ I : c[i] = buckets[i]
  BY <1>1, <1>4
<1>11. \A i \in DOMAIN buckets : c[i] \in Bucket /\ c[i].server = buckets[i].server
  BY <1>5, <1>8, <1>9, <1>10
<1>12. c \in Seq(Bucket) /\ Len(c) = Len(buckets)
  <2>1. c = [i \in DOMAIN buckets |-> c[i]]
    BY DEF c, Widen
  <2>2. c \in [1..Len(buckets) -> Bucket]
    BY <1>5, <1>11, <2>1
  <2>3. QED
    BY <1>5, <2>2
<1>13. Widened(c, I, k, p, t)
  BY <1>3, <1>8, <1>9, <1>10, <1>11, <1>12 DEF Widened
<1>14. QED
  BY <1>1, <1>13 DEF k, I, c

\* Updated a bucket keeps its server and its path, and a mark stays.
LEMMA NotifyFacts ==
  ASSUME NEW b \in Bucket
  PROVE  LET c == Notify(b)
         IN  /\ c \in Bucket /\ c.server = b.server /\ c.path = b.path
             /\ c.updated = b.updated
             /\ b.mark => c = b
             /\ c.mark <=> \/ b.mark
                           \/ \E r \in VanishedTop \cup Changed \cup Created :
                                IsPrefix(r, b.path)
             /\ ~c.mark =>
                  c.told = {d \in b.told \cup (Created \cap Below(b.path)) :
                              \A r \in VanishedTop : ~IsPrefix(r, d)}
<1> DEFINE hit == \E r \in VanishedTop \cup Changed \cup Created : IsPrefix(r, b.path)
           told == {d \in b.told \cup (Created \cap Below(b.path)) :
                      \A r \in VanishedTop : ~IsPrefix(r, d)}
<1>1. told \subseteq Dirs /\ b.mark \in BOOLEAN
  BY DEF Bucket, Below
<1>2. CASE b.mark
  BY <1>1, <1>2 DEF Notify
<1>3. CASE ~b.mark /\ hit
  <2>1. Notify(b) = [b EXCEPT !.mark = TRUE]
    BY <1>3 DEF Notify
  <2> DEFINE c == Notify(b)
  <2> HIDE DEF c, hit, told
  <2>2. /\ c \in Bucket /\ c.server = b.server /\ c.path = b.path
        /\ c.mark = TRUE /\ c.updated = b.updated
    BY <2>1, BucketMarked, Zenon DEF c
  <2>3. QED
    BY <1>3, <2>2, Zenon DEF c, hit
<1>4. CASE ~b.mark /\ ~hit
  <2> DEFINE c == Notify(b)
  <2>1. c = [b EXCEPT !.told = told]
    BY <1>4 DEF Notify
  <2> HIDE DEF told, c, hit
  <2>2. /\ c \in Bucket /\ c.server = b.server /\ c.path = b.path
        /\ c.mark = b.mark /\ c.updated = b.updated /\ c.told = told
    BY <1>1, <2>1, BucketTold
  <2>3. QED
    BY <1>4, <2>2, Zenon DEF told, hit, c
<1>5. QED
  BY <1>2, <1>3, <1>4

\* What is left of the list of buckets is in the order it was in.
LEMMA KeptBuckets ==
  ASSUME TypeInv, NEW I, I \subseteq DOMAIN buckets
  PROVE  LET c == Keep(buckets, I)
         IN  /\ c \in Seq(Bucket)
             /\ DOMAIN c = 1..Len(c)
             /\ \E e \in [DOMAIN c -> I] :
                  /\ \A m, n \in DOMAIN c : m < n => e[m] < e[n]
                  /\ \A i \in I : \E m \in DOMAIN c : e[m] = i
                  /\ \A m \in DOMAIN c : c[m] = buckets[e[m]]
<1>1. buckets \in Seq(Bucket)
  BY DEF TypeInv
<1> DEFINE c == Keep(buckets, I)
<1>2. /\ c \in Seq(Bucket) /\ DOMAIN c = 1..Cardinality(I) /\ DOMAIN c = 1..Len(c)
      /\ \E e : /\ Embeds(e, Cardinality(I), I)
                /\ \A m \in 1..Cardinality(I) : c[m] = buckets[e[m]]
  BY <1>1, KeepFacts
<1> HIDE DEF c
<1>3. PICK e : /\ Embeds(e, Cardinality(I), I)
               /\ \A m \in 1..Cardinality(I) : c[m] = buckets[e[m]]
  BY <1>2, Zenon
<1>4. /\ e \in [DOMAIN c -> I]
      /\ \A m, n \in DOMAIN c : m < n => e[m] < e[n]
      /\ \A i \in I : \E m \in DOMAIN c : e[m] = i
      /\ \A m \in DOMAIN c : c[m] = buckets[e[m]]
  BY <1>2, <1>3, Zenon DEF Embeds
<1>5. QED
  BY <1>2, <1>4, Zenon DEF c

-----------------------------------------------------------------------------
(* Types are kept, and the tree stays connected.                           *)

LEMMA AnswerKeepsTypes ==
  ASSUME TypeInv, NEW s \in Server, NEW p \in Dirs, NEW r \in Result,
         Answer(s, p, r), NodesOK(tree'), buckets' \in Seq(Bucket)
  PROVE  TypeInv'
<1>1. UNCHANGED <<scenario, fs, phase, serverPaths, deleted>>
  BY DEF Answer
<1>2. request' \in [Server -> [path : Dirs \cup {<<>>}, result : Result]]
  <2>1. [path |-> p, result |-> r] \in [path : Dirs \cup {<<>>}, result : Result]
    OBVIOUS
  <2>2. request' = [request EXCEPT ![s] = [path |-> p, result |-> r]]
    BY DEF Answer
  <2>3. QED
    BY <2>1, <2>2 DEF TypeInv
<1>3. QED
  BY <1>1, <1>2 DEF TypeInv, NodesOK

\* The tree does not change when nothing does that the scans look at.
LEMMA SameShape ==
  ASSUME TreeInv, TypeInv', UNCHANGED fs, ClosedTree(tree')
  PROVE  TreeInv'
BY DEF TreeInv, FsClosed, Exists, ClosedTree

LEMMA RegisterFailsTree ==
  ASSUME TreeInv, NEW s \in Server, NEW p \in Dirs, RegisterFails(s, p)
  PROVE  TreeInv'
<1>1. NodesOK(tree') /\ ClosedTree(tree')
  BY FirstScanFacts DEF RegisterFails
<1>2. FirstScanResult(p) \in Result
  <2>1. FirstScanResult(p) \in {"inaccessible", "ok", "error"} /\ FirstScanResult(p) # "ok"
    BY DEF RegisterFails, FirstScanResult
  <2>2. QED
    BY <2>1 DEF Result
<1>3. buckets' \in Seq(Bucket)
  BY DEF RegisterFails, TreeInv, TypeInv
<1>4. TypeInv'
  BY <1>1, <1>2, <1>3, AnswerKeepsTypes DEF RegisterFails, TreeInv
<1>5. QED
  BY <1>1, <1>4, SameShape DEF RegisterFails, Answer

LEMMA RegisterNewTree ==
  ASSUME TreeInv, NEW s \in Server, NEW p \in Dirs, RegisterNew(s, p)
  PROVE  /\ TreeInv'
         /\ \E g \in BOOLEAN :
              /\ "garbage" \notin World => g = FALSE
              /\ Appended(buckets', NewBucket(s, p, tree', g))
<1>1. NodesOK(tree') /\ ClosedTree(tree')
  BY FirstScanFacts DEF RegisterNew
<1>2. PICK g \in Garbage : buckets' = Append(buckets, NewBucket(s, p, tree', g))
  BY DEF RegisterNew
<1>3. g \in BOOLEAN /\ ("garbage" \notin World => g = FALSE)
  BY DEF Garbage
<1>4. NewBucket(s, p, tree', g) \in Bucket
  BY <1>1, <1>3, NewBucketFacts
<1>5. Appended(buckets', NewBucket(s, p, tree', g))
  BY <1>2, <1>4, AppendFacts DEF TreeInv
<1>6. TypeInv'
  BY <1>1, <1>5, AnswerKeepsTypes DEF RegisterNew, TreeInv, Appended, Result
<1>7. QED
  BY <1>1, <1>3, <1>5, <1>6, SameShape DEF RegisterNew, Answer

LEMMA RegisterWiderTree ==
  ASSUME TreeInv, NEW s \in Server, NEW p \in Dirs, RegisterWider(s, p)
  PROVE  LET k == Inner(s, p)[1]
             I == InnerAt(s, p)
         IN  /\ TreeInv'
             /\ k \in I /\ I \subseteq Own(s) /\ \A i \in I : k <= i
             /\ Widened(buckets', I, k, p, tree')
<1> DEFINE k == Inner(s, p)[1]
           I == InnerAt(s, p)
           t == FirstScan(p)
<1>1. NodesOK(t) /\ ClosedTree(t)
  BY FirstScanFacts
<1>2. tree' = Unmark(t, Unshared(Inner(s, p)))
  BY DEF RegisterWider
<1> HIDE DEF t
<1>3. NodesOK(tree') /\ DOMAIN tree' = DOMAIN t
  BY <1>1, <1>2, UnmarkFacts
<1>4. ClosedTree(tree')
  BY <1>1, <1>3 DEF ClosedTree
<1>5. /\ k \in I /\ I \subseteq Own(s) /\ \A i \in I : k <= i
      /\ Widened(Widen(Inner(s, p), p, tree'), I, k, p, tree')
  BY <1>3, WidenFacts DEF RegisterWider, TreeInv
<1>6. Widened(buckets', I, k, p, tree')
  BY <1>5 DEF RegisterWider
<1>7. TypeInv'
  BY <1>3, <1>6, AnswerKeepsTypes DEF RegisterWider, TreeInv, Widened, Result
<1>8. TreeInv'
  BY <1>4, <1>7, SameShape DEF RegisterWider, Answer
<1>9. QED
  BY <1>5, <1>6, <1>8

LEMMA AlreadyTree ==
  ASSUME TreeInv, NEW s \in Server, NEW p \in Dirs,
         Answer(s, p, "already"), UNCHANGED mappingVars
  PROVE  TreeInv'
<1>1. TypeInv'
  BY AnswerKeepsTypes DEF TreeInv, TypeInv, mappingVars, Result, NodesOK
<1>2. QED
  BY <1>1, SameShape DEF TreeInv, mappingVars, Answer, ClosedTree

LEMMA AcceptTree ==
  ASSUME TreeInv, RequestsAsked, NEW s \in Server, Accept(s)
  PROVE  TreeInv'
<1> DEFINE p == request[s].path
           list == serverPaths[s]
           I == {i \in DOMAIN list : ~StringPrefix(p, list[i])}
           others == Keep(list, I)
<1>1. list \in Seq(Dirs) /\ I \subseteq DOMAIN list
  BY DEF TreeInv, TypeInv
<1> HIDE DEF I
<1>2. others \in Seq(Dirs)
  BY <1>1, KeepFacts
<1>3. NoRequest \in [path : Dirs \cup {<<>>}, result : Result]
  BY DEF NoRequest, Result
<1>4. request' \in [Server -> [path : Dirs \cup {<<>>}, result : Result]]
  BY <1>3 DEF Accept, TreeInv, TypeInv
<1>5. p \in Dirs
  <2>1. request[s] # NoRequest
    BY DEF Accept, NoRequest
  <2>2. QED
    BY <2>1, AskedAreDirs DEF RequestsAsked, TreeInv, TypeInv
<1>6. serverPaths' \in [Server -> Seq(Dirs)]
  <2>1. PICK l : /\ serverPaths' = [serverPaths EXCEPT ![s] = l]
                 /\ l \in {Append(list, p), Append(others, p), list}
    BY DEF Accept, I
  <2>2. \A m \in Seq(Dirs) : Append(m, p) \in Seq(Dirs)
    BY <1>5
  <2>3. l \in Seq(Dirs)
    BY <1>1, <1>2, <2>1, <2>2, Zenon
  <2>4. QED
    BY <2>1, <2>3 DEF TreeInv, TypeInv
<1>7. TypeInv'
  BY <1>4, <1>6 DEF Accept, TreeInv, TypeInv, mappingVars, NodesOK
<1>8. QED
  BY <1>7, SameShape DEF TreeInv, mappingVars, Accept, ClosedTree

LEMMA UpdateTree ==
  ASSUME TreeInv, Update
  PROVE  /\ TreeInv'
         /\ Len(buckets') = Len(buckets) /\ DOMAIN buckets' = DOMAIN buckets
         /\ \A i \in DOMAIN buckets : /\ buckets[i] \in Bucket
                                      /\ buckets'[i] = Notify(buckets[i])
<1>1. NodesOK(tree') /\ ClosedTree(tree')
  BY ScannedTreeFacts DEF Update
<1>2. /\ DOMAIN buckets = 1..Len(buckets) /\ Len(buckets) \in Nat
      /\ \A i \in DOMAIN buckets : buckets[i] \in Bucket
  BY DEF TreeInv, TypeInv
<1>3. /\ buckets' = [i \in 1..Len(buckets) |-> Notify(buckets[i])]
      /\ \A i \in DOMAIN buckets : Notify(buckets[i]) \in Bucket
  BY <1>2, NotifyFacts DEF Update
<1>4. buckets' \in Seq(Bucket) /\ Len(buckets') = Len(buckets)
  BY <1>2, <1>3
<1>5. TypeInv'
  BY <1>1, <1>4 DEF Update, serverVars, TreeInv, TypeInv, NodesOK
<1>6. TreeInv'
  BY <1>1, <1>5, SameShape DEF Update
<1>7. QED
  BY <1>2, <1>3, <1>6

LEMMA ReadTree ==
  ASSUME TreeInv, NEW s \in Server, ReadNotifications(s)
  PROVE  TreeInv'
<1>1. StaysAfterRead(s) \subseteq DOMAIN buckets
  BY DEF StaysAfterRead
<1>2. buckets' \in Seq(Bucket)
  BY <1>1, KeptBuckets DEF ReadNotifications, TreeInv
<1>3. {buckets[i].path : i \in {j \in Own(s) : buckets[j].mark /\ ~buckets[j].updated}}
         \in SUBSET Dirs
  <2>1. \A i \in DOMAIN buckets : buckets[i].path \in Dirs
    BY BucketParts DEF TreeInv
  <2>2. QED
    BY <2>1 DEF Own
<1>4. deleted' \in [Server -> SUBSET Dirs]
  BY <1>3 DEF ReadNotifications, TreeInv, TypeInv
<1>5. TypeInv'
  BY <1>2, <1>4 DEF ReadNotifications, TreeInv, TypeInv, NodesOK
<1>6. QED
  BY <1>5, SameShape DEF ReadNotifications, TreeInv, ClosedTree

LEMMA PruneTree ==
  ASSUME TreeInv, NEW s \in Server, Prune(s)
  PROVE  TreeInv'
<1> DEFINE list == serverPaths[s]
           I == {i \in DOMAIN list : list[i] \in deleted[s]}
<1>1. Keep(list, I) \in Seq(Dirs)
  <2>1. list \in Seq(Dirs) /\ I \subseteq DOMAIN list
    BY DEF TreeInv, TypeInv
  <2> HIDE DEF I, list
  <2>2. QED
    BY <2>1, KeepFacts
<1>2. serverPaths' \in [Server -> Seq(Dirs)]
  <2>1. PICK l \in Seq(Dirs) : \/ serverPaths' = [serverPaths EXCEPT ![s] = l]
                               \/ serverPaths' = serverPaths
    <3>1. \/ serverPaths' = [serverPaths EXCEPT ![s] = <<>>]
          \/ serverPaths' = [serverPaths EXCEPT ![s] = Keep(list, I)]
          \/ serverPaths' = serverPaths
      BY DEF Prune
    <3>2. <<>> \in Seq(Dirs) /\ serverPaths[s] \in Seq(Dirs)
      BY DEF TreeInv, TypeInv
    <3> HIDE DEF I, list
    <3>3. QED
      BY <1>1, <3>1, <3>2
  <2>2. QED
    BY <2>1 DEF TreeInv, TypeInv
<1>3. /\ phase' \in [Server -> {"new", "up", "gone", "broken"}]
      /\ deleted' \in [Server -> SUBSET Dirs]
      /\ UNCHANGED <<scenario, fs, tree, buckets, request>>
  BY DEF Prune, TreeInv, TypeInv, mappingVars
<1>4. TypeInv'
  BY <1>2, <1>3 DEF TreeInv, TypeInv, NodesOK
<1>5. QED
  BY <1>3, <1>4, SameShape DEF TreeInv, ClosedTree

LEMMA JoinTree ==
  ASSUME TreeInv, NEW s \in Server, Join(s)
  PROVE  /\ TreeInv'
         /\ \E p \in Asked[s] :
              /\ p \in Dirs
              /\ FirstScanResult(p) = "ok" /\ tree' = FirstScan(p)
              /\ serverPaths' = [serverPaths EXCEPT ![s] = <<p>>]
              /\ \E g \in BOOLEAN :
                   /\ "garbage" \notin World => g = FALSE
                   /\ Appended(buckets', NewBucket(s, p, tree', g))
<1>1. PICK p \in Asked[s] :
        /\ FirstScanResult(p) = "ok" /\ tree' = FirstScan(p)
        /\ serverPaths' = [serverPaths EXCEPT ![s] = <<p>>]
        /\ \E garbage \in (IF InUse THEN Garbage ELSE {FALSE}) :
             buckets' = Append(buckets, NewBucket(s, p, tree', garbage))
  BY DEF Join
<1>2. p \in Dirs
  BY AskedAreDirs DEF TreeInv, TypeInv
<1>3. NodesOK(tree') /\ ClosedTree(tree')
  BY <1>1, <1>2, FirstScanFacts
<1>4. PICK g \in (IF InUse THEN Garbage ELSE {FALSE}) :
        buckets' = Append(buckets, NewBucket(s, p, tree', g))
  BY <1>1
<1>5. g \in BOOLEAN /\ ("garbage" \notin World => g = FALSE)
  BY DEF Garbage
<1>6. NewBucket(s, p, tree', g) \in Bucket
  BY <1>2, <1>3, <1>5, NewBucketFacts
<1>7. Appended(buckets', NewBucket(s, p, tree', g))
  BY <1>4, <1>6, AppendFacts DEF TreeInv
<1>8. buckets' \in Seq(Bucket)
  BY <1>7 DEF Appended
<1>9. /\ phase' \in [Server -> {"new", "up", "gone", "broken"}]
      /\ UNCHANGED <<scenario, fs, request, deleted>>
  BY DEF Join, TreeInv, TypeInv
<1>10. serverPaths' \in [Server -> Seq(Dirs)]
  BY <1>1, <1>2 DEF TreeInv, TypeInv
<1>11. TypeInv'
  BY <1>3, <1>8, <1>9, <1>10 DEF TreeInv, TypeInv
<1>12. TreeInv'
  BY <1>3, <1>9, <1>11, SameShape
<1>13. QED
  BY <1>1, <1>2, <1>5, <1>7, <1>12

\* A path whose nodes are not all there: the nodes found so far are added.
LEMMA JoinFailsTree ==
  ASSUME TreeInv, NEW s \in Server, JoinFails(s)
  PROVE  /\ TreeInv'
         /\ phase[s] = "new" /\ phase' = [phase EXCEPT ![s] = "gone"]
         /\ UNCHANGED <<scenario, fs, buckets, serverPaths, request, deleted>>
         /\ \E p \in Asked[s] : p \in Dirs /\ FirstScanResult(p) # "ok" /\ tree' = FirstScan(p)
<1>1. PICK p \in Asked[s] : FirstScanResult(p) # "ok" /\ tree' = FirstScan(p)
  BY DEF JoinFails
<1>2. p \in Dirs
  BY AskedAreDirs DEF TreeInv, TypeInv
<1>3. NodesOK(tree') /\ ClosedTree(tree')
  BY <1>1, <1>2, FirstScanFacts
<1>4. /\ phase[s] = "new" /\ phase' = [phase EXCEPT ![s] = "gone"]
      /\ UNCHANGED <<scenario, fs, buckets, serverPaths, request, deleted>>
  BY DEF JoinFails
<1>5. TypeInv'
  BY <1>3, <1>4 DEF TreeInv, TypeInv
<1>6. TreeInv'
  BY <1>3, <1>4, <1>5, SameShape
<1>7. QED
  BY <1>1, <1>2, <1>4, <1>6

\* The buckets that stay when s unregisters its paths.
StaysAfterLeave(s) ==
  {i \in DOMAIN buckets : ~(i \in Own(s) /\ buckets[i].path \in Removed(s))}

LEMMA LeaveKeepsTypes ==
  ASSUME TreeInv, NEW s \in Server, Leave(s),
         buckets' \in Seq(Bucket), NodesOK(tree'), ClosedTree(tree')
  PROVE  TreeInv'
<1>1. /\ phase' \in [Server -> {"new", "up", "gone", "broken"}]
      /\ deleted' \in [Server -> SUBSET Dirs]
      /\ UNCHANGED <<scenario, fs>>
  BY DEF Leave, TreeInv, TypeInv
<1>2. serverPaths' \in [Server -> Seq(Dirs)]
  BY DEF Leave, TreeInv, TypeInv
<1>3. request' \in [Server -> [path : Dirs \cup {<<>>}, result : Result]]
  <2>1. NoRequest \in [path : Dirs \cup {<<>>}, result : Result]
    BY DEF NoRequest, Result
  <2>2. QED
    BY <2>1 DEF Leave, TreeInv, TypeInv
<1>4. TypeInv'
  BY <1>1, <1>2, <1>3 DEF TreeInv, TypeInv
<1>5. QED
  BY <1>1, <1>4, SameShape

LEMMA LeaveTree ==
  ASSUME TreeInv, NEW s \in Server, Leave(s)
  PROVE  TreeInv'
<1>1. CASE \E r \in Server \ {s} : phase[r] \in {"up", "broken"}
  <2>1. Unregister(s)
    BY <1>1 DEF Leave
  <2>2. buckets' \in Seq(Bucket)
    <3>1. buckets' = Keep(buckets, StaysAfterLeave(s))
      BY <2>1 DEF Unregister, BucketsLeft, StaysAfterLeave
    <3>2. StaysAfterLeave(s) \subseteq DOMAIN buckets
      BY DEF StaysAfterLeave
    <3>3. QED
      BY <3>1, <3>2, KeptBuckets DEF TreeInv
  <2>3. NodesOK(tree') /\ ClosedTree(tree')
    <3> DEFINE t == UnmarkOwn(s, buckets')
    <3>1. NodesOK(t) /\ DOMAIN t = DOMAIN tree
      BY UnmarkFacts DEF UnmarkOwn, TreeInv, TypeInv
    <3>2. ClosedTree(t)
      BY <3>1 DEF TreeInv, ClosedTree
    <3> HIDE DEF t
    <3>3. NodesOK(Clean(t)) /\ ClosedTree(Clean(t))
      BY <3>1, <3>2, CleanFacts
    <3>4. tree' = Clean(t) \/ tree' = tree
      BY <2>1 DEF Unregister, t
    <3>5. QED
      BY <3>3, <3>4 DEF TreeInv, TypeInv
  <2>4. QED
    BY <2>2, <2>3, LeaveKeepsTypes
<1>2. CASE ~\E r \in Server \ {s} : phase[r] \in {"up", "broken"}
  <2>1. tree' = EmptyTree /\ buckets' = <<>>
    BY <1>2 DEF Leave
  <2>2. DOMAIN tree' = {}
    BY <2>1 DEF EmptyTree
  <2>3. NodesOK(tree') /\ ClosedTree(tree')
    BY <2>2 DEF NodesOK, ClosedTree
  <2>4. QED
    BY <2>1, <2>3, LeaveKeepsTypes
<1>3. QED
  BY <1>1, <1>2

LEMMA DirsTree ==
  ASSUME TreeInv, ChangeDirs
  PROVE  TreeInv'
<1>1. PICK d \in Dirs : Create(d) \/ Delete(d) \/ SetAttrs(d)
  BY DEF ChangeDirs
<1>2. fs' \in [Dirs -> {Gone} \cup Attrs] /\ FsClosed'
  <2>1. CASE Create(d)
    <3>1. /\ fs' = [fs EXCEPT ![d] = 1] /\ ~Exists(d)
          /\ Len(d) > 1 => Exists(Front(d))
      BY <2>1 DEF Create
    <3>2. fs' \in [Dirs -> {Gone} \cup Attrs]
      BY <3>1 DEF TreeInv, TypeInv, Attrs
    <3>3. \A e \in Dirs : fs'[e] = IF e = d THEN 1 ELSE fs[e]
      BY <3>1 DEF TreeInv, TypeInv
    <3>4. ASSUME NEW e \in Dirs, IsPrefix(e, d), e # d
          PROVE  fs[e] # Gone
      <4>1. Len(e) \in Nat /\ Len(d) \in Nat /\ Len(e) < Len(d)
        BY <3>4, StrictIsShorter DEF IsStrictPrefix
      <4>2. e \in Seq(Name) /\ d \in Seq(Name) /\ e # <<>>
        BY DirIsSequence
      <4>3. Len(d) > 1
        BY <4>1, <4>2
      <4>4. IsPrefix(e, Front(d))
        BY <3>4, <4>1, <4>2, ShorterBeginsFront
      <4>5. Front(d) \in Dirs /\ Exists(Front(d))
        BY <3>1, <4>3, FrontIsAncestor
      <4>6. QED
        BY <4>4, <4>5 DEF TreeInv, FsClosed, Exists
    <3>5. FsClosed'
      <4> SUFFICES ASSUME NEW c \in Dirs, NEW e \in Dirs, IsPrefix(e, c), fs'[c] # Gone
                   PROVE  fs'[e] # Gone
        BY DEF FsClosed, Exists
      <4>1. CASE e = d
        BY <3>3, <4>1 DEF Gone
      <4>2. CASE e # d /\ c = d
        BY <3>3, <3>4, <4>2
      <4>3. CASE e # d /\ c # d
        BY <3>3, <4>3 DEF TreeInv, FsClosed, Exists
      <4>4. QED
        BY <4>1, <4>2, <4>3
    <3>6. QED
      BY <3>2, <3>5
  <2>2. CASE Delete(d)
    <3>1. fs' = [e \in Dirs |-> IF IsPrefix(d, e) THEN Gone ELSE fs[e]]
      BY <2>2 DEF Delete
    <3>2. fs' \in [Dirs -> {Gone} \cup Attrs]
      BY <3>1 DEF TreeInv, TypeInv
    <3>3. FsClosed'
      BY <3>1, PathOrder DEF TreeInv, FsClosed, Exists
    <3>4. QED
      BY <3>2, <3>3
  <2>3. CASE SetAttrs(d)
    <3>1. PICK a \in Attrs : fs' = [fs EXCEPT ![d] = a] /\ Exists(d)
      BY <2>3 DEF SetAttrs
    <3>2. fs' \in [Dirs -> {Gone} \cup Attrs]
      BY <3>1 DEF TreeInv, TypeInv
    <3>3. \A e \in Dirs : fs'[e] = IF e = d THEN a ELSE fs[e]
      BY <3>1 DEF TreeInv, TypeInv
    <3>4. \A e \in Dirs : fs'[e] = Gone <=> fs[e] = Gone
      BY <3>1, <3>3 DEF Attrs, Gone, Exists
    <3>5. FsClosed'
      BY <3>4 DEF TreeInv, FsClosed, Exists
    <3>6. QED
      BY <3>2, <3>5
  <2>4. QED
    BY <1>1, <2>1, <2>2, <2>3
<1>3. UNCHANGED <<scenario, tree, buckets, phase, serverPaths, request, deleted>>
  BY DEF ChangeDirs, mappingVars, serverVars
<1>4. QED
  BY <1>2, <1>3 DEF TreeInv, TypeInv, ClosedTree, NodesOK

LEMMA InitTree ==
  ASSUME Init
  PROVE  TreeInv
<1>1. NodesOK(tree) /\ ClosedTree(tree)
  <2>1. DOMAIN tree = {}
    BY DEF Init
  <2>2. QED
    BY <2>1 DEF NodesOK, ClosedTree
<1>2. fs \in [Dirs -> {Gone} \cup Attrs]
  BY DEF Init, Attrs
<1>3. FsClosed
  BY AncestorsBegin DEF Init, FsClosed, Exists
<1>4. /\ buckets \in Seq(Bucket)
      /\ phase \in [Server -> {"new", "up", "gone", "broken"}]
      /\ serverPaths \in [Server -> Seq(Dirs)]
      /\ request \in [Server -> [path : Dirs \cup {<<>>}, result : Result]]
      /\ deleted \in [Server -> SUBSET Dirs]
  BY DEF Init, NoRequest, Result
<1>5. QED
  BY <1>1, <1>2, <1>3, <1>4 DEF TreeInv, TypeInv, Init

LEMMA RequestsStayAsked ==
  ASSUME TypeInv, RequestsAsked, [Next]_vars
  PROVE  RequestsAsked'
<1>1. ASSUME UNCHANGED <<scenario, request>>
      PROVE  RequestsAsked'
  BY <1>1 DEF RequestsAsked, Asked
<1>2. ASSUME NEW s \in Server, NEW q, UNCHANGED scenario,
             request' = [request EXCEPT ![s] = q], q = NoRequest \/ q.path \in Asked[s]
      PROVE  RequestsAsked'
  <2>1. \A r \in Server : request'[r] = IF r = s THEN q ELSE request[r]
    BY <1>2 DEF TypeInv
  <2>2. QED
    BY <1>2, <2>1 DEF RequestsAsked, Asked
<1>3. CASE UNCHANGED vars
  BY <1>1, <1>3 DEF vars, serverVars
<1>4. CASE Update \/ ChangeDirs \/ Finished
  BY <1>1, <1>4 DEF Update, ChangeDirs, Finished, serverVars, vars
<1>5. ASSUME NEW s \in Server, \/ Join(s) \/ JoinFails(s)
                              \/ ReadNotifications(s) \/ Prune(s)
      PROVE  RequestsAsked'
  BY <1>1, <1>5 DEF Join, JoinFails, ReadNotifications, Prune
<1>6. ASSUME NEW s \in Server, Leave(s) \/ Accept(s)
      PROVE  RequestsAsked'
  BY <1>2, <1>6 DEF Leave, Accept
<1>7. ASSUME NEW s \in Server, NEW p \in Asked[s], Register(s, p)
      PROVE  RequestsAsked'
  <2>1. PICK r : Answer(s, p, r)
    BY <1>7 DEF Register, RegisterFails, RegisterNew, RegisterWider
  <2>2. PICK q : q = [path |-> p, result |-> r]
    OBVIOUS
  <2>3. /\ UNCHANGED scenario
        /\ request' = [request EXCEPT ![s] = q] /\ q.path \in Asked[s]
    BY <2>1, <2>2 DEF Answer
  <2>4. QED
    BY <1>2, <2>3
<1>8. QED
  BY <1>3, <1>4, <1>5, <1>6, <1>7 DEF Next

LEMMA NextTree ==
  ASSUME TreeInv, RequestsAsked, [Next]_vars
  PROVE  TreeInv'
<1>1. CASE UNCHANGED vars
  BY <1>1 DEF vars, mappingVars, serverVars, TreeInv, TypeInv, FsClosed, Exists,
              ClosedTree, NodesOK
<1>2. CASE Finished
  BY <1>2 DEF Finished, vars, mappingVars, serverVars, TreeInv, TypeInv, FsClosed,
              Exists, ClosedTree, NodesOK
<1>3. CASE Update \/ ChangeDirs
  BY <1>3, UpdateTree, DirsTree
<1>4. ASSUME NEW s \in Server,
             \/ Join(s) \/ JoinFails(s) \/ Leave(s) \/ Accept(s)
             \/ ReadNotifications(s) \/ Prune(s)
      PROVE  TreeInv'
  BY <1>4, JoinTree, JoinFailsTree, LeaveTree, AcceptTree, ReadTree, PruneTree
<1>5. ASSUME NEW s \in Server, NEW p \in Asked[s], Register(s, p)
      PROVE  TreeInv'
  <2>1. p \in Dirs
    BY AskedAreDirs DEF TreeInv, TypeInv
  <2>2. QED
    BY <1>5, <2>1, AlreadyTree, RegisterFailsTree, RegisterNewTree, RegisterWiderTree
       DEF Register
<1>6. QED
  BY <1>1, <1>2, <1>3, <1>4, <1>5 DEF Next

\* Init and every step keep what is said of types and of the tree.
LEMMA TreeAlways == Spec => [](TreeInv /\ RequestsAsked)
<1>1. Init => TreeInv /\ RequestsAsked
  BY InitTree DEF Init, RequestsAsked
<1>2. TreeInv /\ RequestsAsked /\ [Next]_vars => (TreeInv /\ RequestsAsked)'
  BY NextTree, RequestsStayAsked DEF TreeInv
<1>3. QED
  BY <1>1, <1>2, PTL DEF Spec

\* The mapping and the lists of the servers are always of their types.
THEOREM TypeCorrect == Spec => []TypeOK
<1>1. TreeInv => TypeOK
  <2> SUFFICES ASSUME TreeInv PROVE TypeOK
    OBVIOUS
  <2>1. \A s \in Server : Range(serverPaths[s]) \subseteq Dirs
    BY DEF TreeInv, TypeInv, Range
  <2>2. \A i \in DOMAIN buckets :
          buckets[i] \in [server : Server, path : Dirs, mark : BOOLEAN,
                          updated : BOOLEAN, told : SUBSET Dirs]
    BY BucketParts DEF TreeInv, Bucket
  <2>3. QED
    BY <2>1, <2>2 DEF TreeInv, TypeInv, TypeOK, NodesOK, Node
<1>2. QED
  BY <1>1, TreeAlways, PTL

\* Whatever is registered, scanned, deleted or cleaned, in any order, every node
\* of the tree can be reached from its root.
THEOREM TreeStaysConnected == Spec => []TreeIsConnected
<1>1. TreeInv => TreeIsConnected
  BY FrontIsAncestor DEF TreeInv, TypeInv, NodesOK, ClosedTree, TreeIsConnected
<1>2. QED
  BY <1>1, TreeAlways, PTL

-----------------------------------------------------------------------------
(* The buckets of a server: each for another path, and disjoint.           *)

\* Each bucket of the list c was one of buckets: of the same server, for the
\* same path, and marked if that one was.
Descends(c) ==
  \E e \in [DOMAIN c -> DOMAIN buckets] :
    /\ \A m, n \in DOMAIN c : m # n => e[m] # e[n]
    /\ \A m \in DOMAIN c : /\ c[m].server = buckets[e[m]].server
                           /\ c[m].path = buckets[e[m]].path
                           /\ buckets[e[m]].mark => c[m].mark

LEMMA KeptDescend ==
  ASSUME TypeInv, NEW I, I \subseteq DOMAIN buckets
  PROVE  Descends(Keep(buckets, I))
<1> DEFINE c == Keep(buckets, I)
<1>1. PICK e \in [DOMAIN c -> I] :
        /\ \A m, n \in DOMAIN c : m < n => e[m] < e[n]
        /\ \A m \in DOMAIN c : c[m] = buckets[e[m]]
  BY KeptBuckets
<1>2. DOMAIN c = 1..Len(c) /\ Len(c) \in Nat
  BY KeptBuckets
<1>3. \A i \in I : i \in Nat
  BY BucketParts
<1> HIDE DEF c
<1>4. \A m, n \in DOMAIN c : m # n => e[m] # e[n]
  <2>1. \A m, n \in DOMAIN c : m # n => m < n \/ n < m
    BY <1>2
  <2>2. \A m \in DOMAIN c : e[m] \in Nat
    BY <1>1, <1>3
  <2>3. QED
    BY <1>1, <2>1, <2>2
<1>5. e \in [DOMAIN c -> DOMAIN buckets]
  BY <1>1
<1>6. QED
  BY <1>1, <1>4, <1>5 DEF Descends, c

\* The list stays, or its buckets are marked.
LEMMA SameDescend ==
  ASSUME NEW c, DOMAIN c = DOMAIN buckets,
         \A i \in DOMAIN c : /\ c[i].server = buckets[i].server
                             /\ c[i].path = buckets[i].path
                             /\ buckets[i].mark => c[i].mark
  PROVE  Descends(c)
<1>1. /\ [i \in DOMAIN c |-> i] \in [DOMAIN c -> DOMAIN buckets]
      /\ \A i \in DOMAIN c : [j \in DOMAIN c |-> j][i] = i
  OBVIOUS
<1>2. QED
  BY <1>1 DEF Descends

\* s runs, and answers no request.
Asks(s) == phase[s] = "up" /\ request[s] = NoRequest

\* s gets a bucket for a path none of its buckets covers or is inside of.
Grows(s, p, g) ==
  /\ FirstScanResult(p) = "ok" /\ tree' = FirstScan(p)
  /\ ~Covering(s, p) /\ InnerAt(s, p) = {}
  /\ Appended(buckets', NewBucket(s, p, tree', g))
  /\ "garbage" \notin World => g = FALSE
  /\ UNCHANGED <<scenario, fs>>
  /\ phase'[s] = "up"
  /\ Join(s) \/ (Asks(s) /\ RegisterNew(s, p))

\* The first inner bucket of s takes path p.
Widens(s, p) ==
  LET k == Inner(s, p)[1]
      I == InnerAt(s, p)
  IN  /\ Asks(s) /\ RegisterWider(s, p)
      /\ k \in I /\ I \subseteq Own(s) /\ \A i \in I : k <= i
      /\ Widened(buckets', I, k, p, tree')

\* A server that has not joined has nothing, and a bucket is for a path its
\* server is asked to monitor.
JoinedInv ==
  /\ \A s \in Server : phase[s] = "new" => deleted[s] = {} /\ request[s] = NoRequest
  /\ \A s \in Server : phase[s] # "new" => Asked[s] # {}
  /\ \A i \in DOMAIN buckets : /\ phase[buckets[i].server] # "new"
                               /\ buckets[i].path \in Asked[buckets[i].server]

BaseInv == TreeInv /\ RequestsAsked /\ JoinedInv

\* The steps, those that make a bucket with what they find.
LEMMA StepCases ==
  ASSUME BaseInv, [Next]_vars
  PROVE  \/ UNCHANGED vars \/ ChangeDirs \/ Finished \/ Update
         \/ \E s \in Server :
              \/ Accept(s) \/ Prune(s) \/ ReadNotifications(s) \/ Leave(s)
              \/ JoinFails(s)
              \/ \E p \in Asked[s] :
                   \/ /\ Asks(s) /\ Covering(s, p)
                      /\ Answer(s, p, "already") /\ UNCHANGED mappingVars
                   \/ /\ Asks(s) /\ RegisterFails(s, p)
                      /\ Exists(p) \/ "vanish" \in World
                   \/ \E g \in BOOLEAN : Grows(s, p, g)
                   \/ Widens(s, p)
<1>1. ASSUME NEW s \in Server, Join(s)
      PROVE  \E p \in Asked[s], g \in BOOLEAN : Grows(s, p, g)
  <2>1. PICK p \in Asked[s], g \in BOOLEAN :
          /\ FirstScanResult(p) = "ok" /\ tree' = FirstScan(p)
          /\ "garbage" \notin World => g = FALSE
          /\ Appended(buckets', NewBucket(s, p, tree', g))
    BY <1>1, JoinTree DEF BaseInv
  <2>2. Own(s) = {}
    BY <1>1 DEF Join, BaseInv, JoinedInv, Own
  <2>3. ~Covering(s, p) /\ InnerAt(s, p) = {}
    BY <2>2 DEF Covering, InnerAt
  <2>4. QED
    BY <1>1, <2>1, <2>3 DEF Grows, Join, BaseInv, TreeInv, TypeInv
<1>2. ASSUME NEW s \in Server, NEW p \in Asked[s], Register(s, p)
      PROVE  \/ /\ Asks(s) /\ Covering(s, p)
                /\ Answer(s, p, "already") /\ UNCHANGED mappingVars
             \/ /\ Asks(s) /\ RegisterFails(s, p)
                /\ Exists(p) \/ "vanish" \in World
             \/ \E g \in BOOLEAN : Grows(s, p, g)
             \/ Widens(s, p)
  <2>1. p \in Dirs
    BY AskedAreDirs DEF BaseInv, TreeInv, TypeInv
  <2>2. CASE RegisterNew(s, p)
    <3>1. PICK g \in BOOLEAN :
            /\ "garbage" \notin World => g = FALSE
            /\ Appended(buckets', NewBucket(s, p, tree', g))
      BY <2>1, <2>2, RegisterNewTree DEF BaseInv
    <3>2. InnerAt(s, p) = {}
      BY <2>2, InnerFacts DEF RegisterNew, BaseInv, TreeInv
    <3>3. QED
      BY <1>2, <2>2, <3>1, <3>2 DEF Grows, RegisterNew, Answer, Register, Asks
  <2>3. CASE RegisterWider(s, p)
    BY <1>2, <2>1, <2>3, RegisterWiderTree DEF Widens, BaseInv, Register, Asks
  <2>4. QED
    BY <1>2, <2>2, <2>3 DEF Register, Asks
<1>3. QED
  BY <1>1, <1>2 DEF Next

\* The steps that change the list of buckets.
LEMMA ListSteps ==
  ASSUME BaseInv, [Next]_vars
  PROVE  \/ Descends(buckets')
         \/ \E s \in Server : \E p \in Asked[s], g \in BOOLEAN : Grows(s, p, g)
         \/ \E s \in Server : \E p \in Asked[s] : Widens(s, p)
<1>1. ASSUME UNCHANGED buckets
      PROVE  Descends(buckets')
  BY <1>1, SameDescend
<1>2. CASE UNCHANGED vars \/ ChangeDirs \/ Finished
  BY <1>1, <1>2 DEF vars, ChangeDirs, Finished, mappingVars
<1>3. CASE Update
  <2>1. DOMAIN buckets' = DOMAIN buckets
    BY <1>3, UpdateTree DEF BaseInv
  <2>2. \A i \in DOMAIN buckets : /\ buckets'[i].server = buckets[i].server
                                  /\ buckets'[i].path = buckets[i].path
                                  /\ buckets[i].mark => buckets'[i].mark
    BY <1>3, UpdateTree, NotifyFacts DEF BaseInv
  <2>3. PICK c : c = buckets'
    OBVIOUS
  <2>4. \A i \in DOMAIN c : /\ c[i].server = buckets[i].server
                            /\ c[i].path = buckets[i].path
                            /\ buckets[i].mark => c[i].mark
    BY <2>1, <2>2, <2>3, Zenon
  <2>5. DOMAIN c = DOMAIN buckets
    BY <2>1, <2>3
  <2>6. Descends(c)
    BY <2>4, <2>5, SameDescend, Zenon
  <2>7. QED
    BY <2>3, <2>6
<1>4. ASSUME NEW s \in Server, Accept(s) \/ Prune(s) \/ JoinFails(s)
      PROVE  Descends(buckets')
  BY <1>1, <1>4 DEF Accept, Prune, JoinFails, mappingVars
<1>5. ASSUME NEW s \in Server, ReadNotifications(s)
      PROVE  Descends(buckets')
  BY <1>5, KeptDescend DEF ReadNotifications, BaseInv, TreeInv, StaysAfterRead
<1>6. ASSUME NEW s \in Server, Leave(s)
      PROVE  Descends(buckets')
  <2>1. CASE buckets' = <<>>
    <3>1. DOMAIN buckets' = {}
      BY <2>1
    <3>2. [m \in {} |-> 0] \in [DOMAIN buckets' -> DOMAIN buckets]
      BY <3>1
    <3>3. QED
      BY <3>1, <3>2 DEF Descends
  <2>2. CASE buckets' = BucketsLeft(s)
    BY <2>2, KeptDescend DEF BucketsLeft, BaseInv, TreeInv
  <2>3. QED
    BY <1>6, <2>1, <2>2 DEF Leave, Unregister
<1>7. ASSUME NEW s \in Server, NEW p \in Asked[s],
             UNCHANGED mappingVars \/ RegisterFails(s, p)
      PROVE  Descends(buckets')
  BY <1>1, <1>7 DEF mappingVars, RegisterFails
<1>8. QED
  BY <1>1, <1>2, <1>3, <1>4, <1>5, <1>6, <1>7, StepCases

\* A server changes neither the scenario nor the directories.
LEMMA ServerSteps ==
  ASSUME NEW s \in Server,
         \/ Join(s) \/ JoinFails(s) \/ Leave(s)
         \/ Accept(s) \/ ReadNotifications(s) \/ Prune(s)
         \/ \E p \in Asked[s] : Register(s, p)
  PROVE  UNCHANGED <<scenario, fs>>
<1>1. CASE Join(s) \/ JoinFails(s)
  BY <1>1 DEF Join, JoinFails
<1>2. CASE Leave(s)
  BY <1>2 DEF Leave
<1>3. CASE Accept(s)
  BY <1>3 DEF Accept
<1>4. CASE ReadNotifications(s) \/ Prune(s)
  BY <1>4 DEF ReadNotifications, Prune
<1>5. ASSUME NEW p \in Asked[s], Register(s, p)
      PROVE  \E x : Answer(s, p, x)
  BY <1>5 DEF Register, RegisterFails, RegisterNew, RegisterWider
<1>6. QED
  BY <1>1, <1>2, <1>3, <1>4, <1>5 DEF Answer

LEMMA ScenarioStays ==
  ASSUME [Next]_vars
  PROVE  scenario' = scenario
BY ServerSteps DEF Next, vars, Update, ChangeDirs, Finished

\* Only joining, or the attempt, makes a server not new, and nothing makes it new again.
LEMMA PhaseSteps ==
  ASSUME TypeInv, [Next]_vars
  PROVE  \A s \in Server :
           /\ phase'[s] = "new" => phase[s] = "new"
           /\ phase'[s] # "new" => phase[s] # "new" \/ Join(s) \/ JoinFails(s)
           /\ phase'[s] = "up" => phase[s] \in {"up", "new"}
<1>1. CASE UNCHANGED vars \/ Update \/ ChangeDirs \/ Finished
  BY <1>1 DEF vars, serverVars, Update, ChangeDirs, Finished
<1>2. ASSUME NEW s \in Server,
             \/ Accept(s) \/ ReadNotifications(s)
             \/ \E p \in Asked[s] : Register(s, p)
      PROVE  UNCHANGED phase
  BY <1>2 DEF Accept, ReadNotifications, Register, RegisterFails, RegisterNew,
              RegisterWider, Answer
<1>3. ASSUME NEW s \in Server, Prune(s) \/ Leave(s)
      PROVE  /\ phase[s] = "up"
             /\ \/ UNCHANGED phase
                \/ \E x \in {"gone", "broken"} : phase' = [phase EXCEPT ![s] = x]
  BY <1>3 DEF Prune, Leave
<1>4. ASSUME NEW s \in Server, Prune(s) \/ Leave(s), NEW r \in Server
      PROVE  /\ phase'[r] = "new" <=> phase[r] = "new"
             /\ phase'[r] = "up" => phase[r] = "up"
  BY <1>3, <1>4 DEF TypeInv
<1>5. ASSUME NEW s \in Server, Join(s) \/ JoinFails(s), NEW r \in Server
      PROVE  /\ phase'[r] = "new" => phase[r] = "new"
             /\ phase'[r] # "new" => phase[r] # "new" \/ Join(r) \/ JoinFails(r)
             /\ phase'[r] = "up" => phase[r] \in {"up", "new"}
  <2>1. PICK x \in {"up", "gone"} : phase[s] = "new" /\ phase' = [phase EXCEPT ![s] = x]
    BY <1>5 DEF Join, JoinFails
  <2>2. QED
    BY <1>5, <2>1 DEF TypeInv
<1>6. QED
  BY <1>1, <1>2, <1>4, <1>5 DEF Next

LEMMA WidenedParts ==
  ASSUME NEW c, NEW s, NEW p, NEW t, NEW I, NEW k \in I, I \subseteq Own(s),
         Widened(c, I, k, p, t)
  PROVE  /\ DOMAIN c = DOMAIN buckets /\ I \subseteq DOMAIN buckets
         /\ \A i \in DOMAIN c :
              /\ c[i].server = buckets[i].server
              /\ i \in I => buckets[i].server = s
              /\ \/ c[i].path = buckets[i].path
                 \/ i = k /\ c[i].path = p
BY DEF Widened, Own

\* A server that has buckets and runs was running.
LEMMA WasUp ==
  ASSUME BaseInv, [Next]_vars, NEW i \in DOMAIN buckets, phase'[buckets[i].server] = "up"
  PROVE  phase[buckets[i].server] = "up"
<1>1. buckets[i].server \in Server /\ phase[buckets[i].server] # "new"
  BY BucketParts DEF BaseInv, TreeInv, JoinedInv
<1>2. QED
  BY <1>1, PhaseSteps DEF BaseInv, TreeInv

LEMMA JoinedStays ==
  ASSUME BaseInv, [Next]_vars
  PROVE  JoinedInv'
<1>0. UNCHANGED <<scenario, Asked>>
  BY ScenarioStays DEF Asked
<1>1. ASSUME NEW s \in Server, phase'[s] = "new"
      PROVE  deleted'[s] = {} /\ request'[s] = NoRequest
  <2>1. phase[s] = "new" /\ deleted[s] = {} /\ request[s] = NoRequest
    BY <1>1, PhaseSteps DEF BaseInv, TreeInv, JoinedInv
  <2>2. \/ UNCHANGED <<deleted, request>>
        \/ \E r \in Server : phase[r] = "up" /\ Leave(r)
        \/ \E r \in Server : phase[r] = "up" /\ Accept(r)
        \/ \E r \in Server : phase[r] = "up" /\ ReadNotifications(r)
        \/ \E r \in Server : phase[r] = "up" /\ Prune(r)
        \/ \E r \in Server : /\ phase[r] = "up"
                            /\ \E p, x : Answer(r, p, x)
    <3>1. CASE UNCHANGED vars \/ Update \/ ChangeDirs \/ Finished
      BY <3>1 DEF vars, serverVars, Update, ChangeDirs, Finished
    <3>2. ASSUME NEW r \in Server, \/ Join(r) \/ JoinFails(r) \/ Leave(r)
                                \/ Accept(r) \/ ReadNotifications(r) \/ Prune(r)
          PROVE  UNCHANGED <<deleted, request>> \/ phase[r] = "up"
      BY <3>2 DEF Join, JoinFails, Leave, Accept, ReadNotifications, Prune
    <3>3. ASSUME NEW r \in Server, Join(r) \/ JoinFails(r)
          PROVE  UNCHANGED <<deleted, request>>
      BY <3>3 DEF Join, JoinFails
    <3>4. ASSUME NEW r \in Server, NEW p \in Asked[r], Register(r, p)
          PROVE  phase[r] = "up" /\ \E x : Answer(r, p, x)
      BY <3>4 DEF Register, RegisterFails, RegisterNew, RegisterWider
    <3>5. QED
      BY <3>1, <3>2, <3>3, <3>4 DEF Next
  <2>3. deleted'[s] = deleted[s] /\ request'[s] = request[s]
    BY <2>1, <2>2 DEF Leave, Accept, ReadNotifications, Prune, Answer,
                      BaseInv, TreeInv, TypeInv
  <2>4. QED
    BY <2>1, <2>3
<1>2. ASSUME NEW s \in Server, phase'[s] # "new"
      PROVE  Asked'[s] # {}
  BY <1>0, <1>2, PhaseSteps DEF BaseInv, TreeInv, JoinedInv, Join, JoinFails
<1>3. ASSUME NEW i \in DOMAIN buckets'
      PROVE  /\ phase'[buckets'[i].server] # "new"
             /\ buckets'[i].path \in Asked'[buckets'[i].server]
  <2>1. CASE Descends(buckets')
    <3>1. PICK j \in DOMAIN buckets : /\ buckets'[i].server = buckets[j].server
                                      /\ buckets'[i].path = buckets[j].path
      BY <1>3, <2>1 DEF Descends
    <3>2. buckets[j].server \in Server
      BY BucketParts DEF BaseInv, TreeInv
    <3>3. QED
      BY <1>0, <3>1, <3>2, PhaseSteps DEF BaseInv, TreeInv, JoinedInv
  <2>2. ASSUME NEW s \in Server, NEW p \in Asked[s], NEW g \in BOOLEAN,
               Grows(s, p, g)
        PROVE  /\ phase'[buckets'[i].server] # "new"
               /\ buckets'[i].path \in Asked'[buckets'[i].server]
    <3>1. phase'[s] # "new"
      BY <2>2 DEF Grows
    <3>2. CASE i \in DOMAIN buckets
      <4>1. buckets'[i] = buckets[i] /\ buckets[i].server \in Server
        BY <2>2, <3>2, BucketParts DEF Grows, Appended, BaseInv, TreeInv
      <4>2. QED
        BY <1>0, <3>2, <4>1, PhaseSteps DEF BaseInv, TreeInv, JoinedInv
    <3>3. CASE i \notin DOMAIN buckets
      <4>1. buckets'[i] = NewBucket(s, p, tree', g)
        BY <1>3, <2>2, <3>3 DEF Grows, Appended
      <4>2. buckets'[i].server = s /\ buckets'[i].path = p
        BY <4>1 DEF NewBucket
      <4>3. QED
        BY <1>0, <3>1, <4>2
    <3>4. QED
      BY <3>2, <3>3
  <2>3. ASSUME NEW s \in Server, NEW p \in Asked[s], Widens(s, p)
        PROVE  /\ phase'[buckets'[i].server] # "new"
               /\ buckets'[i].path \in Asked'[buckets'[i].server]
    <3>1. /\ i \in DOMAIN buckets /\ buckets'[i].server = buckets[i].server
          /\ buckets[i].server \in Server
          /\ buckets'[i].path = buckets[i].path
               \/ (buckets[i].server = s /\ buckets'[i].path = p)
      BY <1>3, <2>3, WidenedParts, BucketParts DEF Widens, BaseInv, TreeInv
    <3>2. QED
      BY <1>0, <2>3, <3>1, PhaseSteps DEF BaseInv, TreeInv, JoinedInv
  <2>4. QED
    BY <2>1, <2>2, <2>3, ListSteps
<1>4. QED
  BY <1>1, <1>2, <1>3 DEF JoinedInv

\* No two buckets of a server are for the same path, and where both are unmarked
\* neither is inside the other.
PathsApart(c) ==
  \A i, j \in DOMAIN c :
    i # j /\ c[i].server = c[j].server =>
      /\ c[i].path # c[j].path
      /\ (~c[i].mark /\ ~c[j].mark => ~IsPrefix(c[i].path, c[j].path))

LEMMA ApartDescends ==
  ASSUME NEW c, PathsApart(buckets), Descends(c)
  PROVE  PathsApart(c)
BY DEF PathsApart, Descends

LEMMA ApartGrows ==
  ASSUME BaseInv, PathsApart(buckets), NEW s \in Server, NEW p \in Asked[s],
         NEW g \in BOOLEAN, Grows(s, p, g)
  PROVE  PathsApart(buckets')
<1> DEFINE n == Len(buckets) + 1
<1>1. p \in Dirs
  BY AskedAreDirs DEF BaseInv, TreeInv, TypeInv
<1>2. /\ \A i \in DOMAIN buckets : buckets'[i] = buckets[i]
      /\ \A i \in DOMAIN buckets' : i \in DOMAIN buckets \/ i = n
      /\ buckets'[n].server = s /\ buckets'[n].path = p
  BY DEF Grows, Appended, NewBucket
<1>3. ASSUME NEW i \in DOMAIN buckets, buckets[i].server = s
      PROVE  /\ buckets[i].path # p
             /\ ~IsPrefix(buckets[i].path, p) /\ ~IsPrefix(p, buckets[i].path)
  <2>1. i \in Own(s) /\ buckets[i].path \in Dirs
    BY <1>3, BucketParts DEF Own, BaseInv, TreeInv
  <2>2. ~IsPrefix(buckets[i].path, p) /\ ~IsStrictPrefix(p, buckets[i].path)
    BY <2>1 DEF Grows, Covering, InnerAt
  <2>3. IsPrefix(p, p)
    BY <1>1, PathOrder
  <2>4. QED
    BY <2>2, <2>3 DEF IsStrictPrefix
<1> HIDE DEF n
<1>4. ASSUME NEW i \in DOMAIN buckets', NEW j \in DOMAIN buckets',
             i # j, buckets'[i].server = buckets'[j].server
      PROVE  /\ buckets'[i].path # buckets'[j].path
             /\ (~buckets'[i].mark /\ ~buckets'[j].mark
                   => ~IsPrefix(buckets'[i].path, buckets'[j].path))
  <2>1. CASE i \in DOMAIN buckets /\ j \in DOMAIN buckets
    <3>1. buckets'[i] = buckets[i] /\ buckets'[j] = buckets[j]
      BY <1>2, <2>1
    <3>2. QED
      BY <1>4, <2>1, <3>1, Zenon DEF PathsApart
  <2>2. CASE i \in DOMAIN buckets /\ j = n
    <3>1. buckets'[i] = buckets[i]
      BY <1>2, <2>2
    <3>2. QED
      BY <1>2, <1>3, <1>4, <2>2, <3>1
  <2>3. CASE i = n /\ j \in DOMAIN buckets
    <3>1. buckets'[j] = buckets[j]
      BY <1>2, <2>3
    <3>2. QED
      BY <1>2, <1>3, <1>4, <2>3, <3>1
  <2>4. QED
    BY <1>2, <1>4, <2>1, <2>2, <2>3
<1>5. QED
  BY <1>4, Zenon DEF PathsApart

\* What widening makes of the buckets of s: the first inner one has path p, the
\* other inner ones are marked, the rest is neither above p nor below.
LEMMA WidenedOwn ==
  ASSUME BaseInv, NEW s \in Server, NEW p \in Asked[s], Widens(s, p)
  PROVE  LET k == Inner(s, p)[1]
         IN  /\ p \in Dirs
             /\ k \in Own(s) /\ IsStrictPrefix(p, buckets[k].path)
             /\ buckets'[k].path = p /\ buckets'[k].mark = buckets[k].mark
             /\ \A i \in DOMAIN buckets :
                  i # k => buckets'[i].path = buckets[i].path
             /\ \A i \in Own(s) : ~IsPrefix(buckets[i].path, p)
             /\ \A i \in DOMAIN buckets :
                  \/ i = k
                  \/ buckets'[i] = buckets[i]
                  \/ i \in Own(s) /\ buckets'[i].mark /\ buckets'[i].updated
             /\ \A i \in Own(s) : i # k =>
                  \/ /\ IsStrictPrefix(p, buckets[i].path) /\ k < i
                     /\ buckets'[i].mark /\ buckets'[i].updated
                  \/ /\ buckets'[i] = buckets[i]
                     /\ ~IsPrefix(p, buckets[i].path)
<1> DEFINE k == Inner(s, p)[1]
           I == InnerAt(s, p)
<1>1. /\ k \in I /\ I \subseteq Own(s) /\ \A i \in I : k <= i
      /\ Widened(buckets', I, k, p, tree')
      /\ ~Covering(s, p)
  BY DEF Widens, RegisterWider
<1>2. p \in Dirs /\ IsPrefix(p, p)
  BY AskedAreDirs, PathOrder DEF BaseInv, TreeInv, TypeInv
<1>3. \A i \in Own(s) : ~IsPrefix(buckets[i].path, p)
  BY <1>1 DEF Covering
<1>4. /\ \A i \in I : IsStrictPrefix(p, buckets[i].path)
      /\ \A i \in Own(s) : i \in I \/ ~IsStrictPrefix(p, buckets[i].path)
  BY DEF InnerAt
<1>5. \A i \in Own(s) : i \in I \/ ~IsPrefix(p, buckets[i].path)
  BY <1>2, <1>3, <1>4 DEF IsStrictPrefix
<1>6. Own(s) \subseteq DOMAIN buckets /\ \A i \in Own(s) : i \in Nat
  BY BucketParts DEF Own, BaseInv, TreeInv
<1> HIDE DEF k, I
<1>7. /\ buckets'[k].path = p /\ buckets'[k].mark = buckets[k].mark
      /\ \A i \in I \ {k} : /\ buckets'[i].path = buckets[i].path
                            /\ buckets'[i].mark /\ buckets'[i].updated
      /\ \A i \in DOMAIN buckets \ I : buckets'[i] = buckets[i]
  BY <1>1 DEF Widened
<1>8. \A i \in DOMAIN buckets : i # k => buckets'[i].path = buckets[i].path
  BY <1>7
<1>9. \A i \in DOMAIN buckets :
         \/ i = k
         \/ buckets'[i] = buckets[i]
         \/ i \in Own(s) /\ buckets'[i].mark /\ buckets'[i].updated
  BY <1>1, <1>7
<1>10. \A i \in I : i # k => k < i
  BY <1>1, <1>6
<1>11. \A i \in Own(s) : i # k =>
         \/ /\ IsStrictPrefix(p, buckets[i].path) /\ k < i
            /\ buckets'[i].mark /\ buckets'[i].updated
         \/ /\ buckets'[i] = buckets[i]
            /\ ~IsPrefix(p, buckets[i].path)
  BY <1>4, <1>5, <1>6, <1>7, <1>10
<1>12. k \in Own(s) /\ IsStrictPrefix(p, buckets[k].path)
  BY <1>1, <1>4
<1>13. QED
  BY <1>2, <1>3, <1>7, <1>8, <1>9, <1>11, <1>12 DEF k

LEMMA ApartWidens ==
  ASSUME BaseInv, PathsApart(buckets), NEW s \in Server, NEW p \in Asked[s],
         Widens(s, p)
  PROVE  PathsApart(buckets')
<1>1. PICK k \in Own(s) :
        /\ buckets'[k].path = p
        /\ \A i \in DOMAIN buckets : i # k => buckets'[i].path = buckets[i].path
        /\ \A i \in Own(s) : ~IsPrefix(buckets[i].path, p)
        /\ \A i \in DOMAIN buckets :
             \/ i = k \/ buckets'[i] = buckets[i]
             \/ i \in Own(s) /\ buckets'[i].mark /\ buckets'[i].updated
        /\ \A i \in Own(s) : i # k =>
             buckets'[i].mark \/ ~IsPrefix(p, buckets[i].path)
  BY WidenedOwn
<1>2. /\ DOMAIN buckets' = DOMAIN buckets
      /\ \A i \in DOMAIN buckets : buckets'[i].server = buckets[i].server
  BY DEF Widens, Widened
<1>3. p \in Dirs /\ IsPrefix(p, p)
  BY AskedAreDirs, PathOrder DEF BaseInv, TreeInv, TypeInv
<1>4. /\ \A i \in Own(s) : buckets[i].path # p
      /\ Own(s) = {i \in DOMAIN buckets : buckets[i].server = s}
  BY <1>1, <1>3 DEF Own
<1>5. ASSUME NEW i \in DOMAIN buckets, NEW j \in DOMAIN buckets,
             i # j, buckets[i].server = buckets[j].server
      PROVE  /\ buckets'[i].path # buckets'[j].path
             /\ (~buckets'[i].mark /\ ~buckets'[j].mark
                   => ~IsPrefix(buckets'[i].path, buckets'[j].path))
  <2>1. /\ buckets[i].path # buckets[j].path
        /\ (~buckets[i].mark /\ ~buckets[j].mark
              => ~IsPrefix(buckets[i].path, buckets[j].path))
    BY <1>5, Zenon DEF PathsApart
  <2>2. CASE i = k
    <3>1. j \in Own(s) /\ j # k /\ buckets'[j].path = buckets[j].path
      BY <1>1, <1>4, <1>5, <2>2
    <3>2. QED
      BY <1>1, <1>4, <2>2, <3>1
  <2>3. CASE j = k
    <3>1. i \in Own(s) /\ i # k /\ buckets'[i].path = buckets[i].path
      BY <1>1, <1>4, <1>5, <2>3
    <3>2. QED
      BY <1>1, <1>4, <2>3, <3>1
  <2>4. CASE i # k /\ j # k
    <3>1. /\ buckets'[i].path = buckets[i].path
          /\ buckets'[j].path = buckets[j].path
          /\ buckets'[i] = buckets[i] \/ buckets'[i].mark
          /\ buckets'[j] = buckets[j] \/ buckets'[j].mark
      BY <1>1, <2>4
    <3>2. QED
      BY <2>1, <3>1, Zenon
  <2>5. QED
    BY <2>2, <2>3, <2>4
<1>6. QED
  BY <1>2, <1>5, Zenon DEF PathsApart

LEMMA ApartStays ==
  ASSUME BaseInv, PathsApart(buckets), [Next]_vars
  PROVE  PathsApart(buckets')
BY ListSteps, ApartDescends, ApartGrows, ApartWidens

\* Only a registration makes a request.
LEMMA RequestSteps ==
  ASSUME BaseInv, [Next]_vars, NEW r \in Server,
         request'[r] # request[r], request'[r] # NoRequest
  PROVE  /\ Asks(r)
         /\ \E p \in Asked[r] :
              \/ /\ Covering(r, p)
                 /\ Answer(r, p, "already") /\ UNCHANGED mappingVars
              \/ RegisterFails(r, p)
              \/ RegisterNew(r, p) /\ \E g \in BOOLEAN : Grows(r, p, g)
              \/ Widens(r, p)
<1>0. TypeInv
  BY DEF BaseInv, TreeInv
<1>1. UNCHANGED vars \/ ChangeDirs \/ Finished \/ Update => FALSE
  BY DEF vars, ChangeDirs, Finished, Update, serverVars
<1>2. ASSUME NEW s \in Server, Accept(s) \/ Leave(s)
      PROVE  FALSE
  BY <1>0, <1>2 DEF Accept, Leave, TypeInv
<1>3. ASSUME NEW s \in Server, \/ Prune(s) \/ ReadNotifications(s)
                              \/ Join(s) \/ JoinFails(s)
      PROVE  FALSE
  BY <1>3 DEF Prune, ReadNotifications, Join, JoinFails
<1>4. ASSUME NEW s \in Server, NEW p, NEW x, Answer(s, p, x)
      PROVE  s = r
  BY <1>0, <1>4 DEF Answer, TypeInv
<1>5. ASSUME NEW s \in Server, NEW p \in Asked[s],
             \/ /\ Asks(s) /\ Covering(s, p)
                /\ Answer(s, p, "already") /\ UNCHANGED mappingVars
             \/ Asks(s) /\ RegisterFails(s, p)
             \/ \E g \in BOOLEAN : Grows(s, p, g)
             \/ Widens(s, p)
      PROVE  /\ s = r /\ Asks(s)
             /\ \/ /\ Covering(s, p)
                   /\ Answer(s, p, "already") /\ UNCHANGED mappingVars
                \/ RegisterFails(s, p)
                \/ RegisterNew(s, p) /\ \E g \in BOOLEAN : Grows(s, p, g)
                \/ Widens(s, p)
  <2>1. CASE \E g \in BOOLEAN : Grows(s, p, g)
    BY <1>3, <1>4, <2>1 DEF Grows, RegisterNew
  <2>2. QED
    BY <1>4, <1>5, <2>1 DEF RegisterFails, Widens, RegisterWider
<1>6. QED
  BY <1>1, <1>2, <1>3, <1>5, StepCases

\* What is always so, whatever the scenario.
LEMMA BaseAlways == Spec => [](BaseInv /\ PathsApart(buckets))
<1>1. Init => BaseInv /\ PathsApart(buckets)
  <2> SUFFICES ASSUME Init PROVE BaseInv /\ PathsApart(buckets)
    OBVIOUS
  <2>1. DOMAIN buckets = {}
    BY DEF Init
  <2>2. QED
    BY <2>1, InitTree DEF Init, RequestsAsked, JoinedInv, BaseInv, PathsApart
<1>2. BaseInv /\ PathsApart(buckets) /\ [Next]_vars => (BaseInv /\ PathsApart(buckets))'
  BY NextTree, RequestsStayAsked, JoinedStays, ApartStays DEF BaseInv, TreeInv
<1>3. QED
  BY <1>1, <1>2, PTL DEF Spec

\* A server's buckets never overlap, whatever it is asked to monitor, whoever
\* else runs and whatever happens to the directories: nothing is notified twice.
THEOREM OwnBucketsStayDisjoint == Spec => []OwnBucketsDisjoint
<1>1. PathsApart(buckets) => OwnBucketsDisjoint
  BY DEF PathsApart, OwnBucketsDisjoint
<1>2. QED
  BY <1>1, BaseAlways, PTL

-----------------------------------------------------------------------------
(* The directory of an unmarked bucket has a monitored node.               *)

\* No server is asked to monitor a directory inside another one of its own that
\* a second server is asked to monitor too: register_server_path looks for that
\* second bucket from the wrong place (mapping_structure.c:129).
InnerPathsUnshared(sc) ==
  \A s, r \in Server : \A p, q \in sc.asked[s] :
    IsStrictPrefix(p, q) /\ q \in sc.asked[r] => r = s

\* The node of d is in the tree t, and monitored.
MonitoredIn(t, d) == d \in DOMAIN t /\ t[d].monitored

\* Each unmarked bucket of the list c is scanned in the tree t.
Watched(c, t) == \A i \in DOMAIN c : ~c[i].mark => MonitoredIn(t, c[i].path)

\* What vanished is in a directory that the notification names.
LEMMA TopExists ==
  ASSUME TreeInv, NEW d \in Vanished
  PROVE  \E e \in VanishedTop : IsPrefix(e, d)
<1> DEFINE above == {e \in Vanished : IsPrefix(e, d)}
           T == {Len(e) : e \in above}
<1>1. Vanished \subseteq Dirs
  BY DEF Vanished, TreeInv, TypeInv, NodesOK
<1>2. T \subseteq Nat
  BY <1>1, DirIsSequence
<1>3. d \in above
  BY <1>1, PathOrder
<1>4. T # {}
  BY <1>3
<1> HIDE DEF T
<1>5. PICK x \in T : \A y \in T : x <= y
  BY <1>2, <1>4, LeastNat
<1>6. PICK e \in above : x = Len(e)
  BY <1>5 DEF T
<1>7. ASSUME NEW f \in Vanished, IsStrictPrefix(f, e)
      PROVE  FALSE
  <2>1. IsPrefix(f, d)
    BY <1>1, <1>6, <1>7, PathOrder DEF IsStrictPrefix
  <2>2. Len(f) \in T
    BY <2>1 DEF T
  <2>3. Len(f) < Len(e) /\ Len(f) \in Nat /\ Len(e) \in Nat
    BY <1>1, <1>6, <1>7, StrictIsShorter
  <2>4. QED
    BY <1>5, <1>6, <2>2, <2>3
<1>8. QED
  BY <1>6, <1>7 DEF VanishedTop

\* A first scan leaves every mark.
LEMMA FirstScanMarks ==
  ASSUME TreeInv, NEW p \in Dirs
  PROVE  /\ \A d : MonitoredIn(tree, d) => MonitoredIn(FirstScan(p), d)
         /\ FirstScanResult(p) = "ok" => MonitoredIn(FirstScan(p), p)
<1> DEFINE t == FirstScan(p)
           ok == FirstScanResult(p) = "ok"
<1>1. /\ DOMAIN tree \subseteq DOMAIN t
      /\ \A d \in DOMAIN tree : t[d].monitored <=> tree[d].monitored \/ (d = p /\ ok)
      /\ \A d \in DOMAIN t \ DOMAIN tree : t[d].monitored <=> d = p /\ ok
      /\ ok => p \in DOMAIN t
  BY FirstScanFacts
<1> HIDE DEF t, ok
<1>2. \A d : MonitoredIn(tree, d) => MonitoredIn(t, d)
  BY <1>1, Zenon DEF MonitoredIn
<1>3. ok => MonitoredIn(t, p)
  <2> SUFFICES ASSUME ok PROVE MonitoredIn(t, p)
    OBVIOUS
  <2>1. p \in DOMAIN t
    BY <1>1
  <2>2. t[p].monitored
    <3>1. CASE p \in DOMAIN tree
      BY <1>1, <3>1, Zenon
    <3>2. CASE p \notin DOMAIN tree
      <4>1. p \in DOMAIN t \ DOMAIN tree
        BY <2>1, <3>2
      <4>2. QED
        BY <1>1, <4>1, Zenon
    <3>3. QED
      BY <3>1, <3>2
  <2>3. QED
    BY <2>1, <2>2 DEF MonitoredIn
<1>4. QED
  BY <1>2, <1>3 DEF t, ok

\* Unmarking leaves the other marks.
LEMMA UnmarkMarks ==
  ASSUME NEW t, NodesOK(t), NEW P, NEW d
  PROVE  MonitoredIn(Unmark(t, P), d) <=> MonitoredIn(t, d) /\ d \notin P
<1> DEFINE u == Unmark(t, P)
<1>1. DOMAIN u = DOMAIN t
  BY UnmarkFacts
<1>2. \A e \in DOMAIN t : u[e].monitored <=> t[e].monitored /\ e \notin P
  BY UnmarkFacts
<1> HIDE DEF u
<1>3. MonitoredIn(u, d) <=> MonitoredIn(t, d) /\ d \notin P
  BY <1>1, <1>2, Zenon DEF MonitoredIn
<1>4. QED
  BY <1>3 DEF u

\* Cleaning leaves every mark, and makes none.
LEMMA CleanMarks ==
  ASSUME NEW t, NodesOK(t), ClosedTree(t), NEW d
  PROVE  MonitoredIn(Clean(t), d) <=> MonitoredIn(t, d)
<1> DEFINE u == Clean(t)
<1>1. /\ DOMAIN u \subseteq DOMAIN t
      /\ \A e \in DOMAIN u : u[e] = t[e]
      /\ \A e \in DOMAIN t : t[e].monitored => e \in DOMAIN u
  BY CleanFacts
<1> HIDE DEF u
<1>2. MonitoredIn(u, d) <=> MonitoredIn(t, d)
  BY <1>1 DEF MonitoredIn
<1>3. QED
  BY <1>2 DEF u

\* When other servers go on, the server that leaves takes some of its buckets
\* out of the list, and the marks of directories that have no bucket any more.
LEMMA LeaveFacts ==
  ASSUME TreeInv, NEW s \in Server, Leave(s)
  PROVE  \/ /\ tree' = EmptyTree /\ buckets' = <<>>
            /\ \A r \in Server : r # s => phase[r] \notin {"up", "broken"}
         \/ /\ buckets' = Keep(buckets, StaysAfterLeave(s))
            /\ \A d : MonitoredIn(tree', d) => MonitoredIn(tree, d)
            /\ \A i \in DOMAIN buckets' :
                 MonitoredIn(tree, buckets'[i].path)
                   => MonitoredIn(tree', buckets'[i].path)
            /\ \/ /\ tree' = tree
                  /\ ~ /\ Removed(s) = Range(serverPaths[s])
                       /\ IsInjective(serverPaths[s])
               \/ /\ tree' = Clean(UnmarkOwn(s, buckets'))
                  /\ NodesOK(UnmarkOwn(s, buckets'))
                  /\ ClosedTree(UnmarkOwn(s, buckets'))
<1>1. CASE \E r \in Server \ {s} : phase[r] \in {"up", "broken"}
  <2> DEFINE t == UnmarkOwn(s, buckets')
             gone == {p \in Removed(s) : \A i \in DOMAIN buckets' : buckets'[i].path # p}
  <2>1. /\ Unregister(s)
        /\ buckets' = Keep(buckets, StaysAfterLeave(s))
    BY <1>1 DEF Leave, Unregister, BucketsLeft, StaysAfterLeave
  <2>2. NodesOK(tree) /\ ClosedTree(tree) /\ t = Unmark(tree, gone)
    BY DEF TreeInv, TypeInv, UnmarkOwn
  <2> HIDE DEF t, gone
  <2>3. /\ NodesOK(t) /\ DOMAIN t = DOMAIN tree
        /\ \A d : MonitoredIn(t, d) <=> MonitoredIn(tree, d) /\ d \notin gone
    BY <2>2, UnmarkFacts, UnmarkMarks
  <2>4. ClosedTree(t)
    BY <2>2, <2>3 DEF ClosedTree
  <2>5. \A d : MonitoredIn(Clean(t), d) <=> MonitoredIn(t, d)
    BY <2>3, <2>4, CleanMarks
  <2>6. \/ tree' = tree
             /\ ~(Removed(s) = Range(serverPaths[s]) /\ IsInjective(serverPaths[s]))
        \/ tree' = Clean(t)
    BY <2>1 DEF Unregister, t
  <2>7. \A d : MonitoredIn(tree', d) => MonitoredIn(tree, d)
    BY <2>3, <2>5, <2>6
  <2>8. \A i \in DOMAIN buckets' : buckets'[i].path \notin gone
    BY DEF gone
  <2>9. \A i \in DOMAIN buckets' :
          MonitoredIn(tree, buckets'[i].path) => MonitoredIn(tree', buckets'[i].path)
    BY <2>3, <2>5, <2>6, <2>8
  <2>10. QED
    BY <2>1, <2>3, <2>4, <2>6, <2>7, <2>9 DEF t
<1>2. CASE ~\E r \in Server \ {s} : phase[r] \in {"up", "broken"}
  BY <1>2 DEF Leave
<1>3. QED
  BY <1>1, <1>2

LEMMA WatchedSame ==
  ASSUME UNCHANGED <<tree, buckets>>, Watched(buckets, tree)
  PROVE  Watched(buckets', tree')
BY DEF Watched, MonitoredIn

\* Each bucket of a kept list was one of the list.
LEMMA KeptIsOld ==
  ASSUME TypeInv, NEW I, I \subseteq DOMAIN buckets,
         NEW m \in DOMAIN Keep(buckets, I)
  PROVE  \E i \in I : Keep(buckets, I)[m] = buckets[i]
BY KeptBuckets

LEMMA WatchedGrows ==
  ASSUME BaseInv, Watched(buckets, tree), NEW s \in Server, NEW p \in Asked[s],
         NEW g \in BOOLEAN, Grows(s, p, g)
  PROVE  Watched(buckets', tree')
<1>1. p \in Dirs
  BY AskedAreDirs DEF BaseInv, TreeInv, TypeInv
<1>2. /\ \A d : MonitoredIn(tree, d) => MonitoredIn(tree', d)
      /\ MonitoredIn(tree', p)
  BY <1>1, FirstScanMarks DEF Grows, BaseInv
<1>3. ASSUME NEW i \in DOMAIN buckets', ~buckets'[i].mark
      PROVE  MonitoredIn(tree', buckets'[i].path)
  <2>1. CASE i \in DOMAIN buckets
    <3>1. buckets'[i] = buckets[i]
      BY <2>1 DEF Grows, Appended
    <3>2. QED
      BY <1>2, <1>3, <2>1, <3>1 DEF Watched
  <2>2. CASE i \notin DOMAIN buckets
    <3>1. buckets'[i] = NewBucket(s, p, tree', g)
      BY <1>3, <2>2 DEF Grows, Appended
    <3>2. buckets'[i].path = p
      BY <3>1 DEF NewBucket
    <3>3. QED
      BY <1>2, <3>2
  <2>3. QED
    BY <2>1, <2>2
<1>4. QED
  BY <1>3 DEF Watched

\* The paths that widening unmarks are those of inner buckets.
LEMMA UnsharedAreInner ==
  ASSUME TypeInv, NEW s, NEW p, NEW d \in Unshared(Inner(s, p))
  PROVE  \E i \in InnerAt(s, p) : d = buckets[i].path
BY InnerFacts DEF Unshared

LEMMA WatchedWidens ==
  ASSUME BaseInv, InnerPathsUnshared(scenario), Watched(buckets, tree),
         NEW s \in Server, NEW p \in Asked[s], Widens(s, p)
  PROVE  Watched(buckets', tree')
<1> DEFINE t == FirstScan(p)
           P == Unshared(Inner(s, p))
<1>1. PICK k \in Own(s) :
        /\ p \in Dirs
        /\ buckets'[k].path = p
        /\ \A i \in DOMAIN buckets :
             \/ i = k \/ buckets'[i] = buckets[i]
             \/ i \in Own(s) /\ buckets'[i].mark /\ buckets'[i].updated
        /\ \A i \in Own(s) : i # k =>
             buckets'[i].mark \/ ~IsPrefix(p, buckets[i].path)
  BY WidenedOwn
<1>2. /\ DOMAIN buckets' = DOMAIN buckets
      /\ tree' = Unmark(t, P)
      /\ FirstScanResult(p) = "ok"
  BY DEF Widens, Widened, RegisterWider
<1>3. NodesOK(t)
  BY <1>1, FirstScanFacts DEF BaseInv
<1>4. /\ \A d : MonitoredIn(tree, d) => MonitoredIn(t, d)
      /\ MonitoredIn(t, p)
  BY <1>1, <1>2, FirstScanMarks DEF BaseInv
<1>5. ASSUME NEW d \in P
      PROVE  IsStrictPrefix(p, d) /\ d \in Asked[s]
  <2>1. PICK i \in InnerAt(s, p) : d = buckets[i].path
    BY <1>5, UnsharedAreInner DEF BaseInv, TreeInv
  <2>2. QED
    BY <2>1 DEF InnerAt, Own, BaseInv, JoinedInv
<1> HIDE DEF t, P
<1>6. \A d : MonitoredIn(tree', d) <=> MonitoredIn(t, d) /\ d \notin P
  BY <1>2, <1>3, UnmarkMarks
<1>7. ASSUME NEW i \in DOMAIN buckets', ~buckets'[i].mark
      PROVE  MonitoredIn(tree', buckets'[i].path)
  <2>1. CASE i = k
    <3>1. p \notin P
      BY <1>5 DEF IsStrictPrefix
    <3>2. QED
      BY <1>1, <1>4, <1>6, <2>1, <3>1
  <2>2. CASE i # k
    <3>1. i \in DOMAIN buckets /\ buckets'[i] = buckets[i]
      BY <1>1, <1>2, <1>7, <2>2
    <3>2. buckets[i].path \notin P
      <4>1. CASE i \in Own(s)
        BY <1>1, <1>5, <1>7, <2>2, <3>1, <4>1 DEF IsStrictPrefix
      <4>2. CASE i \notin Own(s)
        <5>1. PICK r \in Server : r = buckets[i].server /\ r # s
          BY <3>1, <4>2, BucketParts DEF Own, BaseInv, TreeInv
        <5>2. buckets[i].path \in Asked[r]
          BY <3>1, <5>1 DEF BaseInv, JoinedInv
        <5>3. QED
          BY <1>5, <5>1, <5>2 DEF InnerPathsUnshared, Asked
      <4>3. QED
        BY <4>1, <4>2
    <3>3. MonitoredIn(tree, buckets[i].path)
      BY <1>7, <3>1 DEF Watched
    <3>4. QED
      BY <1>4, <1>6, <3>1, <3>2, <3>3
  <2>3. QED
    BY <2>1, <2>2
<1>8. QED
  BY <1>7 DEF Watched

LEMMA WatchedUpdate ==
  ASSUME TreeInv, Watched(buckets, tree), Update
  PROVE  Watched(buckets', tree')
<1>1. ASSUME NEW i \in DOMAIN buckets', ~buckets'[i].mark
      PROVE  MonitoredIn(tree', buckets'[i].path)
  <2>1. PICK b \in Bucket : i \in DOMAIN buckets /\ b = buckets[i] /\ buckets'[i] = Notify(b)
    BY <1>1, UpdateTree
  <2>2. /\ buckets'[i].path = b.path /\ ~b.mark
        /\ \A e \in VanishedTop : ~IsPrefix(e, b.path)
    BY <1>1, <2>1, NotifyFacts
  <2>3. MonitoredIn(tree, b.path)
    BY <2>1, <2>2 DEF Watched
  <2>4. b.path \notin Vanished
    BY <2>2, TopExists
  <2>5. /\ tree' = ScannedTree
        /\ DOMAIN ScannedTree = (DOMAIN tree \ Vanished) \cup Created
        /\ \A d \in DOMAIN ScannedTree :
             d \in DOMAIN tree => (ScannedTree[d].monitored <=> tree[d].monitored)
    BY ScannedTreeFacts DEF Update
  <2>6. b.path \in DOMAIN tree'
    BY <2>3, <2>4, <2>5 DEF MonitoredIn
  <2>7. QED
    BY <2>2, <2>3, <2>5, <2>6, Zenon DEF MonitoredIn
<1>2. QED
  BY <1>1 DEF Watched

LEMMA WatchedKept ==
  ASSUME TypeInv, Watched(buckets, tree), NEW I, I \subseteq DOMAIN buckets,
         buckets' = Keep(buckets, I),
         \A i \in DOMAIN buckets' :
           MonitoredIn(tree, buckets'[i].path) => MonitoredIn(tree', buckets'[i].path)
  PROVE  Watched(buckets', tree')
BY KeptIsOld DEF Watched

LEMMA WatchedStays ==
  ASSUME BaseInv, InnerPathsUnshared(scenario), Watched(buckets, tree), [Next]_vars
  PROVE  Watched(buckets', tree')
<1>0. TreeInv /\ TypeInv
  BY DEF BaseInv, TreeInv
<1>1. CASE UNCHANGED vars \/ ChangeDirs \/ Finished
  BY <1>1, WatchedSame DEF vars, ChangeDirs, Finished, mappingVars
<1>2. CASE Update
  BY <1>0, <1>2, WatchedUpdate
<1>3. ASSUME NEW s \in Server, Accept(s) \/ Prune(s)
      PROVE  Watched(buckets', tree')
  BY <1>3, WatchedSame DEF Accept, Prune, mappingVars
<1>4. ASSUME NEW s \in Server, ReadNotifications(s)
      PROVE  Watched(buckets', tree')
  <2>1. StaysAfterRead(s) \subseteq DOMAIN buckets
    BY DEF StaysAfterRead
  <2>2. tree' = tree /\ buckets' = Keep(buckets, StaysAfterRead(s))
    BY <1>4 DEF ReadNotifications
  <2>3. QED
    BY <1>0, <2>1, <2>2, WatchedKept
<1>5. ASSUME NEW s \in Server, Leave(s)
      PROVE  Watched(buckets', tree')
  <2>1. CASE buckets' = <<>>
    BY <2>1 DEF Watched
  <2>2. CASE buckets' # <<>>
    <3>1. StaysAfterLeave(s) \subseteq DOMAIN buckets
      BY DEF StaysAfterLeave
    <3>2. /\ buckets' = Keep(buckets, StaysAfterLeave(s))
          /\ \A i \in DOMAIN buckets' :
               MonitoredIn(tree, buckets'[i].path) => MonitoredIn(tree', buckets'[i].path)
      BY <1>0, <1>5, <2>2, LeaveFacts
    <3>3. QED
      BY <1>0, <3>1, <3>2, WatchedKept
  <2>3. QED
    BY <2>1, <2>2
<1>6. ASSUME NEW s \in Server, NEW p \in Asked[s],
             Answer(s, p, "already") /\ UNCHANGED mappingVars
      PROVE  Watched(buckets', tree')
  BY <1>6, WatchedSame DEF mappingVars
<1>7. ASSUME NEW s \in Server, NEW p \in Asked[s], RegisterFails(s, p)
      PROVE  Watched(buckets', tree')
  <2>1. p \in Dirs
    BY <1>0, AskedAreDirs DEF TypeInv
  <2>2. QED
    BY <1>0, <1>7, <2>1, FirstScanMarks DEF RegisterFails, Watched
<1>8. ASSUME NEW s \in Server, NEW p \in Asked[s], NEW g \in BOOLEAN, Grows(s, p, g)
      PROVE  Watched(buckets', tree')
  BY <1>8, WatchedGrows
<1>9. ASSUME NEW s \in Server, NEW p \in Asked[s], Widens(s, p)
      PROVE  Watched(buckets', tree')
  BY <1>9, WatchedWidens
<1>10. ASSUME NEW s \in Server, JoinFails(s)
       PROVE  Watched(buckets', tree')
  <2>1. PICK p \in Dirs : tree' = FirstScan(p) /\ buckets' = buckets
    BY <1>0, <1>10, JoinFailsTree
  <2>2. QED
    BY <1>0, <2>1, FirstScanMarks DEF Watched
<1>11. QED
  BY <1>1, <1>2, <1>3, <1>4, <1>5, <1>6, <1>7, <1>8, <1>9, <1>10, StepCases

-----------------------------------------------------------------------------
(* What a server alone on its host is told.                                *)

\* Between updates, the listener of an unmarked bucket knows the nodes of the
\* tree below its path.
Told(c, t) ==
  \A i \in DOMAIN c :
    ~c[i].mark => c[i].told = DOMAIN t \cap Below(c[i].path)

ToldInv == Alone => Told(buckets, tree)

\* Whoever works is the server that is asked for something.
LEMMA AloneFacts ==
  ASSUME BaseInv, Alone
  PROVE  \E s \in Server :
           /\ \A r \in Server : Asked[r] # {} => r = s
           /\ \A r \in Server : phase[r] # "new" => r = s
           /\ \A i \in DOMAIN buckets : buckets[i].server = s
<1>1. PICK s \in Server : \A r \in Server : r = s <=> Asked[r] # {}
  BY DEF Alone
<1>2. \A r \in Server : phase[r] # "new" => r = s
  BY <1>1 DEF BaseInv, JoinedInv
<1>3. ASSUME NEW i \in DOMAIN buckets
      PROVE  buckets[i].server = s
  <2>1. buckets[i].server \in Server /\ buckets[i].path \in Asked[buckets[i].server]
    BY BucketParts DEF BaseInv, TreeInv, JoinedInv
  <2>2. QED
    BY <1>1, <2>1
<1>4. QED
  BY <1>1, <1>2, <1>3

\* A first scan finds nothing below a path that neither begins with the path
\* scanned nor is the beginning of it.
LEMMA FirstScanElsewhere ==
  ASSUME TreeInv, NEW p \in Dirs, NEW q \in Dirs, ~IsPrefix(q, p),
         FirstScanResult(p) = "ok" => ~IsPrefix(p, q)
  PROVE  DOMAIN FirstScan(p) \cap Below(q) = DOMAIN tree \cap Below(q)
<1>1. /\ DOMAIN tree \subseteq DOMAIN FirstScan(p)
      /\ \A d \in DOMAIN FirstScan(p) \ DOMAIN tree :
            IsPrefix(d, p) \/ (FirstScanResult(p) = "ok" /\ IsPrefix(p, d))
  BY FirstScanFacts
<1>2. ASSUME NEW d \in DOMAIN FirstScan(p) \ DOMAIN tree, d \in Below(q)
      PROVE  FALSE
  <2>1. d \in Dirs /\ IsPrefix(q, d)
    BY <1>2 DEF Below, IsStrictPrefix
  <2>2. CASE IsPrefix(d, p)
    BY <2>1, <2>2, PathOrder
  <2>3. CASE FirstScanResult(p) = "ok" /\ IsPrefix(p, d)
    BY <2>1, <2>3, PathOrder
  <2>4. QED
    BY <1>1, <1>2, <2>2, <2>3
<1>3. QED
  BY <1>1, <1>2

\* What vanished is what a notification names the top of.
LEMMA BelowVanished ==
  ASSUME TreeInv, NEW d \in DOMAIN tree \cup Created
  PROVE  d \in Vanished <=> \E r \in VanishedTop : IsPrefix(r, d)
<1>1. d \in Vanished => \E r \in VanishedTop : IsPrefix(r, d)
  BY TopExists
<1>2. ASSUME NEW r \in VanishedTop, IsPrefix(r, d), d \notin Vanished
      PROVE  FALSE
  <2>1. d \in Dirs /\ Exists(d) /\ r \in Dirs /\ ~Exists(r)
    BY <1>2 DEF VanishedTop, Vanished, Created, TreeInv, TypeInv, NodesOK
  <2>2. QED
    BY <1>2, <2>1 DEF TreeInv, FsClosed
<1>3. QED
  BY <1>1, <1>2

LEMMA ToldUpdate ==
  ASSUME TreeInv, Told(buckets, tree), Update
  PROVE  Told(buckets', tree')
<1>1. ASSUME NEW i \in DOMAIN buckets', ~buckets'[i].mark
      PROVE  buckets'[i].told = DOMAIN tree' \cap Below(buckets'[i].path)
  <2>1. PICK b \in Bucket : i \in DOMAIN buckets /\ b = buckets[i] /\ buckets'[i] = Notify(b)
    BY <1>1, UpdateTree
  <2>2. /\ buckets'[i].path = b.path /\ ~b.mark
        /\ buckets'[i].told = {d \in b.told \cup (Created \cap Below(b.path)) :
                                 \A r \in VanishedTop : ~IsPrefix(r, d)}
    BY <1>1, <2>1, NotifyFacts
  <2>3. b.told = DOMAIN tree \cap Below(b.path)
    BY <2>1, <2>2 DEF Told
  <2>4. DOMAIN tree' = (DOMAIN tree \ Vanished) \cup Created
    BY ScannedTreeFacts DEF Update
  <2>5. \A d \in DOMAIN tree \cup Created :
           d \notin Vanished <=> \A r \in VanishedTop : ~IsPrefix(r, d)
    BY BelowVanished
  <2>6. Created \cap Vanished = {}
    BY DEF Created, Vanished
  <2>7. QED
    BY <2>2, <2>3, <2>4, <2>5, <2>6
<1>2. QED
  BY <1>1 DEF Told

LEMMA ToldKept ==
  ASSUME TypeInv, Told(buckets, tree), UNCHANGED tree, NEW I, I \subseteq DOMAIN buckets,
         buckets' = Keep(buckets, I)
  PROVE  Told(buckets', tree')
BY KeptIsOld DEF Told

LEMMA ToldGrows ==
  ASSUME BaseInv, Alone, Told(buckets, tree), NEW s \in Server, NEW p \in Asked[s],
         NEW g \in BOOLEAN, Grows(s, p, g)
  PROVE  Told(buckets', tree')
<1>1. p \in Dirs /\ IsPrefix(p, p)
  BY AskedAreDirs, PathOrder DEF BaseInv, TreeInv, TypeInv
<1>2. \A i \in DOMAIN buckets : buckets[i].server = s
  BY AloneFacts
<1>3. FirstScanResult(p) = "ok" /\ tree' = FirstScan(p) /\ NodesOK(tree')
  BY <1>1, FirstScanFacts DEF Grows, BaseInv
<1>4. ASSUME NEW i \in DOMAIN buckets', ~buckets'[i].mark
      PROVE  buckets'[i].told = DOMAIN tree' \cap Below(buckets'[i].path)
  <2>1. CASE i \in DOMAIN buckets
    <3>1. buckets'[i] = buckets[i] /\ i \in Own(s) /\ buckets[i].path \in Dirs
      BY <1>2, <2>1, BucketParts DEF Grows, Appended, Own, BaseInv, TreeInv
    <3>2. ~IsPrefix(buckets[i].path, p) /\ ~IsPrefix(p, buckets[i].path)
      BY <1>1, <3>1 DEF Grows, Covering, InnerAt, IsStrictPrefix
    <3>3. DOMAIN tree' \cap Below(buckets[i].path) = DOMAIN tree \cap Below(buckets[i].path)
      BY <1>1, <1>3, <3>1, <3>2, FirstScanElsewhere DEF BaseInv
    <3>4. QED
      BY <1>4, <2>1, <3>1, <3>3 DEF Told
  <2>2. CASE i \notin DOMAIN buckets
    <3>1. buckets'[i] = NewBucket(s, p, tree', g)
      BY <1>4, <2>2 DEF Grows, Appended
    <3>2. QED
      BY <3>1 DEF NewBucket
  <2>3. QED
    BY <2>1, <2>2
<1>5. QED
  BY <1>4 DEF Told

LEMMA ToldWidens ==
  ASSUME BaseInv, Alone, Told(buckets, tree), NEW s \in Server, NEW p \in Asked[s],
         Widens(s, p)
  PROVE  Told(buckets', tree')
<1> DEFINE k == Inner(s, p)[1]
<1>1. /\ p \in Dirs
      /\ buckets'[k].path = p
      /\ \A i \in Own(s) : ~IsPrefix(buckets[i].path, p)
      /\ \A i \in Own(s) : i # k =>
           \/ buckets'[i].mark
           \/ /\ buckets'[i] = buckets[i]
              /\ ~IsPrefix(p, buckets[i].path)
  BY WidenedOwn
<1>2. /\ DOMAIN buckets' = DOMAIN buckets
      /\ tree' = Unmark(FirstScan(p), Unshared(Inner(s, p)))
      /\ buckets'[k].told = DOMAIN tree' \cap Below(p)
  BY DEF Widens, Widened, RegisterWider
<1>3. DOMAIN tree' = DOMAIN FirstScan(p)
  BY <1>2 DEF Unmark
<1> HIDE DEF k
<1>4. \A i \in DOMAIN buckets : i \in Own(s)
  BY AloneFacts DEF Own
<1>5. ASSUME NEW i \in DOMAIN buckets', ~buckets'[i].mark
      PROVE  buckets'[i].told = DOMAIN tree' \cap Below(buckets'[i].path)
  <2>1. CASE i = k
    BY <1>1, <1>2, <2>1
  <2>2. CASE i # k
    <3>1. /\ i \in Own(s) /\ buckets'[i] = buckets[i] /\ i \in DOMAIN buckets
          /\ ~IsPrefix(p, buckets[i].path) /\ ~IsPrefix(buckets[i].path, p)
      BY <1>1, <1>2, <1>4, <1>5, <2>2
    <3>2. buckets[i].path \in Dirs
      BY <3>1, BucketParts DEF BaseInv, TreeInv
    <3>3. DOMAIN tree' \cap Below(buckets[i].path) = DOMAIN tree \cap Below(buckets[i].path)
      BY <1>1, <1>3, <3>1, <3>2, FirstScanElsewhere DEF BaseInv
    <3>4. QED
      BY <1>5, <3>1, <3>3 DEF Told
  <2>3. QED
    BY <2>1, <2>2
<1>6. QED
  BY <1>5 DEF Told

LEMMA ToldStays ==
  ASSUME BaseInv, ToldInv, [Next]_vars
  PROVE  ToldInv'
<1>0. TreeInv /\ TypeInv
  BY DEF BaseInv, TreeInv
<1> SUFFICES ASSUME Alone, Told(buckets, tree)
             PROVE  Told(buckets', tree')
  BY ScenarioStays DEF ToldInv, Alone, Asked
<1>1. ASSUME UNCHANGED <<tree, buckets>>
      PROVE  Told(buckets', tree')
  BY <1>1 DEF Told
<1>2. CASE UNCHANGED vars \/ ChangeDirs \/ Finished
  BY <1>1, <1>2 DEF vars, ChangeDirs, Finished, mappingVars
<1>3. CASE Update
  BY <1>0, <1>3, ToldUpdate
<1>4. ASSUME NEW s \in Server, Accept(s) \/ Prune(s)
      PROVE  Told(buckets', tree')
  BY <1>1, <1>4 DEF Accept, Prune, mappingVars
<1>5. ASSUME NEW s \in Server, ReadNotifications(s)
      PROVE  Told(buckets', tree')
  <2>1. StaysAfterRead(s) \subseteq DOMAIN buckets
    BY DEF StaysAfterRead
  <2>2. tree' = tree /\ buckets' = Keep(buckets, StaysAfterRead(s))
    BY <1>5 DEF ReadNotifications
  <2>3. QED
    BY <1>0, <2>1, <2>2, ToldKept
<1>6. ASSUME NEW s \in Server, Leave(s)
      PROVE  Told(buckets', tree')
  <2>1. phase[s] = "up"
    BY <1>6 DEF Leave
  <2>2. ~\E r \in Server \ {s} : phase[r] \in {"up", "broken"}
    BY <2>1, AloneFacts
  <2>3. buckets' = <<>>
    BY <1>6, <2>2 DEF Leave
  <2>4. QED
    BY <2>3 DEF Told
<1>7. ASSUME NEW s \in Server, NEW p \in Asked[s],
             Answer(s, p, "already") /\ UNCHANGED mappingVars
      PROVE  Told(buckets', tree')
  BY <1>1, <1>7 DEF mappingVars
<1>8. ASSUME NEW s \in Server, NEW p \in Asked[s], RegisterFails(s, p)
      PROVE  Told(buckets', tree')
  <2>1. p \in Dirs
    BY <1>0, AskedAreDirs DEF TypeInv
  <2>2. /\ buckets' = buckets /\ tree' = FirstScan(p)
        /\ FirstScanResult(p) # "ok" /\ ~Covering(s, p)
    BY <1>8 DEF RegisterFails
  <2>3. ASSUME NEW i \in DOMAIN buckets
        PROVE  DOMAIN tree' \cap Below(buckets[i].path) = DOMAIN tree \cap Below(buckets[i].path)
    <3>1. i \in Own(s) /\ buckets[i].path \in Dirs
      BY <1>0, AloneFacts, BucketParts DEF Own
    <3>2. ~IsPrefix(buckets[i].path, p)
      BY <2>2, <3>1 DEF Covering
    <3>3. QED
      BY <1>0, <2>1, <2>2, <3>1, <3>2, FirstScanElsewhere
  <2>4. QED
    BY <2>2, <2>3 DEF Told
<1>9. ASSUME NEW s \in Server, NEW p \in Asked[s], NEW g \in BOOLEAN, Grows(s, p, g)
      PROVE  Told(buckets', tree')
  BY <1>9, ToldGrows
<1>10. ASSUME NEW s \in Server, NEW p \in Asked[s], Widens(s, p)
      PROVE  Told(buckets', tree')
  BY <1>10, ToldWidens
<1>11. ASSUME NEW s \in Server, JoinFails(s)
       PROVE  FALSE
  <2>1. /\ phase[s] = "new" /\ Asked[s] # {}
        /\ \E r \in Server : phase[r] \in {"up", "broken"}
    BY <1>11 DEF JoinFails, InUse
  <2>2. QED
    BY <2>1, AloneFacts
<1>12. QED
  BY <1>2, <1>3, <1>4, <1>5, <1>6, <1>7, <1>8, <1>9, <1>10, <1>11, StepCases

\* A server that is alone shares no path.
LEMMA AloneSharesNothing ==
  ASSUME Alone
  PROVE  InnerPathsUnshared(scenario)
BY DEF Alone, InnerPathsUnshared, Asked

WatchedInv == InnerPathsUnshared(scenario) => Watched(buckets, tree)

LEMMA WatchedAlways == Spec => [](BaseInv /\ WatchedInv)
<1>1. Init => WatchedInv
  <2> SUFFICES ASSUME Init PROVE WatchedInv
    OBVIOUS
  <2>1. DOMAIN buckets = {}
    BY DEF Init
  <2>2. QED
    BY <2>1 DEF WatchedInv, Watched
<1>2. BaseInv /\ WatchedInv /\ [Next]_vars => WatchedInv'
  BY WatchedStays, ScenarioStays DEF WatchedInv, InnerPathsUnshared
<1>3. QED
  BY <1>1, <1>2, BaseAlways, PTL DEF Spec

\* As long as one server runs on the host, when update finds nothing new what a
\* listener was told is how the directories below its path are, whatever became
\* of them in between and whatever the server was asked to monitor.
THEOREM ListenersKnowAll == Spec => []UpdateTellsAll
<1>1. Init => ToldInv
  <2> SUFFICES ASSUME Init PROVE ToldInv
    OBVIOUS
  <2>1. DOMAIN buckets = {}
    BY DEF Init
  <2>2. QED
    BY <2>1 DEF ToldInv, Told
<1>2. BaseInv /\ ToldInv /\ [Next]_vars => ToldInv'
  BY ToldStays
<1>3. BaseInv /\ WatchedInv /\ ToldInv => UpdateTellsAll
  <2> SUFFICES ASSUME BaseInv, WatchedInv, ToldInv, Alone,
                      Vanished \cup Changed \cup Created = {},
                      NEW i \in DOMAIN buckets, ~buckets[i].mark
               PROVE  buckets[i].told = {d \in Below(buckets[i].path) : Exists(d)}
    BY DEF UpdateTellsAll, ListenersKnow
  <2> DEFINE p == buckets[i].path
  <2>1. MonitoredIn(tree, p)
    BY AloneSharesNothing DEF WatchedInv, Watched
  <2>2. buckets[i].told = DOMAIN tree \cap Below(p)
    BY DEF ToldInv, Told
  <2>3. \A d \in DOMAIN tree : Exists(d)
    BY DEF Vanished
  <2>4. ASSUME NEW d \in Below(p), Exists(d)
        PROVE  d \in DOMAIN tree
    <3>1. Scanned(d) /\ d \in Dirs
      BY <2>1, <2>4 DEF Scanned, MonitoredIn, Below
    <3>2. QED
      BY <2>4, <3>1 DEF Created
  <2>5. QED
    BY <2>2, <2>3, <2>4
<1>4. QED
  BY <1>1, <1>2, <1>3, BaseAlways, WatchedAlways, PTL DEF Spec

-----------------------------------------------------------------------------
(* What the world does to the tree, and what marks a bucket.               *)

\* `updated` of a bucket can only be wrong where nothing marks a bucket.
GarbageIsHarmless(sc) ==
  "garbage" \in sc.world => sc.world \cap {"delete", "attrs"} = {}

\* Nothing that update marks a bucket for happens.
Lasting == World \cap {"delete", "attrs"} = {}

\* As long as no attributes change, those in the tree are those on the disk.
AttrsStay ==
  "attrs" \notin World =>
    /\ \A d \in Dirs : fs[d] \in {Gone, 1}
    /\ \A d \in DOMAIN tree : tree[d].attrs = 1

\* As long as no directory is deleted, those in the tree exist.
NodesExist == "delete" \notin World => \A d \in DOMAIN tree : Exists(d)

\* A bucket that is to be dropped without a word is marked.
UpdatedIsMarked ==
  "garbage" \notin World => \A i \in DOMAIN buckets : buckets[i].updated => buckets[i].mark

WorldInv == AttrsStay /\ NodesExist /\ UpdatedIsMarked

\* A node has the attributes it had, or those found on the disk.
NodeComesFrom(t, d) ==
  \/ d \in DOMAIN tree /\ t[d].attrs = tree[d].attrs
  \/ Exists(d) /\ t[d].attrs = fs[d]

LEMMA NodesCome ==
  ASSUME BaseInv, [Next]_vars
  PROVE  \A d \in DOMAIN tree' : NodeComesFrom(tree', d)
<1>0. TreeInv /\ TypeInv /\ NodesOK(tree) /\ ClosedTree(tree)
  BY DEF BaseInv, TreeInv, TypeInv
<1>1. ASSUME UNCHANGED tree
      PROVE  \A d \in DOMAIN tree' : NodeComesFrom(tree', d)
  BY <1>1 DEF NodeComesFrom
<1>2. ASSUME NEW p \in Dirs
      PROVE  /\ \A d \in DOMAIN FirstScan(p) : NodeComesFrom(FirstScan(p), d)
             /\ NodesOK(FirstScan(p))
  <2>1. /\ \A d \in DOMAIN tree : FirstScan(p)[d].attrs = tree[d].attrs
        /\ \A d \in DOMAIN FirstScan(p) \ DOMAIN tree :
              Exists(d) /\ FirstScan(p)[d].attrs = fs[d]
        /\ NodesOK(FirstScan(p))
    BY <1>0, FirstScanFacts
  <2>2. QED
    BY <2>1 DEF NodeComesFrom
<1>3. ASSUME NEW t, NodesOK(t), \A d \in DOMAIN t : NodeComesFrom(t, d), NEW P
      PROVE  \A d \in DOMAIN Unmark(t, P) : NodeComesFrom(Unmark(t, P), d)
  <2>1. /\ DOMAIN Unmark(t, P) = DOMAIN t
        /\ \A d \in DOMAIN t : Unmark(t, P)[d].attrs = t[d].attrs
    BY <1>3, UnmarkFacts
  <2>2. QED
    BY <1>3, <2>1 DEF NodeComesFrom
<1>4. CASE UNCHANGED vars \/ ChangeDirs \/ Finished
  BY <1>1, <1>4 DEF vars, ChangeDirs, Finished, mappingVars
<1>5. CASE Update
  <2>1. /\ DOMAIN ScannedTree = (DOMAIN tree \ Vanished) \cup Created
        /\ \A d \in DOMAIN ScannedTree :
             /\ Exists(d)
             /\ \/ ScannedTree[d].attrs = fs[d]
                \/ d \in DOMAIN tree /\ ScannedTree[d].attrs = tree[d].attrs
    BY <1>0, ScannedTreeFacts
  <2>2. QED
    BY <1>5, <2>1 DEF Update, NodeComesFrom
<1>6. ASSUME NEW s \in Server, Accept(s) \/ Prune(s) \/ ReadNotifications(s)
      PROVE  UNCHANGED tree
  BY <1>6 DEF Accept, Prune, ReadNotifications, mappingVars
<1>7. ASSUME NEW s \in Server, Leave(s)
      PROVE  \A d \in DOMAIN tree' : NodeComesFrom(tree', d)
  <2>1. CASE tree' = EmptyTree
    <3>1. DOMAIN tree' = {}
      BY <2>1 DEF EmptyTree
    <3>2. QED
      BY <3>1
  <2>2. CASE tree' = Clean(UnmarkOwn(s, buckets'))
    <3> DEFINE t == UnmarkOwn(s, buckets')
    <3>1. \A d \in DOMAIN tree : NodeComesFrom(tree, d)
      BY DEF NodeComesFrom
    <3>2. \A d \in DOMAIN t : NodeComesFrom(t, d)
      BY <1>0, <1>3, <3>1 DEF UnmarkOwn
    <3>3. NodesOK(t) /\ DOMAIN t = DOMAIN tree
      BY <1>0, UnmarkFacts DEF UnmarkOwn
    <3>4. ClosedTree(t)
      BY <1>0, <3>3 DEF ClosedTree
    <3> HIDE DEF t
    <3>5. DOMAIN Clean(t) \subseteq DOMAIN t /\ \A d \in DOMAIN Clean(t) : Clean(t)[d] = t[d]
      BY <3>3, <3>4, CleanFacts
    <3>6. \A d \in DOMAIN Clean(t) : NodeComesFrom(Clean(t), d)
      BY <3>2, <3>5 DEF NodeComesFrom
    <3>7. QED
      BY <2>2, <3>6 DEF t
  <2>3. QED
    BY <1>0, <1>1, <1>7, <2>1, <2>2, LeaveFacts
<1>8. ASSUME NEW s \in Server, NEW p \in Asked[s],
             \/ RegisterFails(s, p)
             \/ \E g \in BOOLEAN : Grows(s, p, g)
             \/ Widens(s, p)
      PROVE  \A d \in DOMAIN tree' : NodeComesFrom(tree', d)
  <2>1. p \in Dirs
    BY <1>0, AskedAreDirs DEF TypeInv
  <2>2. CASE RegisterFails(s, p) \/ \E g \in BOOLEAN : Grows(s, p, g)
    BY <1>2, <2>1, <2>2 DEF RegisterFails, Grows
  <2>3. CASE Widens(s, p)
    <3>1. tree' = Unmark(FirstScan(p), Unshared(Inner(s, p)))
      BY <2>3 DEF Widens, RegisterWider
    <3>2. QED
      BY <1>2, <1>3, <2>1, <3>1
  <2>4. QED
    BY <1>8, <2>2, <2>3
<1>9. ASSUME NEW s \in Server, NEW p \in Asked[s],
             Answer(s, p, "already") /\ UNCHANGED mappingVars
      PROVE  UNCHANGED tree
  BY <1>9 DEF mappingVars
<1>10. ASSUME NEW s \in Server, JoinFails(s)
       PROVE  \A d \in DOMAIN tree' : NodeComesFrom(tree', d)
  BY <1>0, <1>2, <1>10, JoinFailsTree
<1>11. QED
  BY <1>1, <1>4, <1>5, <1>6, <1>7, <1>8, <1>9, <1>10, StepCases

\* Only other programs change the directories.
LEMMA FsSteps ==
  ASSUME [Next]_vars
  PROVE  UNCHANGED fs \/ (UNCHANGED tree /\ ChangeDirs)
BY ServerSteps DEF Next, vars, Update, ChangeDirs, Finished, mappingVars

LEMMA AttrsStayStays ==
  ASSUME BaseInv, AttrsStay, [Next]_vars
  PROVE  AttrsStay'
<1> SUFFICES ASSUME "attrs" \notin World
             PROVE  /\ \A d \in Dirs : fs'[d] \in {Gone, 1}
                    /\ \A d \in DOMAIN tree' : tree'[d].attrs = 1
  BY ScenarioStays DEF AttrsStay, World
<1>1. /\ \A d \in Dirs : fs[d] \in {Gone, 1}
      /\ \A d \in DOMAIN tree : tree[d].attrs = 1
  BY DEF AttrsStay
<1>2. \A d \in Dirs : fs'[d] \in {Gone, 1}
  <2>1. CASE UNCHANGED fs
    BY <1>1, <2>1
  <2>2. CASE ChangeDirs
    <3>1. PICK d \in Dirs : Create(d) \/ Delete(d)
      BY <2>2 DEF ChangeDirs, SetAttrs
    <3>2. fs \in [Dirs -> {Gone} \cup Attrs]
      BY DEF BaseInv, TreeInv, TypeInv
    <3>3. QED
      BY <1>1, <3>1, <3>2 DEF Create, Delete
  <2>3. QED
    BY <2>1, <2>2, FsSteps
<1>3. \A d \in DOMAIN tree' : tree'[d].attrs = 1
  <2>1. ASSUME NEW d \in DOMAIN tree'
        PROVE  tree'[d].attrs = 1
    <3>1. CASE d \in DOMAIN tree /\ tree'[d].attrs = tree[d].attrs
      BY <1>1, <3>1
    <3>2. CASE Exists(d) /\ tree'[d].attrs = fs[d]
      <4>1. d \in Dirs
        BY <2>1, NextTree DEF BaseInv, TreeInv, TypeInv, NodesOK
      <4>2. QED
        BY <1>1, <3>2, <4>1 DEF Exists
    <3>3. QED
      BY <2>1, <3>1, <3>2, NodesCome DEF NodeComesFrom
  <2>2. QED
    BY <2>1
<1>4. QED
  BY <1>2, <1>3

LEMMA NodesExistStays ==
  ASSUME BaseInv, NodesExist, [Next]_vars
  PROVE  NodesExist'
<1> SUFFICES ASSUME "delete" \notin World, NEW d \in DOMAIN tree'
             PROVE  fs'[d] # Gone
  BY ScenarioStays DEF NodesExist, World, Exists
<1>1. fs[d] # Gone
  BY NodesCome DEF NodeComesFrom, NodesExist, Exists
<1>2. CASE UNCHANGED fs
  BY <1>1, <1>2
<1>3. CASE ChangeDirs
  <2>1. PICK e \in Dirs : Create(e) \/ SetAttrs(e)
    BY <1>3 DEF ChangeDirs, Delete
  <2>2. fs \in [Dirs -> {Gone} \cup Attrs]
    BY DEF BaseInv, TreeInv, TypeInv
  <2>3. d \in Dirs
    BY NextTree DEF BaseInv, TreeInv, TypeInv, NodesOK
  <2>4. QED
    BY <1>1, <2>1, <2>2, <2>3 DEF Create, SetAttrs, Attrs, Gone
<1>4. QED
  BY <1>2, <1>3, FsSteps

\* What a step makes of `mark` and `updated` of the buckets that stay.
LEMMA UpdatedIsMarkedStays ==
  ASSUME BaseInv, UpdatedIsMarked, [Next]_vars
  PROVE  UpdatedIsMarked'
<1>0. TreeInv /\ TypeInv
  BY DEF BaseInv, TreeInv
<1> SUFFICES ASSUME "garbage" \notin World, NEW i \in DOMAIN buckets', buckets'[i].updated
             PROVE  buckets'[i].mark
  BY ScenarioStays DEF UpdatedIsMarked, World
<1>1. \A j \in DOMAIN buckets : buckets[j].updated => buckets[j].mark
  BY DEF UpdatedIsMarked
<1>2. CASE \E j \in DOMAIN buckets : buckets'[i] = buckets[j]
  BY <1>1, <1>2
<1>3. CASE Update
  <2>1. PICK b \in Bucket : i \in DOMAIN buckets /\ b = buckets[i] /\ buckets'[i] = Notify(b)
    BY <1>0, <1>3, UpdateTree
  <2>2. buckets'[i].updated = b.updated /\ (b.mark => buckets'[i] = b)
    BY <2>1, NotifyFacts
  <2>3. QED
    BY <1>1, <2>1, <2>2
<1>4. ASSUME NEW s \in Server, Leave(s) \/ ReadNotifications(s)
      PROVE  \E j \in DOMAIN buckets : buckets'[i] = buckets[j]
  <2>1. CASE buckets' = <<>>
    BY <2>1
  <2>2. CASE buckets' # <<>>
    <3>1. PICK I \in SUBSET DOMAIN buckets : buckets' = Keep(buckets, I)
      BY <1>4, <2>2 DEF Leave, Unregister, BucketsLeft, ReadNotifications, StaysAfterRead
    <3>2. QED
      BY <1>0, <3>1, KeptIsOld
  <2>3. QED
    BY <2>1, <2>2
<1>5. ASSUME NEW s \in Server, NEW p \in Asked[s], NEW g \in BOOLEAN, Grows(s, p, g)
      PROVE  buckets'[i].mark
  <2>1. CASE i \in DOMAIN buckets
    BY <1>1, <1>5, <2>1 DEF Grows, Appended
  <2>2. CASE i \notin DOMAIN buckets
    <3>1. buckets'[i] = NewBucket(s, p, tree', g) /\ g = FALSE
      BY <1>5, <2>2 DEF Grows, Appended
    <3>2. buckets'[i].updated = FALSE
      BY <3>1 DEF NewBucket
    <3>3. QED
      BY <3>2
  <2>3. QED
    BY <2>1, <2>2
<1>6. ASSUME NEW s \in Server, NEW p \in Asked[s], Widens(s, p)
      PROVE  buckets'[i].mark
  <2> DEFINE k == Inner(s, p)[1]
             I == InnerAt(s, p)
  <2>1. k \in I /\ I \subseteq Own(s) /\ Widened(buckets', I, k, p, tree')
    BY <1>6 DEF Widens
  <2> HIDE DEF k, I
  <2>2. /\ i \in DOMAIN buckets /\ k \in DOMAIN buckets
        /\ buckets'[k].mark = buckets[k].mark /\ buckets'[k].updated = buckets[k].updated
        /\ \A j \in I \ {k} : buckets'[j].mark
        /\ \A j \in DOMAIN buckets \ I : buckets'[j] = buckets[j]
    BY <2>1 DEF Widened, Own
  <2>3. CASE i = k
    BY <1>1, <2>2, <2>3
  <2>4. CASE i \in I \ {k}
    BY <2>2, <2>4
  <2>5. CASE i \in DOMAIN buckets \ I
    BY <1>1, <2>2, <2>5
  <2>6. QED
    BY <2>2, <2>3, <2>4, <2>5
<1>7. CASE UNCHANGED buckets
  BY <1>1, <1>7
<1>8. (UNCHANGED vars \/ ChangeDirs \/ Finished) => UNCHANGED buckets
  BY DEF vars, ChangeDirs, Finished, mappingVars
<1>9. ASSUME NEW s \in Server,
             \/ Accept(s) \/ Prune(s) \/ JoinFails(s)
             \/ \E p \in Asked[s] : RegisterFails(s, p) \/ UNCHANGED mappingVars
      PROVE  UNCHANGED buckets
  BY <1>9 DEF Accept, Prune, JoinFails, RegisterFails, mappingVars
<1>10. QED
  BY <1>2, <1>3, <1>4, <1>5, <1>6, <1>7, <1>8, <1>9, StepCases

LEMMA WorldAlways == Spec => [](BaseInv /\ WorldInv)
<1>1. Init => WorldInv
  <2> SUFFICES ASSUME Init PROVE WorldInv
    OBVIOUS
  <2>1. DOMAIN buckets = {} /\ DOMAIN tree = {} /\ \A d \in Dirs : fs[d] \in {Gone, 1}
    BY DEF Init
  <2>2. QED
    BY <2>1 DEF WorldInv, AttrsStay, NodesExist, UpdatedIsMarked
<1>2. BaseInv /\ WorldInv /\ [Next]_vars => WorldInv'
  BY AttrsStayStays, NodesExistStays, UpdatedIsMarkedStays DEF WorldInv
<1>3. QED
  BY <1>1, <1>2, BaseAlways, PTL DEF Spec

-----------------------------------------------------------------------------
(* A bucket that is dropped without a word has one above it.               *)

\* Bucket j comes before bucket i, and is of the same server for a directory
\* above; it is not marked itself, where nothing but a registration marks.
LeadsUp(i, j) ==
  /\ j < i /\ buckets[j].server = buckets[i].server
  /\ IsStrictPrefix(buckets[j].path, buckets[i].path)
  /\ Lasting => ~buckets[j].mark

\* A bucket of a server that runs was marked by a registration of the path of
\* another one, if it is to be dropped without a word or if update marks none.
Covered ==
  \A i \in DOMAIN buckets :
    phase[buckets[i].server] = "up" /\ buckets[i].mark
      /\ (buckets[i].updated \/ Lasting)
    => \E j \in DOMAIN buckets : LeadsUp(i, j)

CoverInv == InnerPathsUnshared(scenario) /\ GarbageIsHarmless(scenario) => Covered

\* Of a path p to register, the first bucket below is not one that is dropped
\* without a word.
LEMMA FirstInnerIsNot ==
  ASSUME BaseInv, Covered, NEW s \in Server, phase[s] = "up",
         NEW p \in Dirs, ~Covering(s, p),
         NEW k \in InnerAt(s, p), \A i \in InnerAt(s, p) : k <= i,
         buckets[k].updated \/ Lasting
  PROVE  ~buckets[k].mark
<1> SUFFICES ASSUME buckets[k].mark
             PROVE  FALSE
  OBVIOUS
<1>1. k \in DOMAIN buckets /\ buckets[k].server = s /\ IsStrictPrefix(p, buckets[k].path)
  BY DEF InnerAt, Own
<1>2. PICK j \in DOMAIN buckets : LeadsUp(k, j)
  BY <1>1 DEF Covered
<1>3. /\ j < k /\ buckets[j].server = s
      /\ IsPrefix(buckets[j].path, buckets[k].path)
      /\ j \in Nat /\ k \in Nat
      /\ buckets[j].path \in Dirs /\ buckets[k].path \in Dirs
  BY <1>1, <1>2, BucketParts DEF LeadsUp, IsStrictPrefix, BaseInv, TreeInv
<1>4. j \in Own(s) /\ j \notin InnerAt(s, p)
  BY <1>3 DEF Own
<1>5. ~IsPrefix(buckets[j].path, p) /\ ~IsStrictPrefix(p, buckets[j].path)
  BY <1>4 DEF Covering, InnerAt
<1>6. QED
  BY <1>1, <1>3, <1>5, PathOrder DEF IsStrictPrefix

LEMMA LastingStays ==
  ASSUME [Next]_vars
  PROVE  Lasting' <=> Lasting
BY ScenarioStays DEF Lasting, World

LEMMA CoveredSame ==
  ASSUME BaseInv, Covered, [Next]_vars, UNCHANGED buckets
  PROVE  Covered'
BY WasUp, LastingStays DEF Covered, LeadsUp

LEMMA CoveredGrows ==
  ASSUME BaseInv, Covered, [Next]_vars, NEW s \in Server, NEW p \in Asked[s],
         NEW g \in BOOLEAN, Grows(s, p, g)
  PROVE  Covered'
<1>1. ASSUME NEW i \in DOMAIN buckets', phase'[buckets'[i].server] = "up",
             buckets'[i].mark, buckets'[i].updated \/ Lasting
      PROVE  \E j \in DOMAIN buckets' : LeadsUp(i, j)'
  <2>1. i \in DOMAIN buckets /\ buckets'[i] = buckets[i]
    <3>1. CASE i \notin DOMAIN buckets
      <4>1. buckets'[i] = NewBucket(s, p, tree', g)
        BY <1>1, <3>1 DEF Grows, Appended
      <4>2. QED
        BY <1>1, <4>1 DEF NewBucket
    <3>2. QED
      BY <1>1, <3>1 DEF Grows, Appended
  <2>2. phase[buckets[i].server] = "up"
    BY <1>1, <2>1, WasUp
  <2>3. PICK j \in DOMAIN buckets : LeadsUp(i, j)
    BY <1>1, <2>1, <2>2 DEF Covered
  <2>4. j \in DOMAIN buckets' /\ buckets'[j] = buckets[j]
    BY DEF Grows, Appended
  <2>5. QED
    BY <2>1, <2>3, <2>4, LastingStays DEF LeadsUp
<1>2. QED
  BY <1>1, LastingStays DEF Covered

LEMMA CoveredWidens ==
  ASSUME BaseInv, Covered, [Next]_vars, NEW s \in Server, NEW p \in Asked[s],
         Widens(s, p)
  PROVE  Covered'
<1> DEFINE k == Inner(s, p)[1]
<1>1. /\ p \in Dirs
      /\ k \in Own(s) /\ IsStrictPrefix(p, buckets[k].path)
      /\ buckets'[k].path = p /\ buckets'[k].mark = buckets[k].mark
      /\ \A i \in DOMAIN buckets : i # k => buckets'[i].path = buckets[i].path
      /\ \A i \in Own(s) : ~IsPrefix(buckets[i].path, p)
      /\ \A i \in DOMAIN buckets :
           \/ i = k
           \/ buckets'[i] = buckets[i]
           \/ i \in Own(s) /\ buckets'[i].mark /\ buckets'[i].updated
      /\ \A i \in Own(s) : i # k =>
           \/ /\ IsStrictPrefix(p, buckets[i].path) /\ k < i
              /\ buckets'[i].mark /\ buckets'[i].updated
           \/ /\ buckets'[i] = buckets[i]
              /\ ~IsPrefix(p, buckets[i].path)
  BY WidenedOwn
<1>2. /\ k \in InnerAt(s, p) /\ \A i \in InnerAt(s, p) : k <= i
      /\ ~Covering(s, p) /\ phase[s] = "up"
      /\ DOMAIN buckets' = DOMAIN buckets
      /\ \A i \in DOMAIN buckets : buckets'[i].server = buckets[i].server
      /\ buckets'[k].updated = buckets[k].updated
  BY DEF Widens, Widened, RegisterWider, Asks
<1> HIDE DEF k
<1>3. buckets[k].updated \/ Lasting => ~buckets[k].mark
  BY <1>1, <1>2, FirstInnerIsNot
<1>4. \A i : i \in Own(s) <=> i \in DOMAIN buckets /\ buckets[i].server = s
  BY DEF Own
<1>5. \A i \in DOMAIN buckets : buckets[i].path \in Dirs
  BY BucketParts DEF BaseInv, TreeInv
<1>6. ASSUME NEW i \in DOMAIN buckets', phase'[buckets'[i].server] = "up",
             buckets'[i].mark, buckets'[i].updated \/ Lasting
      PROVE  \E j \in DOMAIN buckets' : LeadsUp(i, j)'
  <2>1. i \in DOMAIN buckets /\ i # k /\ buckets'[i].path = buckets[i].path
    BY <1>1, <1>2, <1>3, <1>6
  <2>2. CASE i \in Own(s) /\ IsStrictPrefix(p, buckets[i].path) /\ k < i
    <3>1. /\ k \in DOMAIN buckets' /\ buckets'[k].server = buckets'[i].server
          /\ IsStrictPrefix(buckets'[k].path, buckets'[i].path)
          /\ Lasting => ~buckets'[k].mark
      BY <1>1, <1>2, <1>3, <1>4, <2>1, <2>2
    <3>2. QED
      BY <2>2, <3>1, LastingStays DEF LeadsUp
  <2>3. CASE buckets'[i] = buckets[i] /\ (i \in Own(s) => ~IsPrefix(p, buckets[i].path))
    <3>1. phase[buckets[i].server] = "up"
      BY <1>6, <2>1, <2>3, WasUp
    <3>2. PICK j \in DOMAIN buckets : LeadsUp(i, j)
      BY <1>6, <2>1, <2>3, <3>1 DEF Covered
    <3>3. /\ buckets[j].server = buckets[i].server
          /\ IsPrefix(buckets[j].path, buckets[i].path)
      BY <3>2 DEF LeadsUp, IsStrictPrefix
    <3>4. j \in Own(s) => ~IsPrefix(p, buckets[j].path)
      <4> SUFFICES ASSUME j \in Own(s), IsPrefix(p, buckets[j].path)
                   PROVE  FALSE
        OBVIOUS
      <4>1. i \in Own(s)
        BY <1>4, <2>1, <3>3
      <4>2. IsPrefix(p, buckets[i].path)
        BY <1>1, <1>5, <2>1, <3>3, PathOrder
      <4>3. QED
        BY <2>3, <4>1, <4>2
    <3>5. j # k
      BY <1>1, <3>4 DEF IsStrictPrefix
    <3>6. buckets'[j] = buckets[j]
      BY <1>1, <3>4, <3>5 DEF IsStrictPrefix
    <3>7. QED
      BY <1>2, <2>3, <3>2, <3>6, LastingStays DEF LeadsUp
  <2>4. QED
    BY <1>1, <1>4, <2>1, <2>2, <2>3
<1>7. QED
  BY <1>6, LastingStays DEF Covered

\* Where nothing is deleted and no attributes change, update marks no bucket.
LEMMA LastingMarksNone ==
  ASSUME BaseInv, WorldInv, Watched(buckets, tree), Update, Lasting,
         NEW i \in DOMAIN buckets, ~buckets[i].mark
  PROVE  ~buckets'[i].mark
<1>0. TreeInv /\ TypeInv
  BY DEF BaseInv, TreeInv
<1>1. PICK b \in Bucket : b = buckets[i] /\ buckets'[i] = Notify(b)
  BY <1>0, UpdateTree
<1>2. MonitoredIn(tree, b.path) /\ b.path \in Dirs
  BY <1>0, <1>1, BucketParts DEF Watched
<1>3. "delete" \notin World /\ "attrs" \notin World
  BY DEF Lasting
<1>4. VanishedTop = {}
  BY <1>3 DEF VanishedTop, Vanished, WorldInv, NodesExist
<1>5. Changed = {}
  <2>1. \A d \in DOMAIN tree \ Vanished : d \in Dirs /\ Exists(d) /\ tree[d].attrs = 1
    BY <1>0, <1>3 DEF WorldInv, AttrsStay, Vanished, TypeInv, NodesOK
  <2>2. \A d \in Dirs : Exists(d) => fs[d] = 1
    BY <1>3 DEF WorldInv, AttrsStay, Exists
  <2>3. QED
    BY <2>1, <2>2 DEF Changed
<1>6. ASSUME NEW r \in Created, IsPrefix(r, b.path)
      PROVE  FALSE
  BY <1>0, <1>2, <1>6 DEF MonitoredIn, TreeInv, ClosedTree, Created
<1>7. ~buckets'[i].mark
  BY <1>1, <1>4, <1>5, <1>6, NotifyFacts
<1>8. QED
  BY <1>7

LEMMA CoveredUpdate ==
  ASSUME BaseInv, WorldInv, GarbageIsHarmless(scenario), Watched(buckets, tree),
         Covered, [Next]_vars, Update
  PROVE  Covered'
<1>0. TreeInv /\ TypeInv
  BY DEF BaseInv, TreeInv
<1>1. DOMAIN buckets' = DOMAIN buckets
  BY <1>0, UpdateTree
<1>2. ASSUME NEW i \in DOMAIN buckets
      PROVE  /\ buckets'[i].server = buckets[i].server
             /\ buckets'[i].path = buckets[i].path
             /\ buckets'[i].updated = buckets[i].updated
             /\ buckets[i].mark => buckets'[i].mark
             /\ Lasting /\ buckets'[i].mark => buckets[i].mark
  <2>1. PICK b \in Bucket : b = buckets[i] /\ buckets'[i] = Notify(b)
    BY <1>0, <1>2, UpdateTree
  <2>2. /\ buckets'[i].server = b.server /\ buckets'[i].path = b.path
        /\ buckets'[i].updated = b.updated
        /\ b.mark => buckets'[i] = b
    BY <2>1, NotifyFacts
  <2>3. Lasting /\ buckets'[i].mark => buckets[i].mark
    BY LastingMarksNone
  <2>4. QED
    BY <2>1, <2>2, <2>3
<1>3. \A i \in DOMAIN buckets : buckets[i].updated => buckets[i].mark \/ Lasting
  BY DEF WorldInv, UpdatedIsMarked, GarbageIsHarmless, Lasting, World
<1>4. ASSUME NEW i \in DOMAIN buckets', phase'[buckets'[i].server] = "up",
             buckets'[i].mark, buckets'[i].updated \/ Lasting
      PROVE  \E j \in DOMAIN buckets' : LeadsUp(i, j)'
  <2>1. i \in DOMAIN buckets /\ buckets[i].mark /\ (buckets[i].updated \/ Lasting)
    BY <1>1, <1>2, <1>3, <1>4
  <2>2. phase[buckets[i].server] = "up"
    BY <1>2, <1>4, <2>1, WasUp
  <2>3. PICK j \in DOMAIN buckets : LeadsUp(i, j)
    BY <2>1, <2>2 DEF Covered
  <2>4. LeadsUp(i, j)'
    BY <1>2, <2>1, <2>3, LastingStays, Zenon DEF LeadsUp
  <2>5. QED
    BY <1>1, <2>3, <2>4
<1>5. QED
  BY <1>4, LastingStays DEF Covered

\* A server takes buckets of its own out of the list.
LEMMA CoveredKept ==
  ASSUME BaseInv, Covered, [Next]_vars, NEW s, NEW I, I \subseteq DOMAIN buckets,
         buckets' = Keep(buckets, I),
         \A i \in DOMAIN buckets : buckets[i].server # s => i \in I,
         \A i \in I : /\ phase'[buckets[i].server] = "up" /\ buckets[i].mark
                      /\ buckets[i].updated \/ Lasting
                      => buckets[i].server # s
  PROVE  Covered'
<1>0. TypeInv
  BY DEF BaseInv, TreeInv
<1>1. PICK e \in [DOMAIN buckets' -> I] :
        /\ \A m, n \in DOMAIN buckets' : m < n => e[m] < e[n]
        /\ \A i \in I : \E m \in DOMAIN buckets' : e[m] = i
        /\ \A m \in DOMAIN buckets' : buckets'[m] = buckets[e[m]]
  BY <1>0, KeptBuckets
<1>2. /\ \A m \in DOMAIN buckets' : m \in Nat
      /\ \A i \in I : i \in Nat
  <2>1. buckets' \in Seq(Bucket) /\ DOMAIN buckets' = 1..Len(buckets')
    BY <1>0, KeptBuckets
  <2>2. DOMAIN buckets = 1..Len(buckets)
    BY <1>0, BucketParts
  <2>3. QED
    BY <2>1, <2>2
<1>3. ASSUME NEW m \in DOMAIN buckets', phase'[buckets'[m].server] = "up",
             buckets'[m].mark, buckets'[m].updated \/ Lasting
      PROVE  \E n \in DOMAIN buckets' : LeadsUp(m, n)'
  <2>1. PICK i \in I : i = e[m] /\ buckets'[m] = buckets[i] /\ i \in DOMAIN buckets
    BY <1>1
  <2>2. buckets[i].server # s
    BY <1>3, <2>1
  <2>3. phase[buckets[i].server] = "up"
    BY <1>3, <2>1, WasUp
  <2>4. PICK j \in DOMAIN buckets : LeadsUp(i, j)
    BY <1>3, <2>1, <2>3 DEF Covered
  <2>5. j \in I
    BY <2>2, <2>4 DEF LeadsUp
  <2>6. PICK n \in DOMAIN buckets' : e[n] = j /\ buckets'[n] = buckets[j]
    BY <1>1, <2>5
  <2>7. j < i
    BY <2>4 DEF LeadsUp
  <2>8. n < m
    <3>1. n # m /\ ~(m < n)
      BY <1>1, <1>2, <2>1, <2>5, <2>6, <2>7
    <3>2. QED
      BY <1>2, <3>1
  <2>9. LeadsUp(m, n)'
    BY <2>1, <2>4, <2>6, <2>8, LastingStays DEF LeadsUp
  <2>10. QED
    BY <2>9
<1>4. QED
  BY <1>3, LastingStays DEF Covered

LEMMA CoveredStays ==
  ASSUME BaseInv, WorldInv, GarbageIsHarmless(scenario), Watched(buckets, tree),
         Covered, [Next]_vars
  PROVE  Covered'
<1>0. TypeInv
  BY DEF BaseInv, TreeInv
<1>1. ASSUME UNCHANGED buckets
      PROVE  Covered'
  BY <1>1, CoveredSame
<1>2. (UNCHANGED vars \/ ChangeDirs \/ Finished) => UNCHANGED buckets
  BY DEF vars, ChangeDirs, Finished, mappingVars
<1>3. CASE Update
  BY <1>3, CoveredUpdate
<1>4. ASSUME NEW s \in Server,
             \/ Accept(s) \/ Prune(s) \/ JoinFails(s)
             \/ \E p \in Asked[s] : RegisterFails(s, p) \/ UNCHANGED mappingVars
      PROVE  UNCHANGED buckets
  BY <1>4 DEF Accept, Prune, JoinFails, RegisterFails, mappingVars
<1>5. ASSUME NEW s \in Server, ReadNotifications(s)
      PROVE  Covered'
  <2>1. /\ StaysAfterRead(s) \subseteq DOMAIN buckets
        /\ \A i \in DOMAIN buckets : buckets[i].server # s => i \in StaysAfterRead(s)
        /\ \A i \in StaysAfterRead(s) : buckets[i].mark => buckets[i].server # s
    BY DEF StaysAfterRead, Own
  <2>2. buckets' = Keep(buckets, StaysAfterRead(s))
    BY <1>5 DEF ReadNotifications
  <2>3. QED
    BY <2>1, <2>2, CoveredKept
<1>6. ASSUME NEW s \in Server, Leave(s)
      PROVE  Covered'
  <2>1. CASE buckets' = <<>>
    <3>1. DOMAIN buckets' = {}
      BY <2>1
    <3>2. QED
      BY <3>1 DEF Covered
  <2>2. CASE buckets' # <<>>
    <3>1. buckets' = Keep(buckets, StaysAfterLeave(s))
      BY <1>6, <2>2, LeaveFacts DEF BaseInv
    <3>2. /\ StaysAfterLeave(s) \subseteq DOMAIN buckets
          /\ \A i \in DOMAIN buckets : buckets[i].server # s => i \in StaysAfterLeave(s)
      BY DEF StaysAfterLeave, Own
    <3>3. phase'[s] # "up"
      BY <1>0, <1>6 DEF Leave, TypeInv
    <3>4. QED
      BY <3>1, <3>2, <3>3, CoveredKept
  <2>3. QED
    BY <2>1, <2>2
<1>7. ASSUME NEW s \in Server, NEW p \in Asked[s], NEW g \in BOOLEAN, Grows(s, p, g)
      PROVE  Covered'
  BY <1>7, CoveredGrows
<1>8. ASSUME NEW s \in Server, NEW p \in Asked[s], Widens(s, p)
      PROVE  Covered'
  BY <1>8, CoveredWidens
<1>9. QED
  BY <1>1, <1>2, <1>3, <1>4, <1>5, <1>6, <1>7, <1>8, StepCases

LEMMA CoverAlways == Spec => [](BaseInv /\ WorldInv /\ WatchedInv /\ CoverInv)
<1>1. Init => CoverInv
  <2> SUFFICES ASSUME Init PROVE CoverInv
    OBVIOUS
  <2>1. DOMAIN buckets = {}
    BY DEF Init
  <2>2. QED
    BY <2>1 DEF CoverInv, Covered
<1>2. BaseInv /\ WorldInv /\ WatchedInv /\ CoverInv /\ [Next]_vars => CoverInv'
  BY CoveredStays, ScenarioStays
     DEF CoverInv, WatchedInv, InnerPathsUnshared, GarbageIsHarmless
<1>3. QED
  BY <1>1, <1>2, WorldAlways, WatchedAlways, PTL DEF Spec

\* Attributes change only where directories are deleted too.
AttrsWithDelete(sc) == "attrs" \in sc.world => "delete" \in sc.world

ScenarioInv ==
  /\ BaseInv /\ WorldInv
  /\ Watched(buckets, tree) /\ Covered

\* Where no server is asked for a path inside its own that another one is asked
\* for, and a wrong `updated` does no harm, all that was found holds.
LEMMA ScenarioAlways ==
  ASSUME \A sc \in Scenarios : InnerPathsUnshared(sc) /\ GarbageIsHarmless(sc)
  PROVE  Spec => []ScenarioInv
<1>1. BaseInv /\ WorldInv /\ WatchedInv /\ CoverInv => ScenarioInv
  BY DEF ScenarioInv, WatchedInv, CoverInv, BaseInv, TreeInv, TypeInv
<1>2. QED
  BY <1>1, CoverAlways, PTL

\* What a scan finds in a directory of a bucket, or above it, is that it is gone.
LEMMA MarkedOnlyIfGone ==
  ASSUME BaseInv, WorldInv, Watched(buckets, tree), Update, "attrs" \notin World,
         NEW i \in DOMAIN buckets, ~buckets[i].mark, buckets'[i].mark
  PROVE  ~Exists(buckets[i].path)
<1>0. TreeInv /\ TypeInv
  BY DEF BaseInv, TreeInv
<1>1. PICK b \in Bucket : b = buckets[i] /\ buckets'[i] = Notify(b)
  BY <1>0, UpdateTree
<1>2. MonitoredIn(tree, b.path) /\ b.path \in Dirs
  BY <1>0, <1>1, BucketParts DEF Watched
<1>3. PICK r \in VanishedTop \cup Changed \cup Created : IsPrefix(r, b.path)
  BY <1>1, NotifyFacts
<1>4. r \notin Created
  BY <1>0, <1>2, <1>3 DEF MonitoredIn, TreeInv, ClosedTree, Created
<1>5. Changed = {}
  <2>1. \A d \in DOMAIN tree \ Vanished : d \in Dirs /\ Exists(d) /\ tree[d].attrs = 1
    BY <1>0 DEF WorldInv, AttrsStay, Vanished, TypeInv, NodesOK
  <2>2. \A d \in Dirs : Exists(d) => fs[d] = 1
    BY DEF WorldInv, AttrsStay, Exists
  <2>3. QED
    BY <2>1, <2>2 DEF Changed
<1>6. r \in Dirs /\ ~Exists(r)
  BY <1>0, <1>3, <1>4, <1>5 DEF VanishedTop, Vanished, TypeInv, NodesOK
<1>7. QED
  BY <1>0, <1>1, <1>2, <1>3, <1>6 DEF TreeInv, FsClosed

\* Reading that takes no bucket out of the list leaves the list.
LEMMA ReadsOfSameLength ==
  ASSUME TypeInv, NEW s, ReadNotifications(s), Len(buckets') = Len(buckets)
  PROVE  buckets' = buckets
<1>1. buckets \in Seq(Bucket) /\ StaysAfterRead(s) \subseteq DOMAIN buckets
  BY DEF TypeInv, StaysAfterRead
<1>2. buckets' = Keep(buckets, StaysAfterRead(s))
  BY DEF ReadNotifications
<1> HIDE DEF StaysAfterRead
<1>3. QED
  BY <1>1, <1>2, KeepAll

LEMMA MarkedIsGoneStep ==
  ASSUME ScenarioInv, [Next]_vars, "attrs" \notin World, UNCHANGED serverVars,
         Len(buckets') = Len(buckets), NEW i \in DOMAIN buckets,
         buckets'[i].mark, ~buckets[i].mark
  PROVE  ~Exists(buckets[i].path)
<1>0. TypeInv /\ TreeInv /\ BaseInv
  BY DEF ScenarioInv, BaseInv, TreeInv
<1>1. ASSUME UNCHANGED buckets
      PROVE  FALSE
  BY <1>1
<1>2. (UNCHANGED vars \/ ChangeDirs \/ Finished) => UNCHANGED buckets
  BY DEF vars, ChangeDirs, Finished, mappingVars
<1>3. CASE Update
  BY <1>3, MarkedOnlyIfGone DEF ScenarioInv
<1>4. ASSUME NEW s \in Server,
             \/ Accept(s) \/ Prune(s) \/ JoinFails(s)
             \/ \E p \in Asked[s] : RegisterFails(s, p) \/ UNCHANGED mappingVars
      PROVE  UNCHANGED buckets
  BY <1>4 DEF Accept, Prune, JoinFails, RegisterFails, mappingVars
<1>5. ASSUME NEW s \in Server, ReadNotifications(s)
      PROVE  UNCHANGED buckets
  BY <1>0, <1>5, ReadsOfSameLength
<1>6. ASSUME NEW s \in Server, Leave(s)
      PROVE  FALSE
  <2>1. phase[s] = "up" /\ phase'[s] = "gone"
    BY <1>0, <1>6 DEF Leave, TypeInv
  <2>2. QED
    BY <2>1 DEF serverVars
<1>7. ASSUME NEW s \in Server, NEW p \in Asked[s], NEW g \in BOOLEAN, Grows(s, p, g)
      PROVE  FALSE
  BY <1>7, <1>0, BucketParts DEF Grows, Appended
<1>8. ASSUME NEW s \in Server, NEW p \in Asked[s], Widens(s, p)
      PROVE  FALSE
  <2>1. request[s] = NoRequest /\ Answer(s, p, "updated")
    BY <1>8 DEF Widens, Asks, RegisterWider
  <2>2. request'[s].result = "updated"
    BY <1>0, <2>1 DEF Answer, TypeInv
  <2>3. QED
    BY <2>1, <2>2 DEF serverVars, NoRequest
<1>9. QED
  BY <1>0, <1>1, <1>2, <1>3, <1>4, <1>5, <1>6, <1>7, <1>8, StepCases

LEMMA DeletedIsReportedStep ==
  ASSUME ScenarioInv, NEW s \in Server, ReadNotifications(s), NEW i \in Own(s),
         buckets[i].mark,
         \A j \in Own(s) : ~IsStrictPrefix(buckets[j].path, buckets[i].path)
  PROVE  buckets[i].path \in deleted'[s]
<1>1. i \in DOMAIN buckets /\ buckets[i].server = s /\ phase[s] = "up"
  BY DEF Own, ReadNotifications
<1>2. ~buckets[i].updated
  <2> SUFFICES ASSUME buckets[i].updated PROVE FALSE
    OBVIOUS
  <2>1. PICK j \in DOMAIN buckets : LeadsUp(i, j)
    BY <1>1 DEF ScenarioInv, Covered
  <2>2. QED
    BY <1>1, <2>1 DEF LeadsUp, Own
<1>3. deleted'[s] = {buckets[j].path : j \in {m \in Own(s) : buckets[m].mark
                                                   /\ ~buckets[m].updated}}
  BY DEF ReadNotifications, ScenarioInv, BaseInv, TreeInv, TypeInv
<1>4. QED
  BY <1>2, <1>3

\* What update marks is gone, unless attributes change, and reading hands out all
\* that was marked, but for the paths the server has come to monitor from above:
\* for any servers, as long as no two of them are asked for one inner directory.
THEOREM DeletionsAreHandedOut ==
  ASSUME \A sc \in Scenarios : InnerPathsUnshared(sc) /\ GarbageIsHarmless(sc)
  PROVE  Spec => DeletionsAreTold
<1>1. ScenarioInv /\ [Next]_vars =>
        (World \cap {"attrs"} = {} /\ UNCHANGED serverVars /\ Len(buckets') = Len(buckets) =>
           \A i \in DOMAIN buckets :
             buckets'[i].mark /\ ~buckets[i].mark => ~Exists(buckets[i].path))
  <2>1. World \cap {"attrs"} = {} => "attrs" \notin World
    OBVIOUS
  <2>2. QED
    BY <2>1, MarkedIsGoneStep
<1>2. ScenarioInv =>
        \A s \in Server : ReadNotifications(s) =>
          \A i \in Own(s) :
            /\ buckets[i].mark
            /\ \A j \in Own(s) : ~IsStrictPrefix(buckets[j].path, buckets[i].path)
            => buckets[i].path \in deleted'[s]
  BY DeletedIsReportedStep
<1>3. Spec => []ScenarioInv
  BY ScenarioAlways
<1>4. Spec => MarkedIsGone
  BY <1>1, <1>3, PTL DEF Spec, MarkedIsGone
<1>5. Spec => DeletedIsReported
  BY <1>2, <1>3, PTL DEF Spec, DeletedIsReported
<1>6. QED
  BY <1>4, <1>5 DEF DeletionsAreTold

LEMMA AcceptedStep ==
  ASSUME ScenarioInv, [Next]_vars, Lasting, NEW s \in Server,
         request[s] = NoRequest,
         request'[s].result \in {"added", "updated", "already"}
  PROVE  \E i \in DOMAIN buckets' :
           /\ buckets'[i].server = s /\ ~buckets'[i].mark
           /\ IsPrefix(buckets'[i].path, request'[s].path)
<1> DEFINE Monitors == \E i \in DOMAIN buckets' :
                         /\ buckets'[i].server = s /\ ~buckets'[i].mark
                         /\ IsPrefix(buckets'[i].path, request'[s].path)
<1>0. TypeInv /\ TreeInv /\ BaseInv
  BY DEF ScenarioInv, BaseInv, TreeInv
<1>1. request'[s] # request[s] /\ request'[s] # NoRequest
  BY DEF NoRequest
<1>2. phase[s] = "up"
  BY <1>1, RequestSteps, <1>0 DEF Asks
<1>3. PICK p \in Asked[s] :
         \/ /\ Covering(s, p)
            /\ Answer(s, p, "already") /\ UNCHANGED mappingVars
         \/ RegisterFails(s, p)
         \/ RegisterNew(s, p) /\ \E g \in BOOLEAN : Grows(s, p, g)
         \/ Widens(s, p)
  BY <1>0, <1>1, RequestSteps
<1>4. ~RegisterFails(s, p)
  <2> SUFFICES ASSUME RegisterFails(s, p) PROVE FALSE
    OBVIOUS
  <2>1. request'[s].result = FirstScanResult(p) /\ FirstScanResult(p) # "ok"
    BY <1>0 DEF RegisterFails, Answer, TypeInv
  <2>2. FirstScanResult(p) \in {"ok", "inaccessible", "error"}
    BY DEF FirstScanResult
  <2>3. QED
    BY <2>1, <2>2
<1>5. p \in Dirs /\ IsPrefix(p, p)
  BY <1>0, AskedAreDirs, PathOrder DEF TypeInv
<1>6. CASE Answer(s, p, "already") /\ UNCHANGED mappingVars /\ Covering(s, p)
  <2>1. request'[s].path = p /\ buckets' = buckets
    BY <1>0, <1>6 DEF Answer, TypeInv, mappingVars
  <2>2. PICK i \in Own(s) : IsPrefix(buckets[i].path, p)
    BY <1>6 DEF Covering
  <2>3. i \in DOMAIN buckets /\ buckets[i].server = s
    BY <2>2 DEF Own
  <2>4. CASE ~buckets[i].mark
    BY <2>1, <2>2, <2>3, <2>4
  <2>5. CASE buckets[i].mark
    <3>1. PICK j \in DOMAIN buckets : LeadsUp(i, j)
      BY <1>2, <2>3, <2>5 DEF ScenarioInv, Covered
    <3>2. /\ buckets[j].server = s /\ ~buckets[j].mark
          /\ IsPrefix(buckets[j].path, buckets[i].path)
          /\ buckets[j].path \in Dirs /\ buckets[i].path \in Dirs
      BY <1>0, <2>3, <3>1, BucketParts DEF LeadsUp, IsStrictPrefix
    <3>3. IsPrefix(buckets[j].path, p)
      BY <1>5, <2>2, <3>2, PathOrder
    <3>4. QED
      BY <2>1, <3>2, <3>3
  <2>6. QED
    BY <2>4, <2>5
<1>7. CASE RegisterNew(s, p) /\ \E g \in BOOLEAN : Grows(s, p, g)
  <2>1. request'[s].path = p
    BY <1>0, <1>7 DEF RegisterNew, Answer, TypeInv
  <2>2. PICK g \in BOOLEAN : Grows(s, p, g)
    BY <1>7
  <2>3. PICK i \in DOMAIN buckets' : buckets'[i] = NewBucket(s, p, tree', g)
    BY <2>2 DEF Grows, Appended
  <2>4. buckets'[i].server = s /\ buckets'[i].mark = FALSE /\ buckets'[i].path = p
    BY <2>3 DEF NewBucket
  <2>5. QED
    BY <1>5, <2>1, <2>4
<1>8. CASE Widens(s, p)
  <2> DEFINE k == Inner(s, p)[1]
  <2>1. request'[s].path = p
    BY <1>0, <1>8 DEF Widens, RegisterWider, Answer, TypeInv
  <2>2. /\ k \in InnerAt(s, p) /\ \A i \in InnerAt(s, p) : k <= i
        /\ ~Covering(s, p)
        /\ k \in DOMAIN buckets' /\ buckets'[k].server = s
        /\ buckets'[k].path = p /\ buckets'[k].mark = buckets[k].mark
    BY <1>8 DEF Widens, Widened, RegisterWider, Own
  <2> HIDE DEF k
  <2>3. ~buckets[k].mark
    BY <1>0, <1>2, <1>5, <2>2, FirstInnerIsNot DEF ScenarioInv
  <2>4. QED
    BY <1>5, <2>1, <2>2, <2>3
<1>9. QED
  BY <1>6, <1>7, <1>8, <1>3, <1>4

\* When a registration is answered as accepted, an unmarked bucket of the server
\* is for the path or for a directory above, in every order of registrations and
\* of servers: as long as nothing is deleted, and under the conditions above.
THEOREM AcceptedPathsAreMonitored ==
  ASSUME \A sc \in Scenarios : /\ InnerPathsUnshared(sc) /\ GarbageIsHarmless(sc)
                               /\ AttrsWithDelete(sc)
  PROVE  Spec => AcceptedIsMonitored
<1>1. ScenarioInv /\ [Next]_vars =>
        \A s \in Server :
          "delete" \notin World /\ request[s] = NoRequest
            /\ request'[s].result \in {"added", "updated", "already"} =>
          \E i \in DOMAIN buckets' :
            /\ buckets'[i].server = s /\ ~buckets'[i].mark
            /\ IsPrefix(buckets'[i].path, request'[s].path)
  <2>1. ScenarioInv /\ "delete" \notin World => Lasting
    BY DEF ScenarioInv, BaseInv, TreeInv, TypeInv, AttrsWithDelete, Lasting, World
  <2>2. QED
    BY <2>1, AcceptedStep
<1>2. Spec => []ScenarioInv
  BY ScenarioAlways
<1>3. QED
  BY <1>1, <1>2, PTL DEF Spec, AcceptedIsMonitored

-----------------------------------------------------------------------------
(* The lists of paths follow the buckets, where nothing is deleted.        *)

\* No name begins another one, so that paths begin each other as strings only
\* where they do as names.
NamesApart == \A p, q \in Dirs : StringPrefix(p, q) => IsPrefix(p, q)

Calm == World \cap {"delete", "attrs"} = {}

\* The paths of the unmarked buckets of s, and those it has listed.
Unmarked(s) ==
  {buckets[i].path : i \in {j \in DOMAIN buckets : buckets[j].server = s /\ ~buckets[j].mark}}

Listed(s) == Range(serverPaths[s])

\* What the list of s should hold when the handler is done with its request.
Expected(s) ==
  CASE request[s].result = "added" -> Listed(s) \cup {request[s].path}
    [] request[s].result = "updated" ->
         {q \in Listed(s) : ~IsPrefix(request[s].path, q)} \cup {request[s].path}
    [] OTHER -> Listed(s)

\* All of it has an unmarked bucket; and each unmarked bucket is for one of these
\* paths, as long as no name begins another one.
PathsFollow(s) ==
  /\ IsInjective(serverPaths[s])
  /\ request[s].result = "added" => request[s].path \notin Listed(s)
  /\ Expected(s) \subseteq Unmarked(s)
  /\ NamesApart => Unmarked(s) = Expected(s)

\* All that is marked will be dropped without a word.
MarkedIsUpdated == \A i \in DOMAIN buckets : buckets[i].mark => buckets[i].updated

NothingDeleted == \A s \in Server : deleted[s] = {} /\ phase[s] # "broken"

\* Who leaves removes its buckets, but for a signal in the middle of a request.
LeavesNothing == NamesApart /\ "interrupt" \notin World

PathsInv ==
  /\ \A s \in Server : phase[s] = "up" => PathsFollow(s)
  /\ \A s \in Server : phase[s] = "new" => Unmarked(s) = {}
  /\ LeavesNothing => \A s \in Server : phase[s] # "up" => Unmarked(s) = {}

CalmInv == MarkedIsUpdated /\ NothingDeleted /\ PathsInv

Quietly == ScenarioInv /\ Calm /\ InnerPathsUnshared(scenario)

LEMMA QuietlyLasts ==
  ASSUME Quietly
  PROVE  Lasting /\ BaseInv /\ TreeInv /\ TypeInv
BY DEF Quietly, Calm, Lasting, ScenarioInv, BaseInv, TreeInv

LEMMA MarkedIsUpdatedStays ==
  ASSUME Quietly, MarkedIsUpdated, [Next]_vars
  PROVE  MarkedIsUpdated'
<1>0. Lasting /\ BaseInv /\ TreeInv /\ TypeInv
  BY QuietlyLasts
<1> SUFFICES ASSUME NEW i \in DOMAIN buckets', buckets'[i].mark
             PROVE  buckets'[i].updated
  BY DEF MarkedIsUpdated
<1>1. \A j \in DOMAIN buckets : buckets[j].mark => buckets[j].updated
  BY DEF MarkedIsUpdated
<1>2. CASE \E j \in DOMAIN buckets : buckets'[i] = buckets[j]
  BY <1>1, <1>2
<1>3. CASE Update
  <2>1. PICK b \in Bucket : i \in DOMAIN buckets /\ b = buckets[i] /\ buckets'[i] = Notify(b)
    BY <1>0, <1>3, UpdateTree
  <2>2. buckets[i].mark
    BY <1>0, <1>3, <2>1, LastingMarksNone DEF Quietly, ScenarioInv
  <2>3. buckets'[i] = b
    BY <2>1, <2>2, NotifyFacts
  <2>4. QED
    BY <1>1, <2>1, <2>2, <2>3
<1>4. ASSUME NEW s \in Server, Leave(s) \/ ReadNotifications(s)
      PROVE  \E j \in DOMAIN buckets : buckets'[i] = buckets[j]
  <2>1. CASE buckets' = <<>>
    BY <2>1
  <2>2. CASE buckets' # <<>>
    <3>1. PICK I \in SUBSET DOMAIN buckets : buckets' = Keep(buckets, I)
      BY <1>4, <2>2 DEF Leave, Unregister, BucketsLeft, ReadNotifications, StaysAfterRead
    <3>2. QED
      BY <1>0, <3>1, KeptIsOld
  <2>3. QED
    BY <2>1, <2>2
<1>5. ASSUME NEW s \in Server, NEW p \in Asked[s], NEW g \in BOOLEAN, Grows(s, p, g)
      PROVE  buckets'[i].updated
  <2>1. CASE i \in DOMAIN buckets
    BY <1>1, <1>5, <2>1 DEF Grows, Appended
  <2>2. CASE i \notin DOMAIN buckets
    <3>1. buckets'[i] = NewBucket(s, p, tree', g)
      BY <1>5, <2>2 DEF Grows, Appended
    <3>2. buckets'[i].mark = FALSE
      BY <3>1 DEF NewBucket
    <3>3. QED
      BY <3>2
  <2>3. QED
    BY <2>1, <2>2
<1>6. ASSUME NEW s \in Server, NEW p \in Asked[s], Widens(s, p)
      PROVE  buckets'[i].updated
  <2> DEFINE k == Inner(s, p)[1]
  <2>1. /\ p \in Dirs
        /\ buckets'[k].mark = buckets[k].mark
        /\ \A j \in DOMAIN buckets :
             \/ j = k \/ buckets'[j] = buckets[j]
             \/ j \in Own(s) /\ buckets'[j].mark /\ buckets'[j].updated
    BY <1>0, <1>6, WidenedOwn
  <2>2. /\ k \in InnerAt(s, p) /\ \A j \in InnerAt(s, p) : k <= j
        /\ ~Covering(s, p) /\ phase[s] = "up"
        /\ i \in DOMAIN buckets
    BY <1>6 DEF Widens, Widened, RegisterWider, Asks
  <2> HIDE DEF k
  <2>3. ~buckets[k].mark
    BY <1>0, <2>1, <2>2, FirstInnerIsNot DEF Quietly, ScenarioInv
  <2>4. QED
    BY <1>1, <2>1, <2>2, <2>3
<1>7. CASE UNCHANGED buckets
  BY <1>1, <1>7
<1>8. (UNCHANGED vars \/ ChangeDirs \/ Finished) => UNCHANGED buckets
  BY DEF vars, ChangeDirs, Finished, mappingVars
<1>9. ASSUME NEW s \in Server,
             \/ Accept(s) \/ Prune(s) \/ JoinFails(s)
             \/ \E p \in Asked[s] : RegisterFails(s, p) \/ UNCHANGED mappingVars
      PROVE  UNCHANGED buckets
  BY <1>9 DEF Accept, Prune, JoinFails, RegisterFails, mappingVars
<1>10. QED
  BY <1>0, <1>2, <1>3, <1>4, <1>5, <1>6, <1>7, <1>8, <1>9, StepCases

LEMMA NothingDeletedStays ==
  ASSUME Quietly, MarkedIsUpdated, NothingDeleted, [Next]_vars
  PROVE  NothingDeleted'
<1>0. TypeInv
  BY QuietlyLasts
<1>1. ASSUME NEW s \in Server, Prune(s)
      PROVE  FALSE
  BY <1>1 DEF Prune, NothingDeleted
<1>2. CASE UNCHANGED <<deleted, phase>>
  BY <1>2 DEF NothingDeleted
<1>3. ASSUME NEW s \in Server, Join(s) \/ JoinFails(s) \/ Leave(s)
      PROVE  NothingDeleted'
  <2>1. PICK x \in {"up", "gone"} : phase' = [phase EXCEPT ![s] = x]
    BY <1>3 DEF Join, JoinFails, Leave
  <2>2. UNCHANGED deleted \/ deleted' = [deleted EXCEPT ![s] = {}]
    BY <1>3 DEF Join, JoinFails, Leave
  <2>3. QED
    BY <1>0, <2>1, <2>2 DEF NothingDeleted, TypeInv
<1>4. ASSUME NEW s \in Server, ReadNotifications(s)
      PROVE  NothingDeleted'
  <2>1. {j \in Own(s) : buckets[j].mark /\ ~buckets[j].updated} = {}
    BY DEF Own, MarkedIsUpdated
  <2>2. deleted' = [deleted EXCEPT ![s] = {}] /\ phase' = phase
    BY <1>4, <2>1 DEF ReadNotifications
  <2>3. QED
    BY <1>0, <2>2 DEF NothingDeleted, TypeInv
<1>5. (UNCHANGED vars \/ ChangeDirs \/ Finished \/ Update) => UNCHANGED <<deleted, phase>>
  BY DEF vars, ChangeDirs, Finished, Update, serverVars
<1>6. ASSUME NEW s \in Server, Accept(s) \/ \E p \in Asked[s] : Register(s, p)
      PROVE  UNCHANGED <<deleted, phase>>
  BY <1>6 DEF Accept, Register, RegisterFails, RegisterNew, RegisterWider, Answer
<1>7. QED
  BY <1>1, <1>2, <1>3, <1>4, <1>5, <1>6 DEF Next

\* A path is that of an unmarked bucket of s.
LEMMA UnmarkedParts ==
  ASSUME NEW s
  PROVE  /\ \A q : q \in Unmarked(s) <=>
              \E i \in DOMAIN buckets : /\ buckets[i].server = s /\ ~buckets[i].mark
                                        /\ buckets[i].path = q
         /\ \A q : q \in Unmarked(s)' <=>
              \E i \in DOMAIN buckets' : /\ buckets'[i].server = s /\ ~buckets'[i].mark
                                         /\ buckets'[i].path = q
BY DEF Unmarked

\* Where no unmarked bucket of r is dropped, its paths stay.
LEMMA UnmarkedKept ==
  ASSUME TypeInv, NEW I, I \subseteq DOMAIN buckets, buckets' = Keep(buckets, I), NEW r
  PROVE  /\ Unmarked(r)' \subseteq Unmarked(r)
         /\ \A q \in Unmarked(r)' : \E i \in I :
              /\ buckets[i].server = r /\ ~buckets[i].mark /\ buckets[i].path = q
         /\ (\A i \in DOMAIN buckets : buckets[i].server = r /\ ~buckets[i].mark => i \in I)
              => Unmarked(r)' = Unmarked(r)
<1>1. PICK e \in [DOMAIN buckets' -> I] :
        /\ \A i \in I : \E m \in DOMAIN buckets' : e[m] = i
        /\ \A m \in DOMAIN buckets' : buckets'[m] = buckets[e[m]]
  BY KeptBuckets
<1>2. ASSUME NEW q \in Unmarked(r)'
      PROVE  \E i \in I : /\ buckets[i].server = r /\ ~buckets[i].mark
                          /\ buckets[i].path = q
  <2>1. PICK m \in DOMAIN buckets' : /\ buckets'[m].server = r /\ ~buckets'[m].mark
                                     /\ buckets'[m].path = q
    BY <1>2, UnmarkedParts
  <2>2. e[m] \in I /\ buckets'[m] = buckets[e[m]]
    BY <1>1
  <2>3. QED
    BY <2>1, <2>2
<1>3. Unmarked(r)' \subseteq Unmarked(r)
  BY <1>2, UnmarkedParts
<1>4. ASSUME \A i \in DOMAIN buckets : buckets[i].server = r /\ ~buckets[i].mark => i \in I,
             NEW q \in Unmarked(r)
      PROVE  q \in Unmarked(r)'
  <2>1. PICK i \in I : /\ buckets[i].server = r /\ ~buckets[i].mark /\ buckets[i].path = q
    BY <1>4, UnmarkedParts
  <2>2. PICK m \in DOMAIN buckets' : buckets'[m] = buckets[i]
    BY <1>1
  <2>3. QED
    BY <2>1, <2>2, UnmarkedParts
<1>5. QED
  BY <1>2, <1>3, <1>4

LEMMA UnmarkedGrows ==
  ASSUME NEW s, NEW p, NEW g, Grows(s, p, g), NEW r
  PROVE  Unmarked(r)' = IF r = s THEN Unmarked(s) \cup {p} ELSE Unmarked(r)
<1>1. PICK n : /\ n \in DOMAIN buckets' \ DOMAIN buckets
               /\ buckets'[n].server = s /\ ~buckets'[n].mark /\ buckets'[n].path = p
               /\ \A i \in DOMAIN buckets : i \in DOMAIN buckets' /\ buckets'[i] = buckets[i]
               /\ \A i \in DOMAIN buckets' : i \in DOMAIN buckets \/ i = n
  BY DEF Grows, Appended, NewBucket
<1>2. ASSUME NEW q \in Unmarked(r)'
      PROVE  q \in Unmarked(r) \/ (r = s /\ q = p)
  <2>1. PICK i \in DOMAIN buckets' : /\ buckets'[i].server = r /\ ~buckets'[i].mark
                                     /\ buckets'[i].path = q
    BY <1>2, UnmarkedParts
  <2>2. CASE i = n
    BY <1>1, <2>1, <2>2
  <2>3. CASE i \in DOMAIN buckets
    <3>1. buckets'[i] = buckets[i]
      BY <1>1, <2>3
    <3>2. QED
      BY <2>1, <2>3, <3>1, UnmarkedParts
  <2>4. QED
    BY <1>1, <2>2, <2>3
<1>3. ASSUME NEW q \in Unmarked(r)
      PROVE  q \in Unmarked(r)'
  <2>1. PICK i \in DOMAIN buckets : /\ buckets[i].server = r /\ ~buckets[i].mark
                                    /\ buckets[i].path = q
    BY <1>3, UnmarkedParts
  <2>2. i \in DOMAIN buckets' /\ buckets'[i] = buckets[i]
    BY <1>1
  <2>3. QED
    BY <2>1, <2>2, UnmarkedParts
<1>4. p \in Unmarked(s)'
  BY <1>1, UnmarkedParts
<1>5. QED
  BY <1>2, <1>3, <1>4

\* Widening to p takes the place of the paths below it.
LEMMA UnmarkedWidens ==
  ASSUME Quietly, NEW s \in Server, NEW p \in Asked[s], Widens(s, p), NEW r
  PROVE  Unmarked(r)' = IF r = s
                        THEN {q \in Unmarked(s) : ~IsPrefix(p, q)} \cup {p}
                        ELSE Unmarked(r)
<1>0. Lasting /\ BaseInv /\ TreeInv /\ TypeInv
  BY QuietlyLasts
<1> DEFINE k == Inner(s, p)[1]
<1>1. /\ p \in Dirs
      /\ k \in Own(s) /\ IsStrictPrefix(p, buckets[k].path)
      /\ buckets'[k].path = p /\ buckets'[k].mark = buckets[k].mark
      /\ \A i \in DOMAIN buckets :
           \/ i = k
           \/ buckets'[i] = buckets[i]
           \/ i \in Own(s) /\ buckets'[i].mark /\ buckets'[i].updated
      /\ \A i \in Own(s) : i # k =>
           \/ /\ IsStrictPrefix(p, buckets[i].path) /\ k < i
              /\ buckets'[i].mark /\ buckets'[i].updated
           \/ /\ buckets'[i] = buckets[i]
              /\ ~IsPrefix(p, buckets[i].path)
  BY <1>0, WidenedOwn
<1>2. /\ k \in InnerAt(s, p) /\ \A j \in InnerAt(s, p) : k <= j
      /\ ~Covering(s, p) /\ phase[s] = "up"
      /\ DOMAIN buckets' = DOMAIN buckets
      /\ \A i \in DOMAIN buckets : buckets'[i].server = buckets[i].server
  BY DEF Widens, Widened, RegisterWider, Asks
<1> HIDE DEF k
<1>3. ~buckets[k].mark
  BY <1>0, <1>1, <1>2, FirstInnerIsNot DEF Quietly, ScenarioInv
<1>4. k \in DOMAIN buckets /\ buckets[k].server = s
      /\ \A i \in DOMAIN buckets : i \in Own(s) <=> buckets[i].server = s
  BY <1>1 DEF Own
<1>5. CASE r # s
  <2>1. \A i \in DOMAIN buckets : buckets[i].server = r => buckets'[i] = buckets[i]
    BY <1>1, <1>4, <1>5
  <2>2. \A q : q \in Unmarked(r)' <=> q \in Unmarked(r)
    BY <1>2, <2>1, UnmarkedParts
  <2>3. QED
    BY <1>5, <2>2
<1>6. CASE r = s
  <2>1. p \in Unmarked(s)'
    BY <1>1, <1>2, <1>3, <1>4, UnmarkedParts
  <2>2. ASSUME NEW q \in Unmarked(s)', q # p
        PROVE  q \in Unmarked(s) /\ ~IsPrefix(p, q)
    <3>1. PICK i \in DOMAIN buckets' : /\ buckets'[i].server = s /\ ~buckets'[i].mark
                                       /\ buckets'[i].path = q
      BY <2>2, UnmarkedParts
    <3>2. i \in Own(s) /\ i # k /\ i \in DOMAIN buckets
      BY <1>1, <1>2, <1>4, <2>2, <3>1
    <3>3. buckets'[i] = buckets[i] /\ ~IsPrefix(p, buckets[i].path)
      BY <1>1, <3>1, <3>2
    <3>4. QED
      BY <1>4, <3>1, <3>2, <3>3, UnmarkedParts
  <2>3. ASSUME NEW q \in Unmarked(s), ~IsPrefix(p, q)
        PROVE  q \in Unmarked(s)'
    <3>1. PICK i \in DOMAIN buckets : /\ buckets[i].server = s /\ ~buckets[i].mark
                                      /\ buckets[i].path = q
      BY <2>3, UnmarkedParts
    <3>2. i \in Own(s) /\ i # k
      BY <1>1, <1>4, <2>3, <3>1 DEF IsStrictPrefix
    <3>3. buckets'[i] = buckets[i]
      BY <1>1, <2>3, <3>1, <3>2 DEF IsStrictPrefix
    <3>4. QED
      BY <1>2, <3>1, <3>3, UnmarkedParts
  <2>4. QED
    BY <1>6, <2>1, <2>2, <2>3
<1>7. QED
  BY <1>5, <1>6

\* Update marks nothing.
LEMMA UnmarkedUpdate ==
  ASSUME Quietly, Update, NEW r
  PROVE  Unmarked(r)' = Unmarked(r)
<1>0. Lasting /\ BaseInv /\ TreeInv /\ TypeInv
  BY QuietlyLasts
<1>1. DOMAIN buckets' = DOMAIN buckets
  BY <1>0, UpdateTree
<1>2. ASSUME NEW i \in DOMAIN buckets
      PROVE  /\ buckets'[i].server = buckets[i].server
             /\ buckets'[i].path = buckets[i].path
             /\ ~buckets'[i].mark <=> ~buckets[i].mark
  <2>1. PICK b \in Bucket : b = buckets[i] /\ buckets'[i] = Notify(b)
    BY <1>0, <1>2, UpdateTree
  <2>2. /\ buckets'[i].server = b.server /\ buckets'[i].path = b.path
        /\ b.mark => buckets'[i] = b
    BY <2>1, NotifyFacts
  <2>3. ~buckets[i].mark => ~buckets'[i].mark
    BY <1>0, LastingMarksNone DEF Quietly, ScenarioInv
  <2>4. QED
    BY <2>1, <2>2, <2>3
<1>3. \A q : q \in Unmarked(r)' <=> q \in Unmarked(r)
  BY <1>1, <1>2, UnmarkedParts
<1>4. QED
  BY <1>3

LEMMA SettingStays ==
  ASSUME [Next]_vars
  PROVE  LeavesNothing' = LeavesNothing
BY ScenarioStays DEF LeavesNothing, NamesApart, World

\* What a list of paths says depends on the list, the request and the buckets.
LEMMA FollowsStill ==
  ASSUME NEW r, PathsFollow(r), serverPaths'[r] = serverPaths[r],
         request'[r] = request[r], Unmarked(r)' = Unmarked(r)
  PROVE  PathsFollow(r)'
<1>1. Expected(r)' = Expected(r) /\ Listed(r)' = Listed(r) /\ NamesApart' = NamesApart
  BY DEF Expected, Listed, NamesApart
<1>2. QED
  BY <1>1 DEF PathsFollow

LEMMA PathsStaySame ==
  ASSUME PathsInv, [Next]_vars, UNCHANGED <<phase, serverPaths, request>>,
         \A r \in Server : Unmarked(r)' = Unmarked(r)
  PROVE  PathsInv'
<1>1. ASSUME NEW r \in Server, phase'[r] = "up"
      PROVE  PathsFollow(r)'
  BY <1>1, FollowsStill DEF PathsInv
<1>2. ASSUME NEW r \in Server, phase'[r] = "new" \/ (LeavesNothing /\ phase'[r] # "up")
      PROVE  Unmarked(r)' = {}
  BY <1>2 DEF PathsInv
<1>3. QED
  BY <1>1, <1>2, SettingStays DEF PathsInv

\* One server works, the others are as they were.
LEMMA PathsWorker ==
  ASSUME PathsInv, [Next]_vars, NEW s \in Server,
         \A r \in Server : r # s =>
           /\ phase'[r] = phase[r] /\ serverPaths'[r] = serverPaths[r]
           /\ request'[r] = request[r] /\ Unmarked(r)' = Unmarked(r),
         phase'[s] # "new",
         phase'[s] = "up" => PathsFollow(s)',
         LeavesNothing /\ phase'[s] # "up" => Unmarked(s)' = {}
  PROVE  PathsInv'
<1>1. ASSUME NEW r \in Server, phase'[r] = "up"
      PROVE  PathsFollow(r)'
  BY <1>1, FollowsStill DEF PathsInv
<1>2. ASSUME NEW r \in Server, phase'[r] = "new" \/ (LeavesNothing /\ phase'[r] # "up")
      PROVE  Unmarked(r)' = {}
  BY <1>2 DEF PathsInv
<1>3. QED
  BY <1>1, <1>2, SettingStays DEF PathsInv

LEMMA PathsJoin ==
  ASSUME Quietly, PathsInv, [Next]_vars, NEW s \in Server, NEW p \in Asked[s],
         NEW g \in BOOLEAN, Grows(s, p, g), Join(s)
  PROVE  PathsInv'
<1>0. Lasting /\ BaseInv /\ TreeInv /\ TypeInv
  BY QuietlyLasts
<1>1. /\ phase[s] = "new" /\ phase' = [phase EXCEPT ![s] = "up"]
      /\ request' = request
  BY DEF Join
<1>2. request[s] = NoRequest /\ Unmarked(s) = {}
  BY <1>0, <1>1 DEF BaseInv, JoinedInv, PathsInv
<1>3. PICK q \in Dirs : /\ serverPaths' = [serverPaths EXCEPT ![s] = <<q>>]
                        /\ \E h \in BOOLEAN : Appended(buckets', NewBucket(s, q, tree', h))
  BY <1>0, JoinTree
<1>4. q = p
  <2>1. PICK h \in BOOLEAN : Appended(buckets', NewBucket(s, q, tree', h))
    BY <1>3
  <2>2. Appended(buckets', NewBucket(s, p, tree', g))
    BY DEF Grows
  <2>3. NewBucket(s, p, tree', g) = NewBucket(s, q, tree', h)
    BY <2>1, <2>2 DEF Appended
  <2>4. NewBucket(s, p, tree', g).path = p /\ NewBucket(s, q, tree', h).path = q
    BY DEF NewBucket
  <2>5. QED
    BY <2>3, <2>4
<1>5. Unmarked(s)' = {p}
  BY <1>2, UnmarkedGrows
<1>6. PathsFollow(s)'
  <2>1. request'[s].result = "none" /\ serverPaths'[s] = <<p>>
    BY <1>0, <1>1, <1>2, <1>3, <1>4 DEF NoRequest, TypeInv
  <2>2. IsInjective(<<p>>) /\ Range(<<p>>) = {p}
    BY DEF IsInjective, Range
  <2>3. Expected(s)' = {p}
    BY <2>1, <2>2 DEF Expected, Listed
  <2>4. QED
    BY <1>5, <2>1, <2>2, <2>3 DEF PathsFollow
<1>7. phase'[s] = "up"
  BY <1>0, <1>1 DEF TypeInv
<1>8. \A r \in Server : r # s =>
        /\ phase'[r] = phase[r] /\ serverPaths'[r] = serverPaths[r]
        /\ request'[r] = request[r] /\ Unmarked(r)' = Unmarked(r)
  BY <1>0, <1>1, <1>3, UnmarkedGrows DEF TypeInv
<1>9. QED
  BY <1>6, <1>7, <1>8, PathsWorker

\* A request that has been answered leaves the others as they are.
LEMMA AnswerParts ==
  ASSUME TypeInv, NEW s \in Server, NEW p, NEW r, Answer(s, p, r)
  PROVE  /\ request'[s] = [path |-> p, result |-> r]
         /\ request'[s].path = p /\ request'[s].result = r
         /\ UNCHANGED <<phase, serverPaths>>
         /\ \A q \in Server : q # s => request'[q] = request[q]
BY DEF Answer, TypeInv

LEMMA PathsRegister ==
  ASSUME Quietly, PathsInv, [Next]_vars, NEW s \in Server, NEW p \in Asked[s], Asks(s),
         \/ Answer(s, p, "already") /\ UNCHANGED mappingVars
         \/ RegisterFails(s, p)
         \/ RegisterNew(s, p) /\ \E g \in BOOLEAN : Grows(s, p, g)
         \/ Widens(s, p)
  PROVE  PathsInv'
<1>0. Lasting /\ BaseInv /\ TreeInv /\ TypeInv
  BY QuietlyLasts
<1>1. /\ phase[s] = "up" /\ IsInjective(serverPaths[s])
      /\ Listed(s) \subseteq Unmarked(s)
      /\ NamesApart => Unmarked(s) = Listed(s)
  BY DEF Asks, PathsInv, PathsFollow, Expected, NoRequest
<1>2. ASSUME NEW x, Answer(s, p, x), \A r \in Server : r # s => Unmarked(r)' = Unmarked(r),
             PathsFollow(s)'
      PROVE  PathsInv'
  <2>1. phase'[s] = "up"
    BY <1>0, <1>1, <1>2, AnswerParts
  <2>2. \A r \in Server : r # s =>
          /\ phase'[r] = phase[r] /\ serverPaths'[r] = serverPaths[r]
          /\ request'[r] = request[r] /\ Unmarked(r)' = Unmarked(r)
    BY <1>0, <1>2, AnswerParts
  <2>3. QED
    BY <1>2, <2>1, <2>2, PathsWorker
<1>3. ASSUME NEW x, Answer(s, p, x), x \notin {"added", "updated"}, UNCHANGED buckets
      PROVE  PathsInv'
  <2>1. \A r \in Server : Unmarked(r)' = Unmarked(r)
    BY <1>3 DEF Unmarked
  <2>2. request'[s].result = x /\ serverPaths'[s] = serverPaths[s]
    BY <1>0, <1>3, AnswerParts
  <2>3. Expected(s)' = Listed(s)
    BY <1>3, <2>2 DEF Expected, Listed
  <2>4. PathsFollow(s)'
    BY <1>1, <1>3, <2>1, <2>2, <2>3, SettingStays DEF PathsFollow, NamesApart
  <2>5. QED
    BY <1>2, <1>3, <2>1, <2>4
<1>4. CASE Answer(s, p, "already") /\ UNCHANGED mappingVars
  BY <1>3, <1>4 DEF mappingVars
<1>5. CASE RegisterFails(s, p)
  <2>1. Answer(s, p, FirstScanResult(p)) /\ UNCHANGED buckets
    BY <1>5 DEF RegisterFails
  <2>2. FirstScanResult(p) \in {"ok", "inaccessible", "error"}
    BY DEF FirstScanResult
  <2>3. QED
    BY <1>3, <2>1, <2>2
<1>6. CASE RegisterNew(s, p) /\ \E g \in BOOLEAN : Grows(s, p, g)
  <2>1. PICK g \in BOOLEAN : Grows(s, p, g)
    BY <1>6
  <2>2. \A r \in Server : Unmarked(r)' = IF r = s THEN Unmarked(s) \cup {p} ELSE Unmarked(r)
    BY <2>1, UnmarkedGrows
  <2>3. Answer(s, p, "added")
    BY <1>6 DEF RegisterNew
  <2>4. p \notin Unmarked(s)
    <3>1. p \in Dirs /\ IsPrefix(p, p)
      BY <1>0, AskedAreDirs, PathOrder DEF TypeInv
    <3>2. ~Covering(s, p)
      BY <2>1 DEF Grows
    <3>3. QED
      BY <3>1, <3>2, UnmarkedParts DEF Covering, Own
  <2>5. /\ request'[s].result = "added" /\ request'[s].path = p
        /\ serverPaths'[s] = serverPaths[s]
    BY <1>0, <2>3, AnswerParts
  <2>6. Expected(s)' = Listed(s) \cup {p} /\ Listed(s)' = Listed(s)
    BY <2>5 DEF Expected, Listed
  <2>7. PathsFollow(s)'
    BY <1>1, <2>2, <2>4, <2>5, <2>6 DEF PathsFollow, NamesApart
  <2>8. QED
    BY <1>2, <2>2, <2>3, <2>7
<1>7. CASE Widens(s, p)
  <2>1. \A r \in Server : Unmarked(r)' = IF r = s
                                         THEN {q \in Unmarked(s) : ~IsPrefix(p, q)} \cup {p}
                                         ELSE Unmarked(r)
    BY <1>7, UnmarkedWidens
  <2>2. Answer(s, p, "updated")
    BY <1>7 DEF Widens, RegisterWider
  <2>3. /\ request'[s].result = "updated" /\ request'[s].path = p
        /\ serverPaths'[s] = serverPaths[s]
    BY <1>0, <2>2, AnswerParts
  <2>4. Unmarked(s)' = {q \in Unmarked(s) : ~IsPrefix(p, q)} \cup {p}
    BY <2>1
  <2>5. /\ Expected(s)' = {q \in Listed(s) : ~IsPrefix(p, q)} \cup {p}
        /\ Listed(s)' = Listed(s)
    BY <2>3 DEF Expected, Listed
  <2>6. PathsFollow(s)'
    BY <1>1, <2>3, <2>4, <2>5 DEF PathsFollow, NamesApart
  <2>7. QED
    BY <1>2, <2>1, <2>2, <2>6
<1>8. QED
  BY <1>4, <1>5, <1>6, <1>7

LEMMA PathsAccept ==
  ASSUME Quietly, PathsInv, [Next]_vars, NEW s \in Server, Accept(s)
  PROVE  PathsInv'
<1>0. Lasting /\ BaseInv /\ TreeInv /\ TypeInv
  BY QuietlyLasts
<1> DEFINE p == request[s].path
           list == serverPaths[s]
           I == {i \in DOMAIN list : ~StringPrefix(p, list[i])}
<1>1. /\ phase[s] = "up" /\ UNCHANGED <<buckets, phase>>
      /\ request' = [request EXCEPT ![s] = NoRequest]
      /\ serverPaths' = [serverPaths EXCEPT ![s] =
           CASE request[s].result = "added" -> Append(list, p)
             [] request[s].result = "updated" -> Append(Keep(list, I), p)
             [] OTHER -> list]
  BY DEF Accept, mappingVars
<1>2. list \in Seq(Dirs) /\ Listed(s) = Range(list) /\ PathsFollow(s)
  BY <1>0, <1>1 DEF TypeInv, Listed, PathsInv
<1>3. p \in Dirs
  <2>1. request[s] # NoRequest
    BY DEF Accept, NoRequest
  <2>2. QED
    BY <1>0, <2>1, AskedAreDirs DEF BaseInv, RequestsAsked, TypeInv
<1>4. \A r \in Server : Unmarked(r)' = Unmarked(r)
  BY <1>1 DEF Unmarked
<1>5. /\ serverPaths'[s] = CASE request[s].result = "added" -> Append(list, p)
                             [] request[s].result = "updated" -> Append(Keep(list, I), p)
                             [] OTHER -> list
      /\ request'[s].result = "none"
      /\ phase'[s] = "up"
      /\ \A r \in Server : r # s =>
           /\ phase'[r] = phase[r] /\ serverPaths'[r] = serverPaths[r]
           /\ request'[r] = request[r]
  BY <1>0, <1>1 DEF TypeInv, NoRequest
<1>6. I \subseteq DOMAIN list
  OBVIOUS
<1>7. /\ {list[i] : i \in I} \subseteq {q \in Listed(s) : ~IsPrefix(p, q)}
      /\ NamesApart => {list[i] : i \in I} = {q \in Listed(s) : ~IsPrefix(p, q)}
  <2>1. \A i \in DOMAIN list :
          /\ IsPrefix(p, list[i]) => StringPrefix(p, list[i])
          /\ NamesApart => (StringPrefix(p, list[i]) <=> IsPrefix(p, list[i]))
    <3>1. \A i \in DOMAIN list : list[i] \in Dirs
      BY <1>2
    <3>2. QED
      BY <1>3, <3>1 DEF NamesApart, StringPrefix
  <2>2. QED
    BY <1>2, <2>1 DEF Range
<1>8. /\ IsInjective(list) /\ Expected(s) \subseteq Unmarked(s)
      /\ request[s].result = "added" => p \notin Listed(s)
      /\ NamesApart => Unmarked(s) = Expected(s)
  BY <1>2 DEF PathsFollow
<1>9. /\ request[s].result = "added" => Expected(s) = Listed(s) \cup {p}
      /\ request[s].result = "updated" =>
           Expected(s) = {q \in Listed(s) : ~IsPrefix(p, q)} \cup {p}
      /\ request[s].result \notin {"added", "updated"} => Expected(s) = Listed(s)
  BY DEF Expected
<1> HIDE DEF p, list, I
<1>10. /\ IsInjective(serverPaths'[s]) /\ Range(serverPaths'[s]) \subseteq Expected(s)
       /\ NamesApart => Range(serverPaths'[s]) = Expected(s)
  <2>1. CASE request[s].result = "added"
    <3>1. serverPaths'[s] = Append(list, p)
      BY <1>5, <2>1
    <3>2. p \notin Range(list) /\ Listed(s) = Range(list)
      BY <1>2, <1>8, <2>1
    <3>3. /\ IsInjective(Append(list, p))
          /\ Range(Append(list, p)) = Range(list) \cup {p}
      BY <1>2, <1>3, <1>8, <3>2, AppendToList
    <3>4. QED
      BY <1>2, <1>8, <1>9, <2>1, <3>1, <3>3
  <2>2. CASE request[s].result = "updated"
    <3>1. serverPaths'[s] = Append(Keep(list, I), p)
      BY <1>5, <2>2
    <3>2. /\ Keep(list, I) \in Seq(Dirs) /\ IsInjective(Keep(list, I))
          /\ Range(Keep(list, I)) = {list[i] : i \in I}
      BY <1>2, <1>6, <1>8, KeptList
    <3>3. p \notin Range(Keep(list, I))
      BY <1>3, <1>7, <3>2, PathOrder
    <3>4. /\ IsInjective(serverPaths'[s])
          /\ Range(serverPaths'[s]) = {list[i] : i \in I} \cup {p}
      BY <1>3, <3>1, <3>2, <3>3, AppendToList
    <3>5. QED
      BY <1>7, <1>9, <2>2, <3>4
  <2>3. CASE request[s].result \notin {"added", "updated"}
    <3>1. serverPaths'[s] = list
      BY <1>5, <2>3
    <3>2. QED
      BY <1>2, <1>8, <1>9, <2>3, <3>1
  <2>4. QED
    BY <2>1, <2>2, <2>3
<1>11. Expected(s)' = Range(serverPaths'[s])
  BY <1>5 DEF Expected, Listed
<1>12. PathsFollow(s)'
  BY <1>4, <1>5, <1>8, <1>10, <1>11 DEF PathsFollow, NamesApart
<1>13. QED
  BY <1>4, <1>5, <1>12, PathsWorker

\* A server that answers no request removes every bucket it has, marked ones of
\* which it has gone on aside.
LEMMA RemovesAll ==
  ASSUME TypeInv, NEW s \in Server, PathsFollow(s),
         request[s].result \notin {"added", "updated"}
  PROVE  Removed(s) = Listed(s) /\ (NamesApart => Unmarked(s) = Listed(s))
<1>1. /\ IsInjective(serverPaths[s]) /\ Listed(s) \subseteq Unmarked(s)
      /\ NamesApart => Unmarked(s) = Listed(s)
  BY DEF PathsFollow, Expected
<1>2. serverPaths[s] \in Seq(Dirs)
  BY DEF TypeInv
<1>3. PICK n \in Nat : DOMAIN serverPaths[s] = 1..n
  BY <1>2
<1>4. ASSUME NEW i \in 1..n
      PROVE  Removable(s, i)
  <2>1. \E j \in Own(s) : buckets[j].path = serverPaths[s][i]
    <3>1. serverPaths[s][i] \in Unmarked(s)
      BY <1>1, <1>3 DEF Listed, Range
    <3>2. PICK j \in DOMAIN buckets : /\ buckets[j].server = s
                                      /\ buckets[j].path = serverPaths[s][i]
      BY <3>1, UnmarkedParts
    <3>3. QED
      BY <3>2 DEF Own
  <2>2. \A j \in 1..(i - 1) : serverPaths[s][j] # serverPaths[s][i]
    <3>1. \A j \in 1..(i - 1) : j \in 1..n /\ j # i
      OBVIOUS
    <3>2. QED
      BY <1>1, <1>3, <3>1 DEF IsInjective
  <2>3. QED
    BY <2>1, <2>2 DEF Removable
<1>5. \A j \in 1..n : \A k \in 1..j : Removable(s, k)
  <2>1. \A j \in 1..n : \A k \in 1..j : k \in 1..n
    OBVIOUS
  <2>2. QED
    BY <1>4, <2>1
<1>6. Removed(s) = {serverPaths[s][i] : i \in 1..n}
  BY <1>3, <1>5 DEF Removed
<1>7. QED
  BY <1>1, <1>3, <1>6 DEF Listed, Range

LEMMA PathsLeave ==
  ASSUME Quietly, PathsInv, [Next]_vars, NEW s \in Server, Leave(s)
  PROVE  PathsInv'
<1>0. Lasting /\ BaseInv /\ TreeInv /\ TypeInv
  BY QuietlyLasts
<1>1. phase[s] = "up"
  BY DEF Leave
<1>2. ASSUME LeavesNothing
      PROVE  Unmarked(s) \subseteq Removed(s)
  <2>1. request[s].result \notin {"added", "updated"} /\ NamesApart
    BY <1>2 DEF Leave, LeavesNothing, NoRequest
  <2>2. QED
    BY <1>0, <1>1, <2>1, RemovesAll DEF PathsInv
<1>3. /\ phase' = [phase EXCEPT ![s] = "gone"]
      /\ serverPaths' = [serverPaths EXCEPT ![s] = <<>>]
      /\ request' = [request EXCEPT ![s] = NoRequest]
  BY DEF Leave
<1>4. /\ phase'[s] = "gone"
      /\ \A r \in Server : r # s =>
           /\ phase'[r] = phase[r] /\ serverPaths'[r] = serverPaths[r]
           /\ request'[r] = request[r]
  BY <1>0, <1>3 DEF TypeInv
<1>5. CASE buckets' = <<>> /\ \A r \in Server : r # s => phase[r] \notin {"up", "broken"}
  <2>1. \A r \in Server : Unmarked(r)' = {}
    BY <1>5, UnmarkedParts
  <2>2. \A r \in Server : phase'[r] # "up"
    BY <1>4, <1>5
  <2>3. QED
    BY <2>1, <2>2 DEF PathsInv
<1>6. CASE buckets' = Keep(buckets, StaysAfterLeave(s))
  <2>1. /\ StaysAfterLeave(s) \subseteq DOMAIN buckets
        /\ \A i \in DOMAIN buckets : buckets[i].server # s => i \in StaysAfterLeave(s)
        /\ \A i \in StaysAfterLeave(s) : buckets[i].server = s =>
             buckets[i].path \notin Removed(s)
    BY DEF StaysAfterLeave, Own
  <2>2. PICK I : I = StaysAfterLeave(s)
    OBVIOUS
  <2>3. \A r \in Server : r # s => Unmarked(r)' = Unmarked(r)
    BY <1>0, <1>6, <2>1, <2>2, UnmarkedKept
  <2>4. LeavesNothing => Unmarked(s)' = {}
    <3>1. Unmarked(s)' \subseteq Unmarked(s)
          /\ \A q \in Unmarked(s)' : \E i \in I : buckets[i].server = s /\ buckets[i].path = q
      BY <1>0, <1>6, <2>1, <2>2, UnmarkedKept
    <3>2. QED
      BY <1>2, <2>1, <2>2, <3>1
  <2>5. QED
    BY <1>4, <2>3, <2>4, PathsWorker
<1>7. QED
  BY <1>0, <1>5, <1>6, LeaveFacts

LEMMA PathsStay ==
  ASSUME Quietly, NothingDeleted, PathsInv, [Next]_vars
  PROVE  PathsInv'
<1>0. Lasting /\ BaseInv /\ TreeInv /\ TypeInv
  BY QuietlyLasts
<1>1. CASE UNCHANGED vars \/ ChangeDirs \/ Finished
  <2>1. UNCHANGED <<phase, serverPaths, request, buckets>>
    BY <1>1 DEF vars, ChangeDirs, Finished, mappingVars, serverVars
  <2>2. \A r \in Server : Unmarked(r)' = Unmarked(r)
    BY <2>1 DEF Unmarked
  <2>3. QED
    BY <2>1, <2>2, PathsStaySame
<1>2. CASE Update
  <2>1. UNCHANGED <<phase, serverPaths, request>>
    BY <1>2 DEF Update, serverVars
  <2>2. QED
    BY <1>2, <2>1, UnmarkedUpdate, PathsStaySame
<1>3. ASSUME NEW s \in Server, Prune(s)
      PROVE  FALSE
  BY <1>3 DEF Prune, NothingDeleted
<1>4. ASSUME NEW s \in Server, ReadNotifications(s)
      PROVE  PathsInv'
  <2>1. /\ UNCHANGED <<phase, serverPaths, request>>
        /\ buckets' = Keep(buckets, StaysAfterRead(s))
    BY <1>4 DEF ReadNotifications
  <2>2. /\ StaysAfterRead(s) \subseteq DOMAIN buckets
        /\ \A i \in DOMAIN buckets : ~buckets[i].mark => i \in StaysAfterRead(s)
    BY DEF StaysAfterRead
  <2>3. PICK I : I = StaysAfterRead(s)
    OBVIOUS
  <2>4. \A r \in Server : Unmarked(r)' = Unmarked(r)
    BY <1>0, <2>1, <2>2, <2>3, UnmarkedKept
  <2>5. QED
    BY <2>1, <2>4, PathsStaySame
<1>5. ASSUME NEW s \in Server, NEW p \in Asked[s], NEW g \in BOOLEAN, Grows(s, p, g)
      PROVE  PathsInv'
  BY <1>5, PathsJoin, PathsRegister DEF Grows
<1>6. ASSUME NEW s \in Server, NEW p \in Asked[s],
             \/ Asks(s) /\ Answer(s, p, "already") /\ UNCHANGED mappingVars
             \/ Asks(s) /\ RegisterFails(s, p)
             \/ Widens(s, p)
      PROVE  PathsInv'
  BY <1>6, PathsRegister DEF Widens
<1>7. ASSUME NEW s \in Server, JoinFails(s)
      PROVE  PathsInv'
  <2>1. /\ phase[s] = "new" /\ phase' = [phase EXCEPT ![s] = "gone"]
        /\ UNCHANGED <<buckets, serverPaths, request>>
    BY <1>0, <1>7, JoinFailsTree
  <2>2. \A r \in Server : Unmarked(r)' = Unmarked(r)
    BY <2>1 DEF Unmarked
  <2>3. Unmarked(s)' = {}
    BY <2>1, <2>2 DEF PathsInv
  <2>4. phase'[s] = "gone" /\ \A r \in Server : r # s => phase'[r] = phase[r]
    BY <1>0, <2>1 DEF TypeInv
  <2>5. QED
    BY <2>1, <2>2, <2>3, <2>4, PathsWorker
<1>8. QED
  BY <1>0, <1>1, <1>2, <1>3, <1>4, <1>5, <1>6, <1>7, StepCases, PathsAccept, PathsLeave

CalmCase == Calm /\ InnerPathsUnshared(scenario) => CalmInv

\* What is always so where no server is asked for a path inside its own that
\* another one is asked for.
LEMMA QuietFacts ==
  ASSUME BaseInv, WorldInv, WatchedInv, CoverInv, Calm, InnerPathsUnshared(scenario)
  PROVE  Quietly
<1>1. GarbageIsHarmless(scenario)
  BY DEF Calm, GarbageIsHarmless, World
<1>2. QED
  BY <1>1 DEF Quietly, ScenarioInv, WatchedInv, CoverInv

LEMMA CalmAlways ==
  Spec => [](BaseInv /\ WorldInv /\ WatchedInv /\ CoverInv /\ CalmCase)
<1>1. Init => CalmCase
  <2> SUFFICES ASSUME Init PROVE CalmInv
    BY DEF CalmCase
  <2>1. /\ DOMAIN buckets = {} /\ \A s \in Server : deleted[s] = {} /\ phase[s] = "new"
    BY DEF Init
  <2>2. \A s \in Server : Unmarked(s) = {}
    BY <2>1 DEF Unmarked
  <2>3. QED
    BY <2>1, <2>2 DEF CalmInv, MarkedIsUpdated, NothingDeleted, PathsInv
<1>2. ASSUME BaseInv, WorldInv, WatchedInv, CoverInv, CalmCase, [Next]_vars
      PROVE  CalmCase'
  <2> SUFFICES ASSUME Calm', InnerPathsUnshared(scenario)'
               PROVE  CalmInv'
    BY DEF CalmCase
  <2>1. Calm /\ InnerPathsUnshared(scenario)
    BY <1>2, ScenarioStays DEF Calm, World, InnerPathsUnshared
  <2>2. Quietly
    BY <1>2, <2>1, QuietFacts
  <2>3. CalmInv
    BY <1>2, <2>1 DEF CalmCase
  <2>4. QED
    BY <1>2, <2>2, <2>3, MarkedIsUpdatedStays, NothingDeletedStays, PathsStay DEF CalmInv
<1>3. QED
  BY <1>1, <1>2, CoverAlways, PTL DEF Spec

\* The lists of paths and the buckets follow each other for any servers, while
\* they run and after they left: as long as no path inside a server's own is
\* another's, names do not begin each other, and where attributes change
\* directories are deleted too, of which the property says less.
THEOREM BucketsStayWithPaths ==
  ASSUME NamesApart,
         \A sc \in Scenarios : InnerPathsUnshared(sc) /\ AttrsWithDelete(sc)
  PROVE  Spec => []BucketsFollowPaths
<1> SUFFICES ASSUME BaseInv, CalmCase PROVE BucketsFollowPaths
  BY CalmAlways, PTL
<1>1. scenario \in Scenarios /\ TypeInv
  BY DEF BaseInv, TreeInv, TypeInv
<1>2. "delete" \notin World => CalmInv
  BY <1>1 DEF CalmCase, Calm, AttrsWithDelete, World
<1>3. ASSUME World \cap {"delete", "vanish"} = {}, NEW s \in Server,
             phase[s] = "up", request[s] = NoRequest, deleted[s] = {}
      PROVE  /\ IsInjective(serverPaths[s])
             /\ Range(serverPaths[s]) =
                  {buckets[i].path : i \in {j \in Own(s) :
                                              ~(buckets[j].mark /\ buckets[j].updated)}}
  <2>1. CalmInv
    BY <1>2, <1>3
  <2>2. IsInjective(serverPaths[s]) /\ Range(serverPaths[s]) = Unmarked(s)
    BY <1>3, <2>1 DEF CalmInv, PathsInv, PathsFollow, Expected, NoRequest, Listed
  <2>3. {j \in Own(s) : ~(buckets[j].mark /\ buckets[j].updated)}
          = {j \in DOMAIN buckets : buckets[j].server = s /\ ~buckets[j].mark}
    BY <2>1 DEF Own, CalmInv, MarkedIsUpdated
  <2>4. QED
    BY <2>2, <2>3 DEF Unmarked
<1>4. ASSUME World \cap {"interrupt", "delete"} = {}, NEW i \in DOMAIN buckets,
             phase[buckets[i].server] \notin {"up", "broken"}
      PROVE  buckets[i].mark /\ buckets[i].updated
  <2>1. CalmInv
    BY <1>2, <1>4
  <2>2. buckets[i].server \in Server
    BY <1>1, BucketParts
  <2>3. Unmarked(buckets[i].server) = {}
    BY <1>4, <2>1, <2>2 DEF CalmInv, PathsInv, LeavesNothing
  <2>4. buckets[i].mark
    BY <2>3 DEF Unmarked
  <2>5. QED
    BY <2>1, <2>4 DEF CalmInv, MarkedIsUpdated
<1>5. QED
  BY <1>3, <1>4 DEF BucketsFollowPaths, PathsMatchBuckets, NothingLeftBehind,
               BucketsAreOfServers

-----------------------------------------------------------------------------
(* The tree keeps nothing that nobody monitors.                            *)

\* A node that is marked has a bucket, each node leads to one or is below one, and
\* the path a server went on from is not marked any more.
MarksHaveBuckets(c, t) ==
  \A d : MonitoredIn(t, d) => \E i \in DOMAIN c : c[i].path = d

NodesAreNeeded(t) ==
  \A d \in DOMAIN t : \E m \in DOMAIN t :
    t[m].monitored /\ (IsPrefix(m, d) \/ IsPrefix(d, m))

DroppedAreFree ==
  \A i \in DOMAIN buckets :
    buckets[i].mark /\ phase[buckets[i].server] = "up"
      => ~MonitoredIn(tree, buckets[i].path)

NeededInv ==
  /\ MarksHaveBuckets(buckets, tree) /\ NodesAreNeeded(tree) /\ DroppedAreFree

\* All that holds as long as directories are only made.
Growing ==
  /\ Quietly /\ World \cap {"vanish", "interrupt"} = {}
  /\ CalmInv /\ PathsApart(buckets)

LEMMA NeededSame ==
  ASSUME NeededInv, UNCHANGED mappingVars,
         \A r \in Server : phase'[r] = "up" => phase[r] = "up",
         TypeInv
  PROVE  NeededInv'
<1>1. \A i \in DOMAIN buckets : buckets[i].server \in Server
  BY BucketParts
<1>2. buckets' = buckets /\ tree' = tree
  BY DEF mappingVars
<1>3. DroppedAreFree'
  BY <1>1, <1>2 DEF NeededInv, DroppedAreFree
<1>4. MarksHaveBuckets(buckets, tree)' /\ NodesAreNeeded(tree)'
  BY <1>2 DEF NeededInv, MarksHaveBuckets, NodesAreNeeded
<1>5. QED
  BY <1>3, <1>4 DEF NeededInv

\* Nothing fails to be registered.
LEMMA NothingFails ==
  ASSUME Growing, NEW s, NEW p \in Dirs, Exists(p)
  PROVE  ~RegisterFails(s, p)
<1>0. FsClosed
  BY QuietlyLasts DEF Growing, TreeInv
<1>1. \A d \in Ancestors(p) : d \in Dirs /\ Exists(d)
  BY <1>0, AncestorsBegin DEF FsClosed
<1>2. ASSUME NEW d \in Missing(p)
      PROVE  d \in Ancestors(p)
  BY DEF Missing
<1>3. ASSUME NEW d \in Missing(p), Front(d) \notin Missing(p) \cup {<<>>}
      PROVE  Exists(Front(d))
  <2>1. d \in Dirs /\ Exists(d)
    BY <1>1, <1>2
  <2>2. Len(d) > 1
    <3>1. d \in Seq(Name) /\ d # <<>>
      BY <2>1, DirIsSequence
    <3>2. CASE Len(d) = 1
      <4>1. Front(d) = <<>>
        BY <3>1, <3>2 DEF Front
      <4>2. QED
        BY <1>3, <4>1
    <3>3. QED
      BY <3>1, <3>2
  <2>3. Front(d) \in Dirs /\ IsPrefix(Front(d), d)
    BY <2>1, <2>2, FrontIsAncestor
  <2>4. QED
    BY <1>0, <2>1, <2>3 DEF FsClosed
<1>4. FirstScanResult(p) = "ok"
  BY <1>1, <1>2, <1>3 DEF FirstScanResult
<1>5. QED
  BY <1>4 DEF RegisterFails

LEMMA NeededUpdate ==
  ASSUME Growing, NeededInv, Update
  PROVE  NeededInv'
<1>0. Lasting /\ BaseInv /\ TreeInv /\ TypeInv
  BY QuietlyLasts DEF Growing
<1> DEFINE t == ScannedTree
<1>1. /\ tree' = t /\ phase' = phase
      /\ DOMAIN t = (DOMAIN tree \ Vanished) \cup Created
      /\ \A d \in DOMAIN t :
           /\ d \in DOMAIN tree => (t[d].monitored <=> tree[d].monitored)
           /\ d \notin DOMAIN tree => ~t[d].monitored
  BY <1>0, ScannedTreeFacts DEF Update, serverVars
<1> HIDE DEF t
<1>2. Vanished = {}
  BY <1>0 DEF Growing, Quietly, ScenarioInv, WorldInv, NodesExist, Lasting, Vanished
<1>3. \A d : MonitoredIn(tree', d) <=> MonitoredIn(tree, d)
  BY <1>1, <1>2 DEF MonitoredIn
<1>4. /\ DOMAIN buckets' = DOMAIN buckets
      /\ \A i \in DOMAIN buckets : buckets'[i].path = buckets[i].path
                                   /\ buckets'[i].server = buckets[i].server
  <2>1. /\ DOMAIN buckets' = DOMAIN buckets
        /\ \A i \in DOMAIN buckets : buckets[i] \in Bucket
                                     /\ buckets'[i] = Notify(buckets[i])
    BY <1>0, UpdateTree
  <2>2. ASSUME NEW i \in DOMAIN buckets
        PROVE  buckets'[i].path = buckets[i].path /\ buckets'[i].server = buckets[i].server
    <3>1. PICK b \in Bucket : b = buckets[i] /\ buckets'[i] = Notify(b)
      BY <2>1
    <3>2. QED
      BY <3>1, NotifyFacts
  <2>3. QED
    BY <2>1, <2>2
<1>5. \A i \in DOMAIN buckets : buckets'[i].mark => buckets[i].mark
  BY <1>0, LastingMarksNone DEF Growing, Quietly, ScenarioInv
<1>6. MarksHaveBuckets(buckets', tree')
  BY <1>3, <1>4 DEF NeededInv, MarksHaveBuckets
<1>7. DroppedAreFree'
  BY <1>1, <1>3, <1>4, <1>5 DEF NeededInv, DroppedAreFree
<1>8. ASSUME NEW d \in DOMAIN tree'
      PROVE  \E m \in DOMAIN tree' :
               tree'[m].monitored /\ (IsPrefix(m, d) \/ IsPrefix(d, m))
  <2>1. PICK m \in DOMAIN tree : tree[m].monitored /\ (IsPrefix(m, d) \/ IsPrefix(d, m))
    <3>1. CASE d \in DOMAIN tree
      BY <3>1 DEF NeededInv, NodesAreNeeded
    <3>2. CASE d \in Created
      BY <3>2 DEF Created, Scanned, IsStrictPrefix
    <3>3. QED
      BY <1>1, <3>1, <3>2
  <2>2. MonitoredIn(tree', m)
    BY <1>3, <2>1 DEF MonitoredIn
  <2>3. QED
    BY <2>1, <2>2 DEF MonitoredIn
<1>9. QED
  BY <1>6, <1>7, <1>8 DEF NeededInv, NodesAreNeeded

\* A server drops the buckets it has gone on from.
LEMMA NeededRead ==
  ASSUME Growing, NeededInv, NEW s \in Server, ReadNotifications(s)
  PROVE  NeededInv'
<1>0. TypeInv
  BY QuietlyLasts DEF Growing
<1>1. /\ phase[s] = "up" /\ phase' = phase /\ tree' = tree
      /\ buckets' = Keep(buckets, StaysAfterRead(s))
      /\ StaysAfterRead(s) \subseteq DOMAIN buckets
      /\ \A i \in DOMAIN buckets :
           i \in StaysAfterRead(s) \/ (buckets[i].server = s /\ buckets[i].mark)
  BY DEF ReadNotifications, StaysAfterRead, Own
<1>2. PICK I : I = StaysAfterRead(s)
  OBVIOUS
<1>3. PICK e \in [DOMAIN buckets' -> I] :
        /\ \A i \in I : \E m \in DOMAIN buckets' : e[m] = i
        /\ \A m \in DOMAIN buckets' : buckets'[m] = buckets[e[m]]
  BY <1>0, <1>1, <1>2, KeptBuckets
<1>4. ASSUME NEW d, MonitoredIn(tree', d)
      PROVE  \E m \in DOMAIN buckets' : buckets'[m].path = d
  <2>1. PICK i \in DOMAIN buckets : buckets[i].path = d
    BY <1>1, <1>4 DEF NeededInv, MarksHaveBuckets
  <2>2. i \in I
    BY <1>1, <1>2, <1>4, <2>1 DEF NeededInv, DroppedAreFree
  <2>3. QED
    BY <1>3, <2>1, <2>2
<1>5. DroppedAreFree'
  BY <1>1, <1>2, <1>3 DEF NeededInv, DroppedAreFree
<1>6. NodesAreNeeded(tree')
  BY <1>1 DEF NeededInv
<1>7. QED
  BY <1>4, <1>5, <1>6 DEF NeededInv, MarksHaveBuckets

LEMMA NeededLeave ==
  ASSUME Growing, NeededInv, NEW s \in Server, Leave(s)
  PROVE  NeededInv'
<1>0. TypeInv /\ TreeInv
  BY QuietlyLasts DEF Growing
<1>1. CASE tree' = EmptyTree /\ buckets' = <<>>
  <2>1. DOMAIN tree' = {} /\ DOMAIN buckets' = {}
    BY <1>1 DEF EmptyTree
  <2>2. QED
    BY <2>1 DEF NeededInv, MarksHaveBuckets, NodesAreNeeded, DroppedAreFree, MonitoredIn
<1>2. CASE /\ buckets' = Keep(buckets, StaysAfterLeave(s))
           /\ \A d : MonitoredIn(tree', d) => MonitoredIn(tree, d)
           /\ \/ /\ tree' = tree
                 /\ ~ /\ Removed(s) = Range(serverPaths[s])
                      /\ IsInjective(serverPaths[s])
              \/ /\ tree' = Clean(UnmarkOwn(s, buckets'))
                 /\ NodesOK(UnmarkOwn(s, buckets'))
                 /\ ClosedTree(UnmarkOwn(s, buckets'))
  <2>1. Removed(s) = Range(serverPaths[s]) /\ IsInjective(serverPaths[s])
    <3>1. phase[s] = "up" /\ request[s].result \notin {"added", "updated"}
      BY DEF Leave, Growing, NoRequest
    <3>2. PathsFollow(s)
      BY <3>1 DEF Growing, CalmInv, PathsInv
    <3>3. QED
      BY <1>0, <3>1, <3>2, RemovesAll DEF Listed, PathsFollow
  <2> DEFINE t == UnmarkOwn(s, buckets')
             P == {q \in Removed(s) : \A i \in DOMAIN buckets' : buckets'[i].path # q}
  <2>2. tree' = Clean(t) /\ NodesOK(t) /\ ClosedTree(t)
    BY <1>2, <2>1
  <2>3. \A d : MonitoredIn(t, d) <=> MonitoredIn(tree, d) /\ d \notin P
    BY <1>0, UnmarkMarks DEF TypeInv, UnmarkOwn
  <2> HIDE DEF t
  <2>4. \A d : MonitoredIn(tree', d) <=> MonitoredIn(tree, d) /\ d \notin P
    BY <2>2, <2>3, CleanMarks
  <2>5. PICK I : I = StaysAfterLeave(s)
    OBVIOUS
  <2>6. /\ I \subseteq DOMAIN buckets
        /\ \A i \in DOMAIN buckets : i \in I \/ buckets[i].path \in Removed(s)
    BY <2>5 DEF StaysAfterLeave
  <2>7. PICK e \in [DOMAIN buckets' -> I] :
          /\ \A i \in I : \E m \in DOMAIN buckets' : e[m] = i
          /\ \A m \in DOMAIN buckets' : buckets'[m] = buckets[e[m]]
    BY <1>0, <1>2, <2>5, <2>6, KeptBuckets
  <2>8. ASSUME NEW d, MonitoredIn(tree', d)
        PROVE  \E m \in DOMAIN buckets' : buckets'[m].path = d
    <3>1. MonitoredIn(tree, d) /\ d \notin P
      BY <2>4, <2>8
    <3>2. PICK i \in DOMAIN buckets : buckets[i].path = d
      BY <3>1 DEF NeededInv, MarksHaveBuckets
    <3>3. CASE i \in I
      BY <2>7, <3>2, <3>3
    <3>4. CASE d \in Removed(s)
      BY <3>1, <3>4
    <3>5. QED
      BY <2>6, <3>2, <3>3, <3>4
  <2>9. DroppedAreFree'
    <3>1. \A r \in Server : phase'[r] = "up" => phase[r] = "up"
      BY <1>0 DEF Leave, TypeInv
    <3>2. ASSUME NEW m \in DOMAIN buckets', buckets'[m].mark, phase'[buckets'[m].server] = "up"
          PROVE  ~MonitoredIn(tree', buckets'[m].path)
      <4>1. PICK i \in DOMAIN buckets : buckets'[m] = buckets[i]
        BY <2>6, <2>7
      <4>2. buckets[i].server \in Server
        BY <1>0, BucketParts
      <4>3. ~MonitoredIn(tree, buckets[i].path)
        BY <3>1, <3>2, <4>1, <4>2 DEF NeededInv, DroppedAreFree
      <4>4. QED
        BY <1>2, <4>1, <4>3
    <3>3. QED
      BY <3>2 DEF DroppedAreFree
  <2>10. NodesAreNeeded(tree')
    BY <2>2, CleanFacts DEF NodesAreNeeded
  <2>11. QED
    BY <2>8, <2>9, <2>10 DEF NeededInv, MarksHaveBuckets
<1>3. QED
  BY <1>0, <1>1, <1>2, LeaveFacts

\* A path that a server is to be asked for is not one that another server has gone
\* on from.
LEMMA OthersPath ==
  ASSUME Growing, NEW s \in Server, NEW p \in Asked[s],
         NEW i \in DOMAIN buckets, buckets[i].server # s, buckets[i].mark,
         phase[buckets[i].server] = "up"
  PROVE  buckets[i].path # p
<1>0. Lasting /\ BaseInv /\ TypeInv
  BY QuietlyLasts DEF Growing
<1> SUFFICES ASSUME buckets[i].path = p PROVE FALSE
  OBVIOUS
<1>1. PICK j \in DOMAIN buckets : LeadsUp(i, j)
  BY <1>0 DEF Growing, Quietly, ScenarioInv, Covered
<1>2. PICK r \in Server : r = buckets[i].server /\ r = buckets[j].server
  BY <1>0, <1>1, BucketParts DEF LeadsUp
<1>3. /\ buckets[i].path \in Asked[r] /\ buckets[j].path \in Asked[r]
      /\ IsStrictPrefix(buckets[j].path, buckets[i].path)
  BY <1>0, <1>1, <1>2 DEF BaseInv, JoinedInv, LeadsUp
<1>4. InnerPathsUnshared(scenario)
  BY DEF Growing, Quietly
<1>5. QED
  BY <1>2, <1>3, <1>4 DEF InnerPathsUnshared, Asked

LEMMA NeededGrows ==
  ASSUME Growing, NeededInv, [Next]_vars, NEW s \in Server, NEW p \in Asked[s],
         NEW g \in BOOLEAN, Grows(s, p, g)
  PROVE  NeededInv'
<1>0. Lasting /\ BaseInv /\ TreeInv /\ TypeInv
  BY QuietlyLasts DEF Growing
<1>1. p \in Dirs
  BY <1>0, AskedAreDirs DEF TypeInv
<1> DEFINE t == FirstScan(p)
<1>2. tree' = t /\ FirstScanResult(p) = "ok"
  BY DEF Grows
<1>3. /\ DOMAIN tree \subseteq DOMAIN t
      /\ \A d \in DOMAIN tree : t[d].monitored <=> tree[d].monitored \/ d = p
      /\ \A d \in DOMAIN t \ DOMAIN tree :
           /\ t[d].monitored <=> d = p
           /\ IsPrefix(d, p) \/ IsPrefix(p, d)
      /\ p \in DOMAIN t
  BY <1>0, <1>1, <1>2, FirstScanFacts
<1> HIDE DEF t
<1>4. \A d : MonitoredIn(tree', d) <=> MonitoredIn(tree, d) \/ d = p
  BY <1>2, <1>3 DEF MonitoredIn
<1>5. PICK n : /\ n \in DOMAIN buckets' \ DOMAIN buckets
               /\ buckets'[n].server = s /\ ~buckets'[n].mark /\ buckets'[n].path = p
               /\ \A i \in DOMAIN buckets : i \in DOMAIN buckets' /\ buckets'[i] = buckets[i]
               /\ \A i \in DOMAIN buckets' : i \in DOMAIN buckets \/ i = n
  BY DEF Grows, Appended, NewBucket
<1>6. MarksHaveBuckets(buckets', tree')
  BY <1>4, <1>5 DEF NeededInv, MarksHaveBuckets
<1>7. ASSUME NEW i \in DOMAIN buckets', buckets'[i].mark, phase'[buckets'[i].server] = "up"
      PROVE  ~MonitoredIn(tree', buckets'[i].path)
  <2>1. i \in DOMAIN buckets /\ buckets'[i] = buckets[i]
    BY <1>5, <1>7
  <2>2. phase[buckets[i].server] = "up"
    BY <1>0, <1>7, <2>1, WasUp
  <2>3. buckets[i].path # p
    <3>1. CASE buckets[i].server # s
      BY <1>7, <2>1, <2>2, <3>1, OthersPath
    <3>2. CASE buckets[i].server = s
      <4>1. PathsApart(buckets')
        BY <1>0, ApartGrows DEF Growing
      <4>2. QED
        BY <1>5, <1>7, <2>1, <3>2, <4>1 DEF PathsApart
    <3>3. QED
      BY <3>1, <3>2
  <2>4. ~MonitoredIn(tree, buckets[i].path)
    BY <1>7, <2>1, <2>2 DEF NeededInv, DroppedAreFree
  <2>5. QED
    BY <1>4, <2>1, <2>3, <2>4
<1>8. ASSUME NEW d \in DOMAIN tree'
      PROVE  \E m \in DOMAIN tree' :
               tree'[m].monitored /\ (IsPrefix(m, d) \/ IsPrefix(d, m))
  <2>1. PICK m : MonitoredIn(tree', m) /\ (IsPrefix(m, d) \/ IsPrefix(d, m))
    <3>1. CASE d \in DOMAIN tree
      BY <1>4, <3>1 DEF NeededInv, NodesAreNeeded, MonitoredIn
    <3>2. CASE d \notin DOMAIN tree
      BY <1>2, <1>3, <1>4, <1>8, <3>2
    <3>3. QED
      BY <3>1, <3>2
  <2>2. QED
    BY <2>1 DEF MonitoredIn
<1>9. QED
  BY <1>6, <1>7, <1>8 DEF NeededInv, NodesAreNeeded, DroppedAreFree

\* Where no inner path is another server's, all of them are unmarked.
LEMMA AllUnshared ==
  ASSUME BaseInv, InnerPathsUnshared(scenario), PathsApart(buckets),
         NEW s \in Server, NEW p \in Asked[s], NEW i \in InnerAt(s, p)
  PROVE  buckets[i].path \in Unshared(Inner(s, p))
<1>0. TypeInv
  BY DEF BaseInv, TreeInv
<1>1. /\ i \in DOMAIN buckets /\ buckets[i].server = s
      /\ IsStrictPrefix(p, buckets[i].path)
      /\ buckets[i].path \in Asked[s]
  BY DEF InnerAt, Own, BaseInv, JoinedInv
<1>2. ASSUME NEW j \in DOMAIN buckets, j # i
      PROVE  buckets[j].path # buckets[i].path
  <2>1. CASE buckets[j].server = s
    BY <1>1, <1>2, <2>1 DEF PathsApart
  <2>2. CASE buckets[j].server # s
    <3>1. PICK r \in Server : r = buckets[j].server
      BY <1>0, BucketParts
    <3>2. buckets[j].path \in Asked[r]
      BY <3>1 DEF BaseInv, JoinedInv
    <3>3. QED
      BY <1>1, <2>2, <3>1, <3>2 DEF InnerPathsUnshared, Asked
  <2>3. QED
    BY <2>1, <2>2
<1>3. \A k : SameFrom(i, k) = {}
  BY <1>2 DEF SameFrom
<1>4. PICK l \in 1..Len(Inner(s, p)) : Inner(s, p)[l] = i
  BY <1>0, InnerFacts
<1>5. SameFrom(Inner(s, p)[l], SearchFrom(Inner(s, p))[l]) = {}
  BY <1>3, <1>4
<1>6. QED
  BY <1>4, <1>5 DEF Unshared

LEMMA NeededWidens ==
  ASSUME Growing, NeededInv, [Next]_vars, NEW s \in Server, NEW p \in Asked[s],
         Widens(s, p)
  PROVE  NeededInv'
<1>0. Lasting /\ BaseInv /\ TreeInv /\ TypeInv
  BY QuietlyLasts DEF Growing
<1> DEFINE k == Inner(s, p)[1]
           I == InnerAt(s, p)
           t == FirstScan(p)
           P == Unshared(Inner(s, p))
<1>1. /\ p \in Dirs
      /\ k \in Own(s) /\ IsStrictPrefix(p, buckets[k].path)
      /\ buckets'[k].path = p /\ buckets'[k].mark = buckets[k].mark
      /\ \A i \in DOMAIN buckets : i # k => buckets'[i].path = buckets[i].path
      /\ \A i \in Own(s) : ~IsPrefix(buckets[i].path, p)
      /\ \A i \in DOMAIN buckets :
           \/ i = k
           \/ buckets'[i] = buckets[i]
           \/ i \in Own(s) /\ buckets'[i].mark /\ buckets'[i].updated
      /\ \A i \in Own(s) : i # k =>
           \/ /\ IsStrictPrefix(p, buckets[i].path) /\ k < i
              /\ buckets'[i].mark /\ buckets'[i].updated
           \/ /\ buckets'[i] = buckets[i]
              /\ ~IsPrefix(p, buckets[i].path)
  BY <1>0, WidenedOwn
<1>2. /\ k \in I /\ \A j \in I : k <= j
      /\ ~Covering(s, p) /\ phase[s] = "up"
      /\ DOMAIN buckets' = DOMAIN buckets
      /\ \A i \in DOMAIN buckets : buckets'[i].server = buckets[i].server
      /\ tree' = Unmark(t, P) /\ FirstScanResult(p) = "ok"
  BY DEF Widens, Widened, RegisterWider, Asks
<1>3. /\ k \in DOMAIN buckets /\ buckets[k].server = s
      /\ \A i \in DOMAIN buckets : i \in Own(s) <=> buckets[i].server = s
      /\ \A i \in DOMAIN buckets :
           i \in I <=> i \in Own(s) /\ IsStrictPrefix(p, buckets[i].path)
  BY <1>1 DEF Own, InnerAt
<1>4. /\ \A i \in I : buckets[i].path \in P
      /\ \A d \in P : \E i \in I : d = buckets[i].path
  BY <1>0, AllUnshared, UnsharedAreInner DEF Growing, Quietly
<1>5. ASSUME NEW d \in P
      PROVE  d \in Dirs /\ IsStrictPrefix(p, d)
  <2>1. PICK i \in I : d = buckets[i].path
    BY <1>4
  <2>2. i \in DOMAIN buckets /\ IsStrictPrefix(p, buckets[i].path)
    BY DEF InnerAt, Own
  <2>3. QED
    BY <1>0, <2>1, <2>2, BucketParts
<1>6. /\ NodesOK(t)
      /\ DOMAIN tree \subseteq DOMAIN t
      /\ \A d \in DOMAIN tree : t[d].monitored <=> tree[d].monitored \/ d = p
      /\ \A d \in DOMAIN t \ DOMAIN tree :
           /\ t[d].monitored <=> d = p
           /\ IsPrefix(d, p) \/ IsPrefix(p, d)
      /\ p \in DOMAIN t
  BY <1>0, <1>1, <1>2, FirstScanFacts
<1> HIDE DEF k, I, t, P
<1>7. \A d : MonitoredIn(t, d) <=> MonitoredIn(tree, d) \/ d = p
  BY <1>6 DEF MonitoredIn
<1>8. \A d : MonitoredIn(tree', d) <=> (MonitoredIn(tree, d) \/ d = p) /\ d \notin P
  BY <1>2, <1>6, <1>7, UnmarkMarks
<1>9. DOMAIN tree' = DOMAIN t
  BY <1>2, <1>6, UnmarkFacts
<1>10. MonitoredIn(tree', p)
  BY <1>5, <1>8 DEF IsStrictPrefix
<1>11. ~buckets[k].mark
  BY <1>0, <1>1, <1>2, FirstInnerIsNot DEF Growing, Quietly, ScenarioInv, I
<1>12. ASSUME NEW d, MonitoredIn(tree', d)
       PROVE  \E i \in DOMAIN buckets' : buckets'[i].path = d
  <2>1. CASE d = p
    BY <1>1, <1>2, <1>3, <2>1
  <2>2. CASE d # p
    <3>1. MonitoredIn(tree, d) /\ d \notin P
      BY <1>8, <1>12, <2>2
    <3>2. PICK i \in DOMAIN buckets : buckets[i].path = d
      BY <3>1 DEF NeededInv, MarksHaveBuckets
    <3>3. i # k
      BY <1>2, <1>4, <3>1, <3>2
    <3>4. QED
      BY <1>1, <1>2, <3>2, <3>3
  <2>3. QED
    BY <2>1, <2>2
<1>13. ASSUME NEW i \in DOMAIN buckets', buckets'[i].mark, phase'[buckets'[i].server] = "up"
       PROVE  ~MonitoredIn(tree', buckets'[i].path)
  <2>1. /\ i \in DOMAIN buckets /\ i # k
        /\ buckets'[i].path = buckets[i].path /\ buckets'[i].server = buckets[i].server
    BY <1>1, <1>2, <1>11, <1>13
  <2>2. phase[buckets[i].server] = "up"
    BY <1>0, <1>13, <2>1, WasUp
  <2>3. CASE i \in I
    BY <1>4, <1>8, <2>1, <2>3
  <2>4. CASE i \notin I
    <3>1. buckets'[i] = buckets[i] /\ buckets[i].path # p
      <4>1. CASE i \in Own(s)
        <5>1. ~IsStrictPrefix(p, buckets[i].path)
          BY <1>3, <2>1, <2>4, <4>1
        <5>2. buckets'[i] = buckets[i] /\ ~IsPrefix(p, buckets[i].path)
          BY <1>1, <2>1, <4>1, <5>1
        <5>3. QED
          BY <1>1, <5>2, PathOrder
      <4>2. CASE i \notin Own(s)
        <5>1. buckets'[i] = buckets[i]
          BY <1>1, <2>1, <4>2
        <5>2. buckets[i].server # s /\ buckets[i].mark
          BY <1>3, <1>13, <2>1, <4>2, <5>1
        <5>3. QED
          BY <2>1, <2>2, <5>1, <5>2, OthersPath
      <4>3. QED
        BY <4>1, <4>2
    <3>2. ~MonitoredIn(tree, buckets[i].path)
      BY <1>13, <2>1, <2>2, <3>1 DEF NeededInv, DroppedAreFree
    <3>3. QED
      BY <1>8, <2>1, <3>1, <3>2
  <2>5. QED
    BY <2>3, <2>4
<1>14. ASSUME NEW d \in DOMAIN tree'
       PROVE  \E m : MonitoredIn(tree', m) /\ (IsPrefix(m, d) \/ IsPrefix(d, m))
  <2>1. CASE d \notin DOMAIN tree
    BY <1>6, <1>9, <1>10, <1>14, <2>1
  <2>2. CASE d \in DOMAIN tree
    <3>1. PICK m \in DOMAIN tree : tree[m].monitored /\ (IsPrefix(m, d) \/ IsPrefix(d, m))
      BY <2>2 DEF NeededInv, NodesAreNeeded
    <3>2. m \in Dirs /\ d \in Dirs /\ MonitoredIn(tree, m)
      BY <1>0, <2>2, <3>1 DEF TypeInv, NodesOK, MonitoredIn
    <3>3. CASE m \notin P
      BY <1>8, <3>1, <3>2, <3>3
    <3>4. CASE m \in P
      <4>1. IsPrefix(p, m)
        BY <1>5, <3>4 DEF IsStrictPrefix
      <4>2. IsPrefix(p, d) \/ IsPrefix(d, p)
        BY <1>1, <3>1, <3>2, <4>1, PathOrder
      <4>3. QED
        BY <1>10, <4>2
    <3>5. QED
      BY <3>3, <3>4
  <2>3. QED
    BY <2>1, <2>2
<1>15. QED
  BY <1>12, <1>13, <1>14
     DEF NeededInv, MarksHaveBuckets, NodesAreNeeded, DroppedAreFree, MonitoredIn

LEMMA NeededStays ==
  ASSUME Growing, NeededInv, [Next]_vars
  PROVE  NeededInv'
<1>0. Lasting /\ BaseInv /\ TreeInv /\ TypeInv
  BY QuietlyLasts DEF Growing
<1>1. ASSUME UNCHANGED <<mappingVars, phase>>
      PROVE  NeededInv'
  BY <1>0, <1>1, NeededSame
<1>2. (UNCHANGED vars \/ ChangeDirs \/ Finished) => UNCHANGED <<mappingVars, phase>>
  BY DEF vars, ChangeDirs, Finished, serverVars
<1>3. ASSUME NEW s \in Server, Prune(s)
      PROVE  FALSE
  BY <1>3 DEF Prune, Growing, CalmInv, NothingDeleted
<1>4. ASSUME NEW s \in Server, Accept(s)
      PROVE  UNCHANGED <<mappingVars, phase>>
  BY <1>4 DEF Accept
<1>5. ASSUME NEW s \in Server, NEW p \in Asked[s], Answer(s, p, "already"),
             UNCHANGED mappingVars
      PROVE  UNCHANGED <<mappingVars, phase>>
  BY <1>5 DEF Answer
<1>6. ASSUME NEW s \in Server, NEW p \in Asked[s], RegisterFails(s, p),
             Exists(p) \/ "vanish" \in World
      PROVE  FALSE
  BY <1>0, <1>6, AskedAreDirs, NothingFails DEF Growing, TypeInv
<1>7. ASSUME NEW s \in Server, JoinFails(s)
      PROVE  FALSE
  BY <1>7 DEF JoinFails, Growing
<1>8. QED
  BY <1>0, <1>1, <1>2, <1>3, <1>4, <1>5, <1>6, <1>7, StepCases,
     NeededUpdate, NeededRead, NeededLeave, NeededGrows, NeededWidens

NeededCase ==
  /\ Calm /\ InnerPathsUnshared(scenario)
  /\ World \cap {"vanish", "interrupt"} = {}
  => NeededInv

LEMMA NeededAlways ==
  Spec => []NeededCase
<1>1. Init => NeededCase
  <2> SUFFICES ASSUME Init PROVE NeededInv
    BY DEF NeededCase
  <2>1. DOMAIN tree = {} /\ DOMAIN buckets = {}
    BY DEF Init
  <2>2. QED
    BY <2>1 DEF NeededInv, MarksHaveBuckets, NodesAreNeeded, DroppedAreFree, MonitoredIn
<1>2. ASSUME BaseInv, WorldInv, WatchedInv, CoverInv, CalmCase, PathsApart(buckets),
             NeededCase, [Next]_vars
      PROVE  NeededCase'
  <2> SUFFICES ASSUME Calm', InnerPathsUnshared(scenario)',
                      (World \cap {"vanish", "interrupt"} = {})'
               PROVE  NeededInv'
    BY DEF NeededCase
  <2>1. /\ Calm /\ InnerPathsUnshared(scenario)
        /\ World \cap {"vanish", "interrupt"} = {}
    BY <1>2, ScenarioStays DEF Calm, World, InnerPathsUnshared
  <2>2. Quietly
    BY <1>2, <2>1, QuietFacts
  <2>3. Growing /\ NeededInv
    BY <1>2, <2>1, <2>2 DEF CalmCase, NeededCase, Growing
  <2>4. QED
    BY <1>2, <2>3, NeededStays
<1>3. Spec => [](BaseInv /\ PathsApart(buckets))
  BY BaseAlways
<1>4. Spec => [](BaseInv /\ WorldInv /\ WatchedInv /\ CoverInv /\ CalmCase)
  BY CalmAlways
<1>5. QED
  BY <1>1, <1>2, <1>3, <1>4, PTL DEF Spec

\* A signal may come at any time only where directories are deleted too.  When it
\* comes after a wider registration, before the list of paths knows of it
\* (tcp_server.c:271), unregister_server gives up at the first path that has no
\* bucket any more, and the nodes of those before it stay marked.
InterruptWithDelete(sc) == "interrupt" \in sc.world => "delete" \in sc.world

\* Every unmarked bucket has a monitored node, every monitored node a bucket, and
\* the tree no other nodes than those that lead to one or are below one, whoever
\* joins, registers, goes on from further up or leaves, in any order: as long as no
\* path inside a server's own is another's, and where attributes change or a signal
\* may come directories are deleted too, of which the property says less.
THEOREM MarksStayWithBuckets ==
  ASSUME \A sc \in Scenarios : /\ InnerPathsUnshared(sc) /\ AttrsWithDelete(sc)
                               /\ InterruptWithDelete(sc)
  PROVE  Spec => []MarksFollowBuckets
<1> SUFFICES ASSUME BaseInv, WatchedInv, NeededCase PROVE MarksFollowBuckets
  <2>1. Spec => [](BaseInv /\ WatchedInv)
    BY WatchedAlways
  <2>2. Spec => []NeededCase
    BY NeededAlways
  <2>3. QED
    BY <2>1, <2>2, PTL
<1>1. scenario \in Scenarios
  BY DEF BaseInv, TreeInv, TypeInv
<1>2. BucketIsScanned
  BY <1>1 DEF WatchedInv, Watched, MonitoredIn, BucketIsScanned
<1>3. ASSUME World \cap {"delete", "vanish"} = {}
      PROVE  NeededInv
  BY <1>1, <1>3 DEF NeededCase, Calm, AttrsWithDelete, InterruptWithDelete, World
<1>4. NoLeftovers
  BY <1>3 DEF NeededInv, MarksHaveBuckets, NodesAreNeeded, MonitoredIn, NoLeftovers
<1>5. QED
  BY <1>2, <1>4 DEF MarksFollowBuckets
=============================================================================
