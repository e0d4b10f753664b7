----------------------- MODULE ClientRegister_proofs -----------------------
(***************************************************************************)
(* The tree of paths never holds a node too many or too few, the lists of  *)
(* the clients agree with it, everybody hears once of what it is           *)
(* registered for, and the register implements Registrations: proved for   *)
(* any number of clients and any set of directories.                       *)
(***************************************************************************)
EXTENDS ClientRegister, PathNames_proofs

Name == UNION {Range(d) : d \in Dirs}

\* The directories somebody is registered for, and the tree they need.
Occupied(a) == {d \in Dirs : a[d] # {}}

TreeOf(a) == UNION {Ancestors(d) : d \in Occupied(a)}

\* The inductive invariant: the tree is the one the registrations need.
TreeInv ==
  /\ at \in [Dirs -> SUBSET Client]
  /\ nodes = TreeOf(at)

-----------------------------------------------------------------------------
(* Paths.                                                                  *)

\* Directories on the way to a directory are directories.
LEMMA PathIsSequence ==
  ASSUME NEW p \in Dirs
  PROVE  /\ p \in Seq(Name) /\ p # <<>>
         /\ Ancestors(p) \subseteq Dirs
         /\ p \in Ancestors(p)
<1>1. p \in Seq(Name) /\ p # <<>>
  BY DirsAreSequences, DirsAreClosed DEF Name
<1>2. Ancestors(p) \subseteq Dirs
  BY DirsAreClosed
<1>3. p \in Ancestors(p)
  <2>1. IsPrefix(p, p)
    BY <1>1 DEF IsPrefix
  <2>2. QED
    BY <1>1, <2>1, PrefixIsAncestor
<1>4. QED
  BY <1>1, <1>2, <1>3

-----------------------------------------------------------------------------
(* What each way to change the tree leaves of it.                          *)

\* The nodes of TreeOf are the paths that begin an occupied directory.
LEMMA NodeOfTree ==
  ASSUME NEW a, NEW d
  PROVE  d \in TreeOf(a) <=>
           \E e \in Occupied(a) : d \in Seq(Name) /\ d # <<>> /\ IsPrefix(d, e)
<1>1. \A e \in Occupied(a) :
        d \in Ancestors(e) <=> d \in Seq(Name) /\ d # <<>> /\ IsPrefix(d, e)
  BY PathIsSequence, PrefixIsAncestor DEF Occupied
<1>2. d \in TreeOf(a) <=> \E e \in Occupied(a) : d \in Ancestors(e)
  BY DEF TreeOf
<1>3. QED
  BY <1>1, <1>2

\* An occupied directory is a node itself.
LEMMA OccupiedIsNode ==
  ASSUME NEW a
  PROVE  Occupied(a) \subseteq TreeOf(a)
BY PathIsSequence DEF TreeOf, Occupied

\* The nodes of TreeOf are directories.
LEMMA TreeOfDirs ==
  ASSUME NEW a
  PROVE  TreeOf(a) \subseteq Dirs
BY PathIsSequence DEF TreeOf, Occupied

\* cpt_clean_tree leaves the tree of the registrations that are left.
LEMMA CleanKeepsTree ==
  ASSUME NEW a, NEW n, n \subseteq Dirs, TreeOf(a) \subseteq n
  PROVE  Clean(n, a) = TreeOf(a)
<1>1. ASSUME NEW d \in Clean(n, a) PROVE d \in TreeOf(a)
  <2>1. PICK e \in n : IsPrefix(d, e) /\ a[e] # {}
    BY <1>1 DEF Clean
  <2>2. d \in Dirs /\ e \in Occupied(a)
    BY <1>1, <2>1 DEF Clean, Occupied
  <2>3. QED
    BY <2>1, <2>2, NodeOfTree, PathIsSequence
<1>2. ASSUME NEW d \in TreeOf(a) PROVE d \in Clean(n, a)
  <2>1. PICK e \in Occupied(a) : IsPrefix(d, e)
    BY <1>2, NodeOfTree
  <2>2. e \in n /\ d \in n /\ a[e] # {}
    BY <1>2, OccupiedIsNode DEF Occupied
  <2>3. QED
    BY <2>1, <2>2 DEF Clean
<1>3. QED
  BY <1>1, <1>2

\* A registration adds its directory, and the nodes on the way to it.
LEMMA EnterKeepsTree ==
  ASSUME NEW c \in Client, NEW p \in Dirs, NEW m, NEW kept,
         NEW a \in [Dirs -> SUBSET Client], NEW n, n = TreeOf(a),
         TreeInv, Enter(c, p, m, kept, a, n)
  PROVE  TreeInv'
<1>1. CASE UsesFreed(n, p)
  BY <1>1 DEF Enter, Undefined, TreeInv, registerVars, treeVars, TreeOf, Occupied
<1>2. CASE ~UsesFreed(n, p)
  <2>1. /\ at' = [a EXCEPT ![p] = @ \cup {c}]
        /\ nodes' = n \cup Ancestors(p)
    BY <1>2 DEF Enter
  <2>2. Occupied(at') = Occupied(a) \cup {p}
    BY <2>1 DEF Occupied
  <2>3. TreeOf(at') = TreeOf(a) \cup Ancestors(p)
    BY <2>2 DEF TreeOf
  <2>4. QED
    BY <2>1, <2>3 DEF TreeInv, TreeOf, Occupied
<1>3. QED
  BY <1>1, <1>2

\* A wider registration takes the place of others: the tree is that of those
\* left before the new one is entered.
LEMMA RegisterWiderKeepsTree ==
  ASSUME TreeInv, NEW c \in Client, NEW p \in Dirs, NEW m,
         RegisterWider(c, p, m)
  PROVE  TreeInv'
<1>. DEFINE gone == {DirAt(c, i) : i \in Replaced(c, p, m)}
            left == [d \in Dirs |-> IF d \in gone THEN at[d] \ {c} ELSE at[d]]
            kept == Without(paths[c], gone)
<1>1. left \in [Dirs -> SUBSET Client]
  BY DEF TreeInv
<1>2. Occupied(left) \subseteq Occupied(at)
  BY DEF Occupied
<1>3. TreeOf(left) \subseteq nodes
  BY <1>2 DEF TreeInv, TreeOf
<1>4. nodes \subseteq Dirs
  BY TreeOfDirs DEF TreeInv
<1>5. Clean(nodes, left) = TreeOf(left)
  BY <1>3, <1>4, CleanKeepsTree
<1>6. Enter(c, p, m, kept, left, Clean(nodes, left))
  BY DEF RegisterWider
<1>7. QED
  <2>. HIDE DEF left, kept
  <2>1. QED
    BY <1>1, <1>5, <1>6, EnterKeepsTree

\* Every answer to a request to register keeps the tree.
LEMMA RegisterKeepsTree ==
  ASSUME TreeInv, NEW c \in Client, NEW p \in Dirs, NEW m \in Mode,
         Register(c, p, m)
  PROVE  TreeInv'
<1>1. CASE RegisterSame(c, p, m) \/ RegisterAlready(c, p, m)
           \/ RegisterLeavesHoles(c, p, m)
  <2>1. UNCHANGED <<nodes, at>>
    BY <1>1 DEF RegisterSame, RegisterAlready, RegisterLeavesHoles, Undefined,
       vars, registerVars, treeVars
  <2>2. QED
    BY <2>1 DEF TreeInv, TreeOf, Occupied
<1>2. CASE RegisterNew(c, p, m)
  <2>1. Enter(c, p, m, paths[c], at, nodes)
    BY <1>2 DEF RegisterNew
  <2>2. QED
    BY <2>1, EnterKeepsTree DEF TreeInv
<1>3. CASE RegisterWider(c, p, m)
  BY <1>3, RegisterWiderKeepsTree
<1>4. QED
  BY <1>1, <1>2, <1>3 DEF Register

\* Climbing back from p removes what only p needed.
LEMMA UnregisterKeepsTree ==
  ASSUME TreeInv, NEW c \in Client, NEW p \in Dirs, Unregister(c, p)
  PROVE  TreeInv'
<1>1. /\ at' = [at EXCEPT ![p] = @ \ {c}]
      /\ nodes' = Climb(nodes, at', p)
  BY DEF Unregister
<1>2. /\ at' \in [Dirs -> SUBSET Client]
      /\ Occupied(at') \subseteq Occupied(at)
      /\ \A d \in Dirs \ {p} : at'[d] = at[d]
  BY <1>1 DEF TreeInv, Occupied
<1>3. nodes \subseteq Dirs
  BY TreeOfDirs DEF TreeInv
<1>4. ASSUME NEW d \in nodes' PROVE d \in TreeOf(at')
  <2>1. d \in nodes /\ d \in Seq(Name) /\ d # <<>>
    BY <1>1, <1>3, <1>4, PathIsSequence DEF Climb
  <2>2. PICK f \in Occupied(at) : IsPrefix(d, f)
    BY <2>1, NodeOfTree DEF TreeInv
  <2>3. CASE f \in Occupied(at')
    BY <2>1, <2>2, <2>3, NodeOfTree
  <2>4. CASE f \notin Occupied(at')
    <3>1. f = p
      BY <1>2, <2>4 DEF Occupied
    <3>2. d \in Ancestors(p)
      BY <2>1, <2>2, <3>1, PathIsSequence, PrefixIsAncestor
    <3>3. PICK e \in nodes : /\ IsPrefix(d, e)
                             /\ at'[e] # {} \/ ~IsPrefix(e, p)
      BY <1>1, <1>4, <3>2 DEF Climb
    <3>4. CASE at'[e] # {}
      BY <1>3, <2>1, <3>3, <3>4, NodeOfTree DEF Occupied
    <3>5. CASE ~IsPrefix(e, p)
      <4>1. PICK g \in Occupied(at) : IsPrefix(e, g)
        BY NodeOfTree DEF TreeInv
      <4>2. g \in Occupied(at')
        BY <1>2, <3>5, <4>1 DEF Occupied
      <4>3. IsPrefix(d, g)
        BY <1>3, <2>1, <3>3, <4>1, PathIsSequence, PrefixTransitive DEF Occupied
      <4>4. QED
        BY <2>1, <4>2, <4>3, NodeOfTree
    <3>6. QED
      BY <3>3, <3>4, <3>5
  <2>5. QED
    BY <2>3, <2>4
<1>5. ASSUME NEW d \in TreeOf(at') PROVE d \in nodes'
  <2>1. PICK f \in Occupied(at') : IsPrefix(d, f)
    BY <1>5, NodeOfTree
  <2>2. d \in nodes /\ f \in nodes /\ at'[f] # {}
    BY <1>2, <1>5, OccupiedIsNode DEF TreeInv, TreeOf, Occupied
  <2>3. QED
    BY <1>1, <2>1, <2>2 DEF Climb
<1>6. nodes' = TreeOf(at')
  BY <1>4, <1>5
<1>7. QED
  BY <1>2, <1>6 DEF TreeInv, TreeOf, Occupied

\* What cpt_push_notification removes with a directory is what the registrations
\* for it and below it needed alone.
LEMMA DeleteKeepsTree ==
  ASSUME TreeInv, NEW d \in nodes, DeleteSubtree(d)
  PROVE  TreeInv'
<1>. DEFINE left == [e \in Dirs |-> IF e \in Subtree(d) THEN {} ELSE at[e]]
            rest == nodes \ Subtree(d)
            onlyChild == Children(Front(d)) = {d}
<1>1. /\ at' = left
      /\ nodes' = IF onlyChild THEN Clean(rest, left) ELSE rest
  BY DEF DeleteSubtree
<1>2. /\ nodes \subseteq Dirs /\ nodes = TreeOf(at)
      /\ d \in Dirs /\ d \in Seq(Name) /\ d # <<>>
      /\ \A e \in Dirs : e \in Seq(Name) /\ e # <<>>
  BY TreeOfDirs, PathIsSequence DEF TreeInv
<1>3. left \in [Dirs -> SUBSET Client]
  BY DEF TreeInv
<1>4. \A e : e \in Occupied(left) <=> e \in Occupied(at) /\ ~IsPrefix(d, e)
  BY <1>2, OccupiedIsNode DEF Occupied, Subtree
<1>5. TreeOf(left) \subseteq rest
  <2>1. SUFFICES ASSUME NEW g \in TreeOf(left) PROVE g \in rest
    OBVIOUS
  <2>2. PICK f \in Occupied(left) : g \in Seq(Name) /\ g # <<>> /\ IsPrefix(g, f)
    BY NodeOfTree
  <2>3. g \in nodes
    BY <1>2, <1>4, <2>2, NodeOfTree
  <2>4. ~IsPrefix(d, g)
    BY <1>2, <1>4, <2>2, PrefixTransitive DEF Occupied
  <2>5. QED
    BY <2>3, <2>4 DEF Subtree
<1>6. CASE onlyChild
  <2>1. rest \subseteq Dirs
    BY <1>2
  <2>2. Clean(rest, left) = TreeOf(left)
    <3>. HIDE DEF left, rest
    <3>1. QED
      BY <1>5, <2>1, CleanKeepsTree
  <2>3. QED
    BY <1>1, <1>3, <1>6, <2>2 DEF TreeInv, TreeOf, Occupied
<1>7. CASE ~onlyChild
  <2>1. ASSUME NEW g \in rest PROVE g \in TreeOf(left)
    <3>1. g \in nodes /\ ~IsPrefix(d, g)
      BY <2>1 DEF Subtree
    <3>2. g \in Seq(Name) /\ g # <<>>
      BY <1>2, <3>1
    <3>3. PICK f \in Occupied(at) : IsPrefix(g, f)
      BY <1>2, <3>1, NodeOfTree
    <3>4. CASE ~IsPrefix(d, f)
      BY <1>4, <3>2, <3>3, <3>4, NodeOfTree
    <3>5. CASE IsPrefix(d, f)
      <4>1. f \in Seq(Name)
        BY <1>2 DEF Occupied
      <4>2. Len(g) < Len(d)
        <5>1. ~(Len(d) <= Len(g))
          BY <1>2, <3>1, <3>2, <3>3, <3>5, <4>1, PrefixesNest
        <5>2. QED
          BY <1>2, <3>2, <5>1
      <4>3. IsPrefix(g, d)
        BY <1>2, <3>2, <3>3, <3>5, <4>1, <4>2, PrefixesNest
      <4>4. IsPrefix(g, Front(d))
        BY <1>2, <3>2, <4>2, <4>3, ShorterBeginsFront
      <4>5. Front(d) # <<>>
        BY <3>2, <4>4 DEF IsPrefix
      <4>6. PICK h \in nodes : h # d /\ Front(h) = Front(d)
        <5>1. d \in Children(Front(d))
          BY <1>2 DEF Children
        <5>2. QED
          BY <1>7, <5>1 DEF Children
      <4>7. h \in Seq(Name) /\ h # <<>>
        BY <1>2
      <4>8. Len(h) = Len(d) /\ IsPrefix(Front(h), h) /\ Front(h) \in Seq(Name)
        <5>1. Len(Front(h)) = Len(h) - 1 /\ Len(Front(d)) = Len(d) - 1
          BY <1>2, <4>7, FrontIsPrefix
        <5>2. Len(h) \in Nat /\ Len(d) \in Nat
          BY <1>2, <4>7
        <5>3. Len(h) - 1 = Len(d) - 1
          BY <4>6, <5>1
        <5>4. QED
          BY <4>7, <5>2, <5>3, FrontIsPrefix
      <4>9. PICK k \in Occupied(at) : IsPrefix(h, k)
        BY <1>2, NodeOfTree
      <4>10. k \in Seq(Name)
        BY <1>2 DEF Occupied
      <4>11. ~IsPrefix(d, k)
        BY <1>2, <4>6, <4>7, <4>8, <4>9, <4>10, SameLengthPrefixes
      <4>12. IsPrefix(g, h)
        BY <3>2, <4>4, <4>6, <4>7, <4>8, PrefixTransitive
      <4>13. IsPrefix(g, k)
        BY <3>2, <4>7, <4>9, <4>10, <4>12, PrefixTransitive
      <4>14. QED
        BY <1>4, <3>2, <4>9, <4>11, <4>13, NodeOfTree
    <3>6. QED
      BY <3>4, <3>5
  <2>2. rest = TreeOf(left)
    BY <1>5, <2>1
  <2>3. QED
    BY <1>1, <1>3, <1>7, <2>2 DEF TreeInv, TreeOf, Occupied
<1>8. QED
  BY <1>6, <1>7

-----------------------------------------------------------------------------
(* The theorem.                                                            *)

\* The empty tree is the tree of no registrations.
LEMMA InitTree == Init => TreeInv
BY DEF Init, TreeInv, TreeOf, Occupied

\* A notification keeps the tree.
LEMMA PushKeepsTree ==
  ASSUME TreeInv, NEW d, NEW dirGone, Push(d, dirGone)
  PROVE  TreeInv'
<1>1. CASE dirGone /\ d \in nodes
  BY <1>1, DeleteKeepsTree DEF Push
<1>2. CASE ~(dirGone /\ d \in nodes)
  BY <1>2 DEF Push, treeVars, TreeInv, TreeOf, Occupied
<1>3. QED
  BY <1>1, <1>2

\* Every step keeps the tree.
LEMMA NextTree == TreeInv /\ [Next]_vars => TreeInv'
<1>. SUFFICES ASSUME TreeInv, [Next]_vars PROVE TreeInv'
  OBVIOUS
<1>1. CASE \E c \in Client, p \in Dirs, m \in Mode : Register(c, p, m)
  BY <1>1, RegisterKeepsTree
<1>2. CASE \E c \in Client, p \in Dirs : Unregister(c, p)
  BY <1>2, UnregisterKeepsTree
<1>3. CASE \E d \in Dirs : \/ Push(Append(d, File), FALSE)
                           \/ \E gone \in BOOLEAN : Push(d, gone)
  BY <1>3, PushKeepsTree
<1>4. CASE SendFails
  BY <1>4 DEF SendFails, TreeInv, TreeOf, Occupied
<1>5. CASE Send \/ Finished \/ UNCHANGED vars
  BY <1>5 DEF Send, Finished, vars, registerVars, treeVars, TreeInv, TreeOf,
     Occupied
<1>6. QED
  BY <1>1, <1>2, <1>3, <1>4, <1>5 DEF Next

\* In every reachable state the tree holds the nodes on the way to a
\* registration, and no others.
THEOREM TreeMinimality == Spec => []TreeIsMinimal
<1>1. TreeInv => TreeIsMinimal
  BY DEF TreeInv, TreeIsMinimal, TreeOf, Occupied
<1>2. QED
  BY <1>1, InitTree, NextTree, PTL DEF Spec
-----------------------------------------------------------------------------
(* The clients' lists.                                                     *)

Notified == Dirs \cup {Append(d, File) : d \in Dirs}

Notes == {Note(what, d) : what \in {"change", "removed"}, d \in Notified}

\* Nobody is ever marked: cnl_signal_deletion looks at the number of paths before
\* it is lowered.
RegisterTypes ==
  /\ listed \subseteq Client /\ marked = {}
  /\ paths \in [Client -> Seq(Dirs)]
  /\ mode \in [Client -> [Dirs -> Mode \cup {"none"}]]
  /\ freed \subseteq nodes
  /\ updates \in [Client -> Seq(Notes)]
  /\ pushed \in Seq(Notified) /\ Len(pushed) <= MaxNotes
  /\ status \in {"up", "terminated", "freed_memory"}

Registered(c) == Range(paths[c])

\* No registration of c makes another one superfluous.
NoneSuperfluous(c) ==
  \A p, q \in Registered(c) :
    p # q /\ mode[c][p] = "recursive" => ~StringPrefix(p, q)

\* The list of c agrees with the tree, with the modes and with the list of clients.
ListInv(c) ==
  /\ IsInjective(paths[c])
  /\ \A d \in Dirs : d \in Registered(c) <=> c \in at[d]
  /\ \A d \in Dirs : d \in Registered(c) <=> mode[c][d] # "none"
  /\ paths[c] # <<>> => c \in listed
  /\ NoneSuperfluous(c)

RegisterInv == RegisterTypes /\ TreeInv /\ \A c \in Client : ListInv(c)

\* What it is for a path to begin another one as a string.
LEMMA StringPrefixParts ==
  ASSUME NEW p \in Dirs, NEW q \in Dirs
  PROVE  StringPrefix(p, q) <=>
           /\ Len(p) <= Len(q)
           /\ \A i \in 1..(Len(p) - 1) : p[i] = q[i]
           /\ p[Len(p)] = q[Len(p)] \/ <<p[Len(p)], q[Len(p)]>> \in NamePrefix
<1>1. /\ p \in Seq(Name) /\ p # <<>> /\ q \in Seq(Name)
  BY PathIsSequence
<1>2. Len(p) \in Nat /\ Len(p) # 0 /\ Len(q) \in Nat
  BY <1>1
<1>3. IsPrefix(p, q) <=> Len(p) <= Len(q) /\ \A i \in 1..Len(p) : p[i] = q[i]
  BY <1>1, <1>2 DEF IsPrefix
<1>4. /\ Front(p) \in Seq(Name) /\ Len(Front(p)) = Len(p) - 1
      /\ \A i \in 1..(Len(p) - 1) : Front(p)[i] = p[i]
  <2>1. Front(p) \in Seq(Name) /\ Len(Front(p)) = Len(p) - 1 /\ IsPrefix(Front(p), p)
    BY <1>1, FrontIsPrefix
  <2>2. QED
    BY <1>1, <1>2, <2>1 DEF IsPrefix
<1>5. IsPrefix(Front(p), q) <=>
        Len(p) - 1 <= Len(q) /\ \A i \in 1..(Len(p) - 1) : p[i] = q[i]
  BY <1>1, <1>2, <1>4 DEF IsPrefix
<1>6. \A i \in 1..Len(p) : i \in 1..(Len(p) - 1) \/ i = Len(p)
  BY <1>2
<1>7. Len(p) \in 1..Len(p) /\ \A i \in 1..(Len(p) - 1) : i \in 1..Len(p)
  BY <1>2
<1>8. Len(p) <= Len(q) => Len(p) - 1 <= Len(q)
  BY <1>2
<1>9. Last(p) = p[Len(p)]
  BY DEF Last
<1>10. QED
  BY <1>3, <1>5, <1>6, <1>7, <1>8, <1>9 DEF StringPrefix

\* A path that begins another one by its names begins it as a string.
LEMMA PrefixIsStringPrefix ==
  ASSUME NEW p, NEW q, IsPrefix(p, q)
  PROVE  StringPrefix(p, q)
BY DEF StringPrefix

LEMMA BeginsItself ==
  ASSUME NEW p \in Dirs
  PROVE  StringPrefix(p, p)
<1>1. IsPrefix(p, p)
  BY PathIsSequence DEF IsPrefix
<1>2. QED
  BY <1>1, PrefixIsStringPrefix

LEMMA StringPrefixTransitive ==
  ASSUME NEW p \in Dirs, NEW q \in Dirs, NEW r \in Dirs,
         StringPrefix(p, q), StringPrefix(q, r)
  PROVE  StringPrefix(p, r)
<1> DEFINE n == Len(p)
           k == Len(q)
<1>1. /\ n \in Nat /\ n # 0 /\ k \in Nat /\ k # 0 /\ Len(r) \in Nat
  BY PathIsSequence
<1>2. /\ n <= k /\ \A i \in 1..(n - 1) : p[i] = q[i]
      /\ p[n] = q[n] \/ <<p[n], q[n]>> \in NamePrefix
  BY StringPrefixParts
<1>3. /\ k <= Len(r) /\ \A i \in 1..(k - 1) : q[i] = r[i]
      /\ q[k] = r[k] \/ <<q[k], r[k]>> \in NamePrefix
  BY StringPrefixParts
<1> HIDE DEF n, k
<1>4. n <= Len(r) /\ \A i \in 1..(n - 1) : p[i] = r[i]
  <2>1. \A i \in 1..(n - 1) : i \in 1..(k - 1)
    BY <1>1, <1>2
  <2>2. QED
    BY <1>1, <1>2, <1>3, <2>1
<1>5. p[n] = r[n] \/ <<p[n], r[n]>> \in NamePrefix
  <2>1. CASE n < k
    <3>1. n \in 1..(k - 1)
      BY <1>1, <2>1
    <3>2. QED
      BY <1>2, <1>3, <3>1
  <2>2. CASE n = k
    <3>1. ASSUME <<p[n], q[n]>> \in NamePrefix, <<q[n], r[n]>> \in NamePrefix
          PROVE  <<p[n], r[n]>> \in NamePrefix
      <4>1. PICK x, y : x = <<p[n], q[n]>> /\ y = <<q[n], r[n]>>
        OBVIOUS
      <4>2. x[1] = p[n] /\ x[2] = q[n] /\ y[1] = q[n] /\ y[2] = r[n]
        BY <4>1
      <4>3. QED
        BY <3>1, <4>1, <4>2, NamePrefixIsTransitive
    <3>2. QED
      BY <1>2, <1>3, <2>2, <3>1
  <2>3. QED
    BY <1>1, <1>2, <2>1, <2>2
<1>6. QED
  BY <1>4, <1>5, StringPrefixParts DEF n

\* A list is as it was for a client whose registrations nobody touches.
LEMMA ListSame ==
  ASSUME NEW c \in Client, ListInv(c), paths'[c] = paths[c],
         \A d \in Dirs : mode'[c][d] = mode[c][d],
         \A d \in Dirs : c \in at'[d] <=> c \in at[d],
         c \in listed => c \in listed', RegisterTypes
  PROVE  ListInv(c)'
<1>1. Registered(c)' = Registered(c) /\ Registered(c) \subseteq Dirs
  BY DEF Registered, RegisterTypes, Range
<1>2. NoneSuperfluous(c)'
  BY <1>1 DEF ListInv, NoneSuperfluous
<1>3. QED
  BY <1>1, <1>2 DEF ListInv

\* A list from which registrations are taken.
LEMMA ListShrinks ==
  ASSUME RegisterTypes, NEW c \in Client, ListInv(c), NEW gone,
         paths'[c] = Without(paths[c], gone),
         \A d \in Dirs : mode'[c][d] = IF d \in gone THEN "none" ELSE mode[c][d],
         \A d \in Dirs : c \in at'[d] <=> c \in at[d] /\ d \notin gone,
         paths'[c] # <<>> => (c \in listed => c \in listed')
  PROVE  /\ ListInv(c)' /\ paths'[c] \in Seq(Dirs)
         /\ Registered(c)' = Registered(c) \ gone
<1>0. paths[c] \in Seq(Dirs) /\ IsInjective(paths[c])
  BY DEF RegisterTypes, ListInv
<1>1. /\ paths'[c] \in Seq(Dirs) /\ IsInjective(paths'[c])
      /\ Registered(c)' = Registered(c) \ gone /\ Registered(c) \subseteq Dirs
  <2>1. Range(paths[c]) \subseteq Dirs
    BY <1>0 DEF Range
  <2>2. QED
    BY <1>0, <2>1, WithoutFacts DEF Registered
<1>2. NoneSuperfluous(c)'
  BY <1>1 DEF ListInv, NoneSuperfluous
<1>3. paths'[c] # <<>> => paths[c] # <<>>
  <2>1. paths[c] = <<>> => Registered(c) = {}
    BY DEF Registered, Range
  <2>2. Registered(c)' = {} => paths'[c] = <<>>
    BY <1>1 DEF Registered, Range
  <2>3. QED
    BY <1>1, <2>1, <2>2
<1>4. QED
  BY <1>1, <1>2, <1>3 DEF ListInv
-----------------------------------------------------------------------------
(* What the steps do to the lists.                                         *)

\* StopAt is the first registration that makes the new one superfluous.
LEMMA StopFacts ==
  ASSUME RegisterTypes, NEW c \in Client, NEW p \in Dirs, NEW m \in Mode
  PROVE  \/ StopAt(c, p, m) = 0 /\ \A i \in DOMAIN paths[c] : ~Stops(c, p, m, i)
         \/ /\ StopAt(c, p, m) \in DOMAIN paths[c] /\ StopAt(c, p, m) # 0
            /\ Stops(c, p, m, StopAt(c, p, m))
<1> DEFINE stops == {i \in DOMAIN paths[c] : Stops(c, p, m, i)}
<1>1. StopAt(c, p, m) =
        IF stops = {} THEN 0 ELSE CHOOSE i \in stops : \A j \in stops : i <= j
  BY DEF StopAt
<1>2. CASE stops = {}
  BY <1>1, <1>2
<1>3. CASE stops # {}
  <2>1. paths[c] \in Seq(Dirs)
    BY DEF RegisterTypes
  <2>2. stops \subseteq Nat \ {0}
    BY <2>1
  <2>3. \E i \in stops : \A j \in stops : i <= j
    <3>1. stops \subseteq Nat
      BY <2>2
    <3> HIDE DEF stops
    <3>2. QED
      BY <1>3, <3>1, LeastNat
  <2>4. StopAt(c, p, m) \in stops
    BY <1>1, <1>3, <2>3
  <2>5. QED
    BY <2>2, <2>4
<1>4. QED
  BY <1>2, <1>3

\* The search never stops after it has cleared entries: what stops it would have
\* made those it cleared superfluous.
LEMMA NoEntryIsCleared ==
  ASSUME RegisterInv, NEW c \in Client, NEW p \in Dirs, NEW m \in Mode,
         StopAt(c, p, m) # 0
  PROVE  Replaced(c, p, m) = {}
<1> SUFFICES ASSUME NEW i \in Replaced(c, p, m) PROVE FALSE
  OBVIOUS
<1> DEFINE s == StopAt(c, p, m)
<1>1. paths[c] \in Seq(Dirs) /\ IsInjective(paths[c]) /\ NoneSuperfluous(c)
  BY DEF RegisterInv, RegisterTypes, ListInv
<1>2. s \in DOMAIN paths[c] /\ Stops(c, p, m, s)
  BY StopFacts DEF RegisterInv
<1> HIDE DEF s
<1>3. /\ i \in DOMAIN paths[c] /\ i < s
      /\ m = "recursive" /\ StringPrefix(p, DirAt(c, i))
  BY DEF Replaced, s
<1>4. StringPrefix(DirAt(c, s), p) /\ mode[c][DirAt(c, s)] = "recursive"
  BY <1>2, <1>3 DEF Stops
<1>5. /\ DirAt(c, i) \in Dirs /\ DirAt(c, s) \in Dirs
      /\ DirAt(c, i) \in Registered(c) /\ DirAt(c, s) \in Registered(c)
  BY <1>1, <1>2, <1>3 DEF DirAt, Registered, Range
<1>6. DirAt(c, i) # DirAt(c, s)
  BY <1>1, <1>2, <1>3 DEF DirAt, IsInjective
<1>7. StringPrefix(DirAt(c, s), DirAt(c, i))
  BY <1>3, <1>4, <1>5, StringPrefixTransitive
<1>8. QED
  BY <1>1, <1>4, <1>5, <1>6, <1>7 DEF NoneSuperfluous

\* What a request finds in the list when nothing stops it: the paths it replaces
\* are the ones it begins, and only for all that is below.
LEMMA NothingStops ==
  ASSUME RegisterInv, NEW c \in Client, NEW p \in Dirs, NEW m \in Mode,
         StopAt(c, p, m) = 0,
         NEW gone, gone = {DirAt(c, i) : i \in Replaced(c, p, m)}
  PROVE  /\ \A q \in Registered(c) :
              /\ mode[c][q] = "recursive" => ~StringPrefix(q, p)
              /\ q \in gone <=> m = "recursive" /\ StringPrefix(p, q)
         /\ p \in Registered(c) => p \in gone
         /\ gone \subseteq Registered(c)
         /\ gone = {} <=> Replaced(c, p, m) = {}
<1>1. paths[c] \in Seq(Dirs)
  BY DEF RegisterInv, RegisterTypes
<1>2. \A i \in DOMAIN paths[c] : ~Stops(c, p, m, i)
  BY StopFacts DEF RegisterInv
<1>3. \A q : q \in Registered(c) <=> \E i \in DOMAIN paths[c] : DirAt(c, i) = q
  BY DEF Registered, Range, DirAt
<1>4. ASSUME NEW q \in Registered(c)
      PROVE  /\ mode[c][q] = "recursive" => ~StringPrefix(q, p)
             /\ q = p => m = "recursive"
  BY <1>2, <1>3 DEF Stops, Mode
<1>5. \A i : i \in Replaced(c, p, m) <=>
        i \in DOMAIN paths[c] /\ m = "recursive" /\ StringPrefix(p, DirAt(c, i))
  BY DEF Replaced
<1>6. \A q : q \in gone <=>
        q \in Registered(c) /\ m = "recursive" /\ StringPrefix(p, q)
  BY <1>3, <1>5
<1>7. QED
  BY <1>4, <1>6, BeginsItself

\* Entering a registration beside those that are kept.
LEMMA EnterKeepsList ==
  ASSUME RegisterInv, NEW c \in Client, NEW p \in Dirs, NEW m \in Mode, NEW gone,
         NEW kept, NEW a, NEW n, Enter(c, p, m, kept, a, n), ~UsesFreed(n, p),
         a \in [Dirs -> SUBSET Client],
         kept \in Seq(Dirs), IsInjective(kept), Range(kept) = Registered(c) \ gone,
         \A d \in Dirs, r \in Client : r \in a[d] <=> r \in at[d] /\ ~(r = c /\ d \in gone),
         p \in Registered(c) => p \in gone,
         \A q \in Registered(c) \ gone :
           /\ mode[c][q] = "recursive" => ~StringPrefix(q, p)
           /\ m = "recursive" => ~StringPrefix(p, q)
  PROVE  /\ \A r \in Client : ListInv(r)'
         /\ RegisterTypes'
         /\ Registered(c)' = (Registered(c) \ gone) \cup {p}
<1>1. /\ paths' = [paths EXCEPT ![c] = Append(kept, p)]
      /\ nodes' = n \cup Ancestors(p)
      /\ freed' = freed \cap nodes'
      /\ at' = [a EXCEPT ![p] = @ \cup {c}]
      /\ mode' = [mode EXCEPT ![c] =
                   [d \in Dirs |-> IF d = p THEN m
                                  ELSE IF d \in Range(kept) THEN @[d]
                                  ELSE "none"]]
      /\ listed' = listed \cup {c}
      /\ UNCHANGED <<marked, updates, pushed, status>>
  BY DEF Enter
<1>2. /\ paths \in [Client -> Seq(Dirs)]
      /\ mode \in [Client -> [Dirs -> Mode \cup {"none"}]]
      /\ RegisterTypes /\ \A r \in Client : ListInv(r)
  BY DEF RegisterInv, RegisterTypes
<1>3. /\ paths'[c] = Append(kept, p)
      /\ \A r \in Client : r # c => paths'[r] = paths[r] /\ mode'[r] = mode[r]
      /\ \A d \in Dirs : mode'[c][d] = IF d = p THEN m
                                      ELSE IF d \in Range(kept) THEN mode[c][d]
                                      ELSE "none"
  BY <1>1, <1>2
<1>4. \A d \in Dirs, r \in Client :
        r \in at'[d] <=> r \in a[d] \/ (r = c /\ d = p)
  BY <1>1
<1>5. Append(kept, p) \in Seq(Dirs) /\ Append(kept, p) # <<>>
  OBVIOUS
<1>6. p \notin Range(kept)
  OBVIOUS
<1>7. IsInjective(Append(kept, p)) /\ Range(Append(kept, p)) = Range(kept) \cup {p}
  BY <1>6, AppendToList
<1>8. RegisterTypes'
  <2>1. listed' \subseteq Client /\ marked' = {} /\ freed' \subseteq nodes'
        /\ updates' \in [Client -> Seq(Notes)]
        /\ pushed' \in Seq(Notified) /\ Len(pushed') <= MaxNotes
        /\ status' \in {"up", "terminated", "freed_memory"}
    BY <1>1, <1>2 DEF RegisterTypes
  <2>2. paths' \in [Client -> Seq(Dirs)]
    BY <1>1, <1>2, <1>5
  <2>3. mode' \in [Client -> [Dirs -> Mode \cup {"none"}]]
    BY <1>1, <1>2
  <2>4. QED
    BY <2>1, <2>2, <2>3 DEF RegisterTypes
<1>9. Registered(c)' = (Registered(c) \ gone) \cup {p}
  BY <1>3, <1>7 DEF Registered
<1>10. ListInv(c)'
  <2>1. Registered(c) \subseteq Dirs
    <3>1. paths[c] \in Seq(Dirs)
      BY <1>2
    <3>2. QED
      BY <3>1 DEF Registered, Range
  <2>2. ListInv(c)
    BY <1>2
  <2>3. \A d \in Dirs : d \in Registered(c)' <=> c \in at'[d]
    BY <1>4, <1>9, <2>1, <2>2 DEF ListInv
  <2>4. \A d \in Dirs : d \in Registered(c)' <=> mode'[c][d] # "none"
    BY <1>3, <1>9, <2>1, <2>2 DEF ListInv, Mode
  <2>5. NoneSuperfluous(c)'
    <3>1. ASSUME NEW q \in Registered(c)', NEW r \in Registered(c)', q # r,
                 mode'[c][q] = "recursive"
          PROVE  ~StringPrefix(q, r)
      <4>1. CASE q = p
        BY <1>3, <1>9, <2>1, <3>1, <4>1
      <4>2. CASE q # p
        <5>1. q \in Registered(c) \ gone /\ mode[c][q] = "recursive"
          BY <1>3, <1>9, <2>1, <3>1, <4>2
        <5>2. QED
          BY <1>9, <2>2, <3>1, <5>1 DEF ListInv, NoneSuperfluous
      <4>3. QED
        BY <4>1, <4>2
    <3>2. QED
      BY <3>1 DEF NoneSuperfluous
  <2>6. IsInjective(paths'[c]) /\ c \in listed'
    BY <1>1, <1>3, <1>7
  <2>7. QED
    BY <2>3, <2>4, <2>5, <2>6 DEF ListInv
<1>11. ASSUME NEW r \in Client, r # c
       PROVE  ListInv(r)'
  <2>1. /\ paths'[r] = paths[r] /\ mode'[r] = mode[r]
        /\ \A d \in Dirs : r \in at'[d] <=> r \in at[d]
        /\ r \in listed => r \in listed'
    BY <1>1, <1>3, <1>4, <1>11
  <2>2. QED
    BY <1>2, <2>1, ListSame
<1>12. QED
  BY <1>8, <1>9, <1>10, <1>11

\* What a client has after a registration for p replaced those at the paths in gone.
Entered(c, p, m, gone) ==
  /\ Registered(c)' = (Registered(c) \ gone) \cup {p}
  /\ \A r \in Client : r # c => paths'[r] = paths[r] /\ mode'[r] = mode[r]
  /\ \A d \in Dirs : mode'[c][d] = IF d = p THEN m
                                  ELSE IF d \in Registered(c) \ gone THEN mode[c][d]
                                  ELSE "none"

\* An answer to a request to register keeps the lists.
LEMMA EnterStep ==
  ASSUME RegisterInv, NEW c \in Client, NEW p \in Dirs, NEW m \in Mode,
         RegisterNew(c, p, m) \/ RegisterWider(c, p, m),
         NEW gone, gone = {DirAt(c, i) : i \in Replaced(c, p, m)}
  PROVE  \/ UNCHANGED <<registerVars, marked, updates, pushed>> /\ status' = "freed_memory"
         \/ RegisterTypes' /\ (\A r \in Client : ListInv(r)') /\ Entered(c, p, m, gone)
<1> DEFINE Left == [d \in Dirs |-> IF d \in gone THEN at[d] \ {c} ELSE at[d]]
<1>0. /\ paths[c] \in Seq(Dirs) /\ IsInjective(paths[c])
      /\ at \in [Dirs -> SUBSET Client] /\ ListInv(c)
  BY DEF RegisterInv, RegisterTypes, TreeInv, ListInv
<1>1. StopAt(c, p, m) = 0
  BY DEF RegisterNew, RegisterWider
<1>2. /\ \A q \in Registered(c) :
           /\ mode[c][q] = "recursive" => ~StringPrefix(q, p)
           /\ q \in gone <=> m = "recursive" /\ StringPrefix(p, q)
      /\ p \in Registered(c) => p \in gone
      /\ gone \subseteq Registered(c)
      /\ gone = {} <=> Replaced(c, p, m) = {}
  BY <1>1, NothingStops
<1>3. PICK kept, a, n :
        /\ Enter(c, p, m, kept, a, n)
        /\ a \in [Dirs -> SUBSET Client]
        /\ kept \in Seq(Dirs) /\ IsInjective(kept) /\ Range(kept) = Registered(c) \ gone
        /\ \A d \in Dirs, r \in Client :
             r \in a[d] <=> r \in at[d] /\ ~(r = c /\ d \in gone)
  <2>1. CASE RegisterNew(c, p, m)
    <3>1. gone = {} /\ Enter(c, p, m, paths[c], at, nodes)
      BY <1>2, <2>1 DEF RegisterNew
    <3>2. Range(paths[c]) = Registered(c) \ gone
      BY <3>1 DEF Registered
    <3>3. \A d \in Dirs, r \in Client :
            r \in at[d] <=> r \in at[d] /\ ~(r = c /\ d \in gone)
      BY <3>1
    <3>4. QED
      BY <1>0, <3>1, <3>2, <3>3
  <2>2. CASE RegisterWider(c, p, m)
    <3>1. Enter(c, p, m, Without(paths[c], gone), Left, Clean(nodes, Left))
      BY <2>2 DEF RegisterWider
    <3>2. /\ Without(paths[c], gone) \in Seq(Dirs) /\ IsInjective(Without(paths[c], gone))
          /\ Range(Without(paths[c], gone)) = Registered(c) \ gone
      BY <1>0, WithoutFacts DEF Registered
    <3>3. /\ Left \in [Dirs -> SUBSET Client]
          /\ \A d \in Dirs, r \in Client :
               r \in Left[d] <=> r \in at[d] /\ ~(r = c /\ d \in gone)
      BY <1>0
    <3> HIDE DEF Left
    <3>4. QED
      BY <3>1, <3>2, <3>3
  <2>3. QED
    BY <2>1, <2>2
<1>4. CASE UsesFreed(n, p)
  BY <1>3, <1>4 DEF Enter, Undefined
<1>5. CASE ~UsesFreed(n, p)
  <2>1. \A q \in Registered(c) \ gone :
          /\ mode[c][q] = "recursive" => ~StringPrefix(q, p)
          /\ m = "recursive" => ~StringPrefix(p, q)
    BY <1>2
  <2>2. /\ \A r \in Client : ListInv(r)' /\ RegisterTypes'
        /\ Registered(c)' = (Registered(c) \ gone) \cup {p}
    BY <1>2, <1>3, <1>5, <2>1, EnterKeepsList
  <2>3. /\ paths' = [paths EXCEPT ![c] = Append(kept, p)]
        /\ mode' = [mode EXCEPT ![c] =
                     [d \in Dirs |-> IF d = p THEN m
                                    ELSE IF d \in Range(kept) THEN @[d]
                                    ELSE "none"]]
    BY <1>3, <1>5 DEF Enter
  <2>4. /\ paths \in [Client -> Seq(Dirs)]
        /\ mode \in [Client -> [Dirs -> Mode \cup {"none"}]]
    BY DEF RegisterInv, RegisterTypes
  <2>5. /\ \A r \in Client : r # c => paths'[r] = paths[r] /\ mode'[r] = mode[r]
        /\ \A d \in Dirs : mode'[c][d] = IF d = p THEN m
                                        ELSE IF d \in Registered(c) \ gone THEN mode[c][d]
                                        ELSE "none"
    BY <1>3, <2>3, <2>4
  <2>6. QED
    BY <2>2, <2>5 DEF Entered
<1>6. QED
  BY <1>4, <1>5

\* Nothing of the register changes.
LEMMA RegisterSameInv ==
  ASSUME RegisterTypes, \A r \in Client : ListInv(r), UNCHANGED registerVars,
         UNCHANGED <<marked, updates, pushed>>,
         status' \in {"up", "terminated", "freed_memory"}
  PROVE  RegisterTypes' /\ \A r \in Client : ListInv(r)'
<1>1. UNCHANGED <<listed, paths, mode, at, nodes, freed>>
  BY DEF registerVars, treeVars
<1>2. RegisterTypes'
  BY <1>1 DEF RegisterTypes
<1>3. \A r \in Client : ListInv(r)'
  BY <1>1, ListSame
<1>4. QED
  BY <1>2, <1>3

LEMMA RegisterKeepsLists ==
  ASSUME RegisterInv, NEW c \in Client, NEW p \in Dirs, NEW m \in Mode,
         Register(c, p, m)
  PROVE  RegisterTypes' /\ \A r \in Client : ListInv(r)'
<1>0. RegisterTypes /\ \A r \in Client : ListInv(r)
  BY DEF RegisterInv
<1>1. status = "up"
  BY DEF Register
<1>2. CASE RegisterNew(c, p, m) \/ RegisterWider(c, p, m)
  <2>1. PICK gone : gone = {DirAt(c, i) : i \in Replaced(c, p, m)}
    OBVIOUS
  <2>2. \/ UNCHANGED <<registerVars, marked, updates, pushed>> /\ status' = "freed_memory"
        \/ RegisterTypes' /\ \A r \in Client : ListInv(r)'
    BY <1>2, <2>1, EnterStep
  <2>3. QED
    BY <1>0, <2>2, RegisterSameInv
<1>3. CASE RegisterAlready(c, p, m)
  BY <1>0, <1>1, <1>3, RegisterSameInv DEF RegisterAlready, vars
<1>4. CASE RegisterSame(c, p, m)
  <2>1. /\ mode' = [mode EXCEPT ![c][p] = m] /\ m = "nonrecursive"
        /\ UNCHANGED <<listed, paths, treeVars, marked, updates, pushed, status>>
        /\ StopAt(c, p, m) # 0 /\ DirAt(c, StopAt(c, p, m)) = p
    BY <1>4 DEF RegisterSame
  <2>2. UNCHANGED <<nodes, at, freed>>
    BY <2>1 DEF treeVars
  <2>3. p \in Registered(c)
    <3>1. StopAt(c, p, m) \in DOMAIN paths[c]
      BY <1>0, <2>1, StopFacts
    <3>2. QED
      BY <2>1, <3>1 DEF Registered, Range, DirAt
  <2>4. mode \in [Client -> [Dirs -> Mode \cup {"none"}]]
    BY <1>0 DEF RegisterTypes
  <2>5. /\ mode' \in [Client -> [Dirs -> Mode \cup {"none"}]]
        /\ \A r \in Client, d \in Dirs :
             mode'[r][d] = IF r = c /\ d = p THEN m ELSE mode[r][d]
    BY <2>1, <2>4
  <2>6. RegisterTypes'
    BY <1>0, <2>1, <2>2, <2>5 DEF RegisterTypes
  <2>7. ASSUME NEW r \in Client, r # c
        PROVE  ListInv(r)'
    BY <1>0, <2>1, <2>2, <2>5, <2>7, ListSame
  <2>8. ListInv(c)'
    <3>1. ListInv(c) /\ Registered(c)' = Registered(c)
      BY <1>0, <2>1 DEF Registered
    <3>2. Registered(c) \subseteq Dirs
      <4>1. paths[c] \in Seq(Dirs)
        BY <1>0 DEF RegisterTypes
      <4>2. QED
        BY <4>1 DEF Registered, Range
    <3>3. NoneSuperfluous(c)'
      BY <2>1, <2>5, <3>1, <3>2 DEF ListInv, NoneSuperfluous
    <3>4. \A d \in Dirs : d \in Registered(c)' <=> mode'[c][d] # "none"
      BY <2>1, <2>3, <2>5, <3>1 DEF ListInv
    <3>5. QED
      BY <2>1, <2>2, <3>1, <3>3, <3>4 DEF ListInv
  <2>9. QED
    BY <2>6, <2>7, <2>8
<1>5. ~RegisterLeavesHoles(c, p, m)
  BY NoEntryIsCleared DEF RegisterLeavesHoles
<1>6. QED
  BY <1>2, <1>3, <1>4, <1>5 DEF Register

LEMMA UnregisterKeepsLists ==
  ASSUME RegisterInv, NEW c \in Client, NEW p \in Dirs, Unregister(c, p)
  PROVE  /\ RegisterTypes' /\ \A r \in Client : ListInv(r)'
         /\ Registered(c)' = Registered(c) \ {p}
         /\ p \in Registered(c)
         /\ \A r \in Client : r # c => paths'[r] = paths[r] /\ mode'[r] = mode[r]
         /\ \A d \in Dirs : d # p => mode'[c][d] = mode[c][d]
<1>0. RegisterTypes /\ TreeInv /\ \A r \in Client : ListInv(r)
  BY DEF RegisterInv
<1>1. /\ c \in at[p]
      /\ at' = [at EXCEPT ![p] = @ \ {c}]
      /\ freed' = freed \cap nodes'
      /\ paths' = [paths EXCEPT ![c] = Without(@, {p})]
      /\ mode' = [mode EXCEPT ![c][p] = "none"]
      /\ UNCHANGED <<pushed, status>>
  BY DEF Unregister
<1>2. /\ listed' = IF paths'[c] = <<>> THEN listed \ {c} ELSE listed
      /\ marked' = IF paths'[c] = <<>> THEN marked \ {c} ELSE marked
      /\ updates' = IF paths'[c] = <<>> THEN [updates EXCEPT ![c] = <<>>] ELSE updates
  BY DEF Unregister
<1>3. /\ at \in [Dirs -> SUBSET Client] /\ paths \in [Client -> Seq(Dirs)]
      /\ mode \in [Client -> [Dirs -> Mode \cup {"none"}]]
      /\ updates \in [Client -> Seq(Notes)]
  BY <1>0 DEF RegisterTypes, TreeInv
<1>4. /\ paths'[c] = Without(paths[c], {p})
      /\ \A r \in Client : r # c => paths'[r] = paths[r] /\ mode'[r] = mode[r]
      /\ \A d \in Dirs : mode'[c][d] = IF d \in {p} THEN "none" ELSE mode[c][d]
      /\ \A r \in Client, d \in Dirs : r \in at'[d] <=> r \in at[d] /\ ~(r = c /\ d = p)
      /\ mode' \in [Client -> [Dirs -> Mode \cup {"none"}]]
  BY <1>1, <1>3
<1>5. /\ ListInv(c)' /\ paths'[c] \in Seq(Dirs)
      /\ Registered(c)' = Registered(c) \ {p}
  <2>1. paths'[c] # <<>> => (c \in listed => c \in listed')
    BY <1>2
  <2>2. \A d \in Dirs : c \in at'[d] <=> c \in at[d] /\ d \notin {p}
    BY <1>4
  <2>3. QED
    BY <1>0, <1>4, <2>1, <2>2, ListShrinks
<1>6. ASSUME NEW r \in Client, r # c
      PROVE  ListInv(r)'
  <2>1. r \in listed => r \in listed'
    BY <1>2, <1>6
  <2>2. QED
    BY <1>0, <1>4, <1>6, <2>1, ListSame
<1>7. paths' \in [Client -> Seq(Dirs)]
  BY <1>1, <1>3, <1>4, <1>5
<1>8. updates' \in [Client -> Seq(Notes)]
  BY <1>2, <1>3
<1>9. RegisterTypes'
  BY <1>0, <1>1, <1>2, <1>4, <1>7, <1>8 DEF RegisterTypes
<1>10. p \in Registered(c)
  BY <1>0, <1>1 DEF ListInv
<1>11. QED
  BY <1>4, <1>5, <1>6, <1>9, <1>10

\* The registrations of one client are no more than its list is long.
LEMMA NoMoreThanListed ==
  ASSUME NEW list \in Seq(Dirs), NEW T, T \subseteq Range(list)
  PROVE  IsFiniteSet(T) /\ Cardinality(T) \in Nat /\ Cardinality(T) <= Len(list)
<1>1. /\ Len(list) \in Nat /\ DOMAIN list = 1..Len(list)
      /\ IsFiniteSet(1..Len(list)) /\ Cardinality(1..Len(list)) = Len(list)
  BY IntervalSize
<1>2. list \in Surjection(1..Len(list), Range(list))
  BY <1>1 DEF Surjection, Range
<1>3. /\ IsFiniteSet(Range(list)) /\ Cardinality(Range(list)) <= Len(list)
      /\ Cardinality(Range(list)) \in Nat
  BY <1>1, <1>2, FS_Surjection, FS_CardinalityType
<1>4. T \in SUBSET Range(list)
  OBVIOUS
<1>5. IsFiniteSet(T) /\ Cardinality(T) <= Cardinality(Range(list))
  BY <1>3, <1>4, FS_Subset
<1>6. Cardinality(T) \in Nat
  BY <1>5, FS_CardinalityType
<1>7. QED
  BY <1>1, <1>3, <1>5, <1>6

\* A client loses the registrations at the nodes that are removed.
LEMMA LostFacts ==
  ASSUME RegisterInv, NEW c \in Client, NEW d
  PROVE  /\ Lost(c, d) = {e \in Registered(c) : IsPrefix(d, e)}
         /\ PathsSignalled(c, d) # 0
<1>1. /\ paths[c] \in Seq(Dirs)
      /\ \A e \in Dirs : e \in Registered(c) <=> c \in at[e]
      /\ nodes = TreeOf(at)
  BY DEF RegisterInv, RegisterTypes, ListInv, TreeInv
<1>2. Registered(c) \subseteq Dirs
  BY <1>1 DEF Registered, Range
<1>3. Registered(c) \subseteq nodes /\ nodes \subseteq Dirs
  BY <1>1, <1>2, OccupiedIsNode, TreeOfDirs DEF Occupied
<1>4. Lost(c, d) = {e \in Registered(c) : IsPrefix(d, e)}
  BY <1>1, <1>3 DEF Lost, Subtree
<1>5. Lost(c, d) \subseteq Range(paths[c])
  BY <1>4 DEF Registered
<1>6. Cardinality(Lost(c, d)) \in Nat /\ Cardinality(Lost(c, d)) <= Len(paths[c])
  BY <1>1, <1>5, NoMoreThanListed
<1>7. Len(paths[c]) \in Nat
  BY <1>1
<1>8. QED
  BY <1>4, <1>6, <1>7 DEF PathsSignalled

LEMMA DeleteKeepsLists ==
  ASSUME RegisterInv, NEW d \in nodes, DeleteSubtree(d), UNCHANGED listed
  PROVE  /\ \A c \in Client : ListInv(c)'
         /\ \A c \in Client : Registered(c)' = {e \in Registered(c) : ~IsPrefix(d, e)}
         /\ \A c \in Client : \A e \in Registered(c) :
              ~IsPrefix(d, e) => mode'[c][e] = mode[c][e]
         /\ marked' = {} /\ freed' \subseteq nodes'
         /\ paths' \in [Client -> Seq(Dirs)]
         /\ mode' \in [Client -> [Dirs -> Mode \cup {"none"}]]
<1>0. RegisterTypes /\ TreeInv /\ \A r \in Client : ListInv(r)
  BY DEF RegisterInv
<1>1. /\ at' = [e \in Dirs |-> IF e \in Subtree(d) THEN {} ELSE at[e]]
      /\ nodes' = IF Children(Front(d)) = {d}
                  THEN Clean(nodes \ Subtree(d), at') ELSE nodes \ Subtree(d)
      /\ freed' = (IF Children(Front(d)) = {d} THEN freed \cup {Front(d)} ELSE freed)
                    \cap nodes'
      /\ paths' = [c \in Client |-> PathsLeft(c, d)]
      /\ mode' = [c \in Client |-> [e \in Dirs |->
                    IF e \in Lost(c, d) THEN "none" ELSE mode[c][e]]]
      /\ marked' = marked \cup {c \in Client : /\ Lost(c, d) # {}
                                               /\ PathsSignalled(c, d) = 0}
  BY DEF DeleteSubtree
<1>2. marked' = {}
  <2>1. \A c \in Client : PathsSignalled(c, d) # 0
    BY LostFacts
  <2>2. marked = {}
    BY <1>0 DEF RegisterTypes
  <2>3. QED
    BY <1>1, <2>1, <2>2
<1>3. mode' \in [Client -> [Dirs -> Mode \cup {"none"}]]
  <2>1. mode \in [Client -> [Dirs -> Mode \cup {"none"}]]
    BY <1>0 DEF RegisterTypes
  <2>2. QED
    BY <1>1, <2>1
<1>4. ASSUME NEW c \in Client
      PROVE  /\ ListInv(c)' /\ paths'[c] \in Seq(Dirs)
             /\ Registered(c)' = Registered(c) \ Lost(c, d)
             /\ \A e \in Dirs : e \notin Lost(c, d) => mode'[c][e] = mode[c][e]
  <2>1. PICK gone : gone = Lost(c, d)
    OBVIOUS
  <2>2. paths'[c] = Without(paths[c], gone)
    BY <1>1, <2>1 DEF PathsLeft
  <2>3. \A e \in Dirs : mode'[c][e] = IF e \in gone THEN "none" ELSE mode[c][e]
    BY <1>1, <2>1
  <2>4. \A e \in Dirs : c \in at'[e] <=> c \in at[e] /\ e \notin gone
    BY <1>1, <2>1 DEF Lost
  <2>5. QED
    BY <1>0, <2>1, <2>2, <2>3, <2>4, ListShrinks
<1>5. paths' \in [Client -> Seq(Dirs)]
  BY <1>1, <1>4
<1>6. ASSUME NEW c \in Client
      PROVE  /\ Registered(c)' = {e \in Registered(c) : ~IsPrefix(d, e)}
             /\ \A e \in Registered(c) : ~IsPrefix(d, e) => mode'[c][e] = mode[c][e]
  <2>1. Lost(c, d) = {e \in Registered(c) : IsPrefix(d, e)}
    BY LostFacts
  <2>2. Registered(c) \subseteq Dirs
    <3>1. paths[c] \in Seq(Dirs)
      BY <1>0 DEF RegisterTypes
    <3>2. QED
      BY <3>1 DEF Registered, Range
  <2>3. QED
    BY <1>4, <2>1, <2>2
<1>7. QED
  BY <1>1, <1>2, <1>3, <1>4, <1>5, <1>6

\* What is put in the queue of a client.
LEMMA QueuedAreNotes ==
  ASSUME NEW d \in Notified, NEW dirGone \in BOOLEAN, RegisterInv, Push(d, dirGone)
  PROVE  updates' \in [Client -> Seq(Notes)]
<1>1. \A what \in {"change", "removed"} : Note(what, d) \in Notes
  BY DEF Notes
<1>2. ASSUME NEW r \in Client
      PROVE  Copies(r, d) \in Seq(Notes) /\ Signals(r, d) \in Seq(Notes)
  <2>1. Cardinality(HearingNodes(r, d)) \in Nat /\ Cardinality(Lost(r, d)) \in Nat
    <3>1. paths[r] \in Seq(Dirs) /\ \A e \in Dirs : e \in Registered(r) <=> r \in at[e]
      BY DEF RegisterInv, RegisterTypes, ListInv
    <3>2. nodes \subseteq Dirs
      BY TreeOfDirs DEF RegisterInv, TreeInv
    <3>3. HearingNodes(r, d) \subseteq Registered(r) /\ Lost(r, d) \subseteq Registered(r)
      BY <3>1, <3>2 DEF HearingNodes, OnTheWay, Lost, Subtree
    <3>4. QED
      BY <3>1, <3>3, NoMoreThanListed DEF Registered
  <2>2. QED
    BY <1>1, <2>1 DEF Copies, Signals
<1>3. updates \in [Client -> Seq(Notes)]
  BY DEF RegisterInv, RegisterTypes
<1>4. ASSUME NEW r \in Client
      PROVE  updates[r] \o Copies(r, d) \o (IF dirGone THEN Signals(r, d) ELSE <<>>)
               \in Seq(Notes)
  BY <1>2, <1>3
<1>5. updates' = [r \in Client |->
                    updates[r] \o Copies(r, d) \o (IF dirGone THEN Signals(r, d) ELSE <<>>)]
  BY DEF Push
<1>6. QED
  BY <1>4, <1>5

LEMMA PushKeepsLists ==
  ASSUME RegisterInv, NEW d \in Notified, NEW dirGone \in BOOLEAN, Push(d, dirGone)
  PROVE  RegisterTypes' /\ \A r \in Client : ListInv(r)'
<1>0. RegisterTypes /\ TreeInv /\ \A r \in Client : ListInv(r)
  BY DEF RegisterInv
<1>1. /\ Len(pushed) < MaxNotes /\ pushed' = Append(pushed, d)
      /\ UNCHANGED <<listed, status>>
  BY DEF Push
<1>2. updates' \in [Client -> Seq(Notes)]
  BY QueuedAreNotes
<1>3. pushed' \in Seq(Notified) /\ Len(pushed') <= MaxNotes
  <2>1. pushed \in Seq(Notified) /\ Len(pushed) \in Nat
    BY <1>0 DEF RegisterTypes
  <2>2. QED
    BY <1>1, <2>1, MaxNotesIsNat
<1>4. CASE dirGone /\ d \in nodes
  <2>1. DeleteSubtree(d)
    BY <1>4 DEF Push
  <2>2. /\ \A c \in Client : ListInv(c)'
        /\ marked' = {} /\ freed' \subseteq nodes'
        /\ paths' \in [Client -> Seq(Dirs)]
        /\ mode' \in [Client -> [Dirs -> Mode \cup {"none"}]]
    BY <1>1, <1>4, <2>1, DeleteKeepsLists
  <2>3. QED
    BY <1>0, <1>1, <1>2, <1>3, <2>2 DEF RegisterTypes
<1>5. CASE ~(dirGone /\ d \in nodes)
  <2>1. UNCHANGED <<nodes, at, freed, paths, mode, marked>>
    BY <1>5 DEF Push, treeVars
  <2>2. RegisterTypes'
    BY <1>0, <1>1, <1>2, <1>3, <2>1 DEF RegisterTypes
  <2>3. \A r \in Client : ListInv(r)'
    BY <1>0, <1>1, <2>1, ListSame
  <2>4. QED
    BY <2>2, <2>3
<1>6. QED
  BY <1>4, <1>5

LEMMA EmptyList ==
  ASSUME paths = [c \in Client |-> <<>>], at = [d \in Dirs |-> {}],
         mode = [c \in Client |-> [d \in Dirs |-> "none"]],
         NEW c \in Client
  PROVE  ListInv(c)
<1>1. paths[c] = <<>> /\ Registered(c) = {}
  BY DEF Registered, Range
<1>2. QED
  BY <1>1 DEF ListInv, NoneSuperfluous, IsInjective

LEMMA InitRegister == Init => RegisterInv
<1> SUFFICES ASSUME Init PROVE RegisterInv
  OBVIOUS
<1>1. TreeInv
  BY InitTree
<1>2. \A c \in Client : ListInv(c)
  BY EmptyList DEF Init
<1>3. RegisterTypes
  BY MaxNotesIsNat DEF Init, RegisterTypes
<1>4. QED
  BY <1>1, <1>2, <1>3 DEF RegisterInv

LEMMA EndKeepsLists ==
  ASSUME SendFails
  PROVE  RegisterTypes' /\ \A c \in Client : ListInv(c)'
<1>1. /\ listed' = {} /\ marked' = {} /\ nodes' = {} /\ freed' = {}
      /\ paths' = [c \in Client |-> <<>>] /\ at' = [d \in Dirs |-> {}]
      /\ mode' = [c \in Client |-> [d \in Dirs |-> "none"]]
      /\ updates' = [c \in Client |-> <<>>] /\ pushed' = <<>>
      /\ status' = "terminated"
  BY DEF SendFails
<1>2. ASSUME NEW c \in Client
      PROVE  ListInv(c)'
  <2>1. paths'[c] = <<>> /\ Registered(c)' = {}
    BY <1>1 DEF Registered, Range
  <2>2. QED
    BY <1>1, <2>1 DEF ListInv, NoneSuperfluous, IsInjective
<1>3. RegisterTypes'
  BY <1>1, MaxNotesIsNat DEF RegisterTypes
<1>4. QED
  BY <1>2, <1>3

LEMMA NextRegister == RegisterInv /\ [Next]_vars => RegisterInv'
<1> SUFFICES ASSUME RegisterInv, [Next]_vars
             PROVE  RegisterTypes' /\ \A c \in Client : ListInv(c)'
  BY NextTree DEF RegisterInv
<1>0. RegisterTypes /\ \A c \in Client : ListInv(c)
  BY DEF RegisterInv
<1>1. CASE \E c \in Client, p \in Dirs, m \in Mode : Register(c, p, m)
  BY <1>1, RegisterKeepsLists
<1>2. CASE \E c \in Client, p \in Dirs : Unregister(c, p)
  BY <1>2, UnregisterKeepsLists
<1>3. CASE \E d \in Dirs : \/ Push(Append(d, File), FALSE)
                           \/ \E gone \in BOOLEAN : Push(d, gone)
  BY <1>3, PushKeepsLists DEF Notified
<1>4. CASE SendFails
  BY <1>4, EndKeepsLists
<1>5. CASE Send
  <2>1. /\ listed' = listed /\ marked' = {} /\ pushed' = <<>>
        /\ updates' = [c \in Client |-> <<>>]
        /\ UNCHANGED <<paths, mode, nodes, at, freed, status>>
    BY <1>0, <1>5 DEF Send, RegisterTypes, treeVars
  <2>2. RegisterTypes'
    BY <1>0, <2>1, MaxNotesIsNat DEF RegisterTypes
  <2>3. \A c \in Client : ListInv(c)'
    BY <1>0, <2>1, ListSame
  <2>4. QED
    BY <2>2, <2>3
<1>6. CASE Finished \/ UNCHANGED vars
  <2>1. UNCHANGED vars /\ status \in {"up", "terminated", "freed_memory"}
    BY <1>0, <1>6 DEF Finished, RegisterTypes
  <2>2. QED
    BY <1>0, <2>1, RegisterSameInv DEF vars
<1>7. QED
  BY <1>1, <1>2, <1>3, <1>4, <1>5, <1>6 DEF Next

LEMMA RegisterAlways == Spec => []RegisterInv
BY InitRegister, NextRegister, PTL DEF Spec

\* The types of the register, for any clients, directories and bounds.
THEOREM TypeCorrect == Spec => []TypeOK
<1>1. RegisterInv => TypeOK
  <2> SUFFICES ASSUME RegisterInv PROVE TypeOK
    OBVIOUS
  <2>1. RegisterTypes /\ nodes \subseteq Dirs /\ at \in [Dirs -> SUBSET Client]
    BY TreeOfDirs DEF RegisterInv, TreeInv
  <2>2. \A c \in Client : Range(paths[c]) \subseteq Dirs
    <3>1. \A c \in Client : paths[c] \in Seq(Dirs)
      BY <2>1 DEF RegisterTypes
    <3>2. QED
      BY <3>1 DEF Range
  <2>3. QED
    BY <2>1, <2>2 DEF TypeOK, RegisterTypes
<1>2. QED
  BY <1>1, RegisterAlways, PTL

\* A client's list has exactly the paths at whose nodes it is registered, each once,
\* and cpt_add_client_registration never returns between clearing an entry of it and
\* copying the others: for any order of requests and deletions, also where names
\* begin each other.
THEOREM ListsStayInAgreement == Spec => []ListsAgree
<1>1. RegisterInv => ListsAgree
  <2> SUFFICES ASSUME RegisterInv PROVE ListsAgree
    OBVIOUS
  <2>1. NoHoles
    BY DEF RegisterInv, RegisterTypes, NoHoles
  <2>2. ASSUME NEW c \in Client
        PROVE  /\ IsInjective(paths[c])
               /\ Range(paths[c]) = {d \in Dirs : d \in nodes /\ c \in at[d]}
               /\ Range(paths[c]) = {d \in Dirs : mode[c][d] # "none"}
               /\ paths[c] # <<>> => c \in listed
    <3>1. /\ ListInv(c) /\ nodes = TreeOf(at)
          /\ paths[c] \in Seq(Dirs)
      BY DEF RegisterInv, TreeInv, RegisterTypes
    <3>2. Registered(c) \subseteq Dirs
      BY <3>1 DEF Registered, Range
    <3>3. \A d \in Dirs : c \in at[d] => d \in nodes
      BY <3>1, OccupiedIsNode DEF Occupied
    <3>4. QED
      BY <3>1, <3>2, <3>3 DEF ListInv, Registered
  <2>3. QED
    BY <2>1, <2>2 DEF ListsAgree
<1>2. QED
  BY <1>1, RegisterAlways, PTL

-----------------------------------------------------------------------------
(* What a notification adds to the queues.                                 *)

\* The directory a notification is about something in, and what is on the way to it.
LEMMA NotifiedPath ==
  ASSUME NEW d \in Notified
  PROVE  /\ d \in Seq(Name \cup {File}) /\ d # <<>>
         /\ Front(d) \in Dirs \/ Front(d) = <<>>
         /\ \A p \in Dirs : /\ IsStrictPrefix(p, d) <=> p \in Ancestors(Front(d))
                            /\ p \in Ancestors(Front(d)) <=> IsPrefix(p, Front(d))
<1> DEFINE S == Name \cup {File}
<1>1. \A p \in Dirs : p \in Seq(Name) /\ p \in Seq(S) /\ p # <<>>
  BY PathIsSequence
<1>2. d \in Seq(S) /\ d # <<>>
  BY <1>1 DEF Notified
<1>3. /\ Front(d) \in Seq(S) /\ Len(Front(d)) = Len(d) - 1 /\ IsPrefix(Front(d), d)
  BY <1>2, FrontIsPrefix
<1>4. Front(d) \in Dirs \/ Front(d) = <<>>
  <2>1. CASE d \in Dirs
    <3>1. Front(d) = <<>> \/ Front(d) \in Ancestors(d)
      BY <1>2, <1>3, PrefixIsAncestor
    <3>2. QED
      BY <2>1, <3>1, DirsAreClosed
  <2>2. CASE \E e \in Dirs : d = Append(e, File)
    <3>1. PICK e \in Dirs : d = Append(e, File)
      BY <2>2
    <3>2. Len(e) = Len(d) - 1 /\ IsPrefix(e, d) /\ e \in Seq(S)
      BY <1>1, <3>1 DEF IsPrefix
    <3>3. Front(d) = e
      BY <1>2, <1>3, <3>2, SameLengthPrefixes
    <3>4. QED
      BY <3>3
  <2>3. QED
    BY <2>1, <2>2 DEF Notified
<1>5. ASSUME NEW p \in Dirs
      PROVE  /\ IsStrictPrefix(p, d) <=> p \in Ancestors(Front(d))
             /\ p \in Ancestors(Front(d)) <=> IsPrefix(p, Front(d))
  <2>1. p \in Ancestors(Front(d)) <=> IsPrefix(p, Front(d))
    BY <1>1, <1>3, PrefixIsAncestor
  <2>2. ASSUME IsPrefix(p, Front(d))
        PROVE  IsPrefix(p, d) /\ p # d
    BY <1>1, <1>2, <1>3, <2>2 DEF IsPrefix
  <2>3. ASSUME IsPrefix(p, d), p # d
        PROVE  IsPrefix(p, Front(d))
    <3>1. Len(p) < Len(d)
      <4>1. IsPrefix(d, d) /\ Len(p) <= Len(d)
        BY <1>1, <1>2, <2>3 DEF IsPrefix
      <4>2. Len(p) # Len(d)
        BY <1>1, <1>2, <2>3, <4>1, SameLengthPrefixes
      <4>3. QED
        BY <1>1, <1>2, <4>1, <4>2
    <3>2. QED
      BY <1>1, <1>2, <2>3, <3>1, ShorterBeginsFront
  <2>4. QED
    BY <2>1, <2>2, <2>3 DEF IsStrictPrefix
<1>6. QED
  BY <1>2, <1>4, <1>5

\* A client hears of a change at one node at most, whatever the modes on the way.
LEMMA HeardAtOneNode ==
  ASSUME RegisterInv, NEW c \in Client, NEW d \in Notified
  PROVE  Cardinality(HearingNodes(c, d)) = IF Hears(c, d) THEN 1 ELSE 0
<1>1. /\ paths[c] \in Seq(Dirs) /\ NoneSuperfluous(c) /\ nodes = TreeOf(at)
      /\ \A p \in Dirs : p \in Registered(c) <=> c \in at[p]
  BY DEF RegisterInv, RegisterTypes, ListInv, TreeInv
<1>2. /\ Registered(c) \subseteq Dirs /\ nodes \subseteq Dirs
      /\ \A p \in Dirs : c \in at[p] => p \in nodes
  <2>1. Registered(c) \subseteq Dirs
    BY <1>1 DEF Registered, Range
  <2>2. QED
    BY <1>1, <2>1, TreeOfDirs, OccupiedIsNode DEF Occupied
<1>3. HearingNodes(c, d) =
        {p \in Registered(c) : /\ p \in Ancestors(Front(d))
                               /\ p = Front(d) \/ mode[c][p] = "recursive"}
  BY <1>1, <1>2 DEF HearingNodes, OnTheWay
<1>4. \A p \in Registered(c) : p = Front(d) => p \in Ancestors(Front(d))
  BY <1>2, PathIsSequence
<1>5. Hears(c, d) <=> HearingNodes(c, d) # {}
  BY <1>2, <1>3, <1>4, NotifiedPath DEF Hears, Registered
<1>6. ASSUME NEW p \in HearingNodes(c, d), NEW q \in HearingNodes(c, d), p # q,
             Len(p) <= Len(q)
      PROVE  FALSE
  <2>1. /\ p \in Dirs /\ q \in Dirs /\ Front(d) \in Dirs
        /\ IsPrefix(p, Front(d)) /\ IsPrefix(q, Front(d))
    <3>1. /\ p \in Dirs /\ q \in Dirs /\ p \in Ancestors(Front(d))
          /\ q \in Ancestors(Front(d))
      BY <1>2, <1>3
    <3>2. Front(d) # <<>>
      BY <3>1 DEF Ancestors
    <3>3. QED
      BY <3>1, <3>2, NotifiedPath
  <2>2. p \in Seq(Name) /\ q \in Seq(Name) /\ Front(d) \in Seq(Name)
    BY <2>1, PathIsSequence
  <2>3. IsPrefix(p, q)
    BY <1>6, <2>1, <2>2, PrefixesNest
  <2>4. p # Front(d)
    <3>1. SUFFICES ASSUME p = Front(d) PROVE FALSE
      OBVIOUS
    <3>2. Len(q) <= Len(p) /\ Len(p) \in Nat /\ Len(q) \in Nat
      BY <2>1, <2>2, <3>1 DEF IsPrefix
    <3>3. Len(p) = Len(q)
      BY <1>6, <3>2
    <3>4. QED
      BY <1>6, <2>1, <2>2, <3>3, SameLengthPrefixes
  <2>5. mode[c][p] = "recursive" /\ p \in Registered(c) /\ q \in Registered(c)
    BY <1>3, <2>4
  <2>6. QED
    BY <1>1, <1>6, <2>3, <2>5, PrefixIsStringPrefix DEF NoneSuperfluous
<1>7. \A p, q \in HearingNodes(c, d) : p = q
  <2>1. \A p \in HearingNodes(c, d) : Len(p) \in Nat
    BY <1>2, <1>3, PathIsSequence
  <2>2. \A p, q \in HearingNodes(c, d) : Len(p) <= Len(q) \/ Len(q) <= Len(p)
    BY <2>1
  <2>3. QED
    BY <1>6, <2>2
<1>8. CASE HearingNodes(c, d) = {}
  BY <1>5, <1>8, FS_EmptySet
<1>9. CASE HearingNodes(c, d) # {}
  <2>1. PICK p : HearingNodes(c, d) = {p}
    BY <1>7, <1>9
  <2>2. QED
    BY <1>5, <2>1, FS_Singleton
<1>10. QED
  BY <1>8, <1>9

\* How often a queue tells of a change when others are added to it, at most the first
\* of which tells of that change.
LEMMA CountOfLonger ==
  ASSUME NEW queue \in Seq(Notes), NEW more \in Seq(Notes), NEW k \in {0, 1},
         NEW d, k <= Len(more),
         \A i \in 1..Len(more) : more[i] = Note("change", d) <=> i <= k
  PROVE  /\ NotesAbout(queue \o more, d) = NotesAbout(queue, d) + k
         /\ NotesAbout(queue, d) \in Nat
<1>0. PICK longer, l, n : longer = queue \o more /\ l = Len(queue) /\ n = Note("change", d)
  OBVIOUS
<1>1. /\ l \in Nat /\ Len(more) \in Nat
      /\ DOMAIN queue = 1..l /\ DOMAIN longer = 1..(l + Len(more))
      /\ \A i \in 1..l : longer[i] = queue[i]
      /\ \A i \in 1..Len(more) : longer[l + i] = more[i]
  BY <1>0
<1>2. PICK A : A = {i \in DOMAIN queue : queue[i] = n}
  OBVIOUS
<1>3. PICK B : B = {i \in DOMAIN longer : longer[i] = n}
  OBVIOUS
<1>4. IsFiniteSet(A) /\ Cardinality(A) \in Nat
  <2>1. A \subseteq 1..l
    BY <1>1, <1>2
  <2>2. QED
    BY <1>1, <2>1, UpToFacts
<1>5. \A i \in 1..(l + Len(more)) :
        i \in 1..l \/ \E j \in 1..Len(more) : i = l + j
  <2>1. ASSUME NEW i \in 1..(l + Len(more)), i \notin 1..l
        PROVE  i - l \in 1..Len(more) /\ i = l + (i - l)
    BY <1>1, <2>1
  <2>2. QED
    BY <2>1
<1>6. \A j \in 1..Len(more) : longer[l + j] = n <=> j <= k
  BY <1>0, <1>1
<1>7. Cardinality(B) = Cardinality(A) + k
  <2>1. CASE k = 0
    <3>1. \A j \in 1..Len(more) : longer[l + j] # n
      BY <1>1, <1>6, <2>1
    <3>2. B = A
      BY <1>1, <1>2, <1>3, <1>5, <3>1
    <3>3. QED
      BY <1>4, <2>1, <3>2
  <2>2. CASE k = 1
    <3>1. 1 \in 1..Len(more) /\ longer[l + 1] = n
      BY <1>1, <1>6, <2>2
    <3>2. \A j \in 1..Len(more) : longer[l + j] = n => j = 1
      BY <1>1, <1>6, <2>2
    <3>3. B = A \cup {l + 1} /\ l + 1 \notin A
      BY <1>1, <1>2, <1>3, <1>5, <3>1, <3>2
    <3>4. Cardinality(B) = Cardinality(A) + 1
      BY <1>4, <3>3, FS_AddElement
    <3>5. QED
      BY <2>2, <3>4
  <2>3. QED
    BY <2>1, <2>2
<1>8. NotesAbout(queue \o more, d) = Cardinality(B) /\ NotesAbout(queue, d) = Cardinality(A)
  BY <1>0, <1>2, <1>3 DEF NotesAbout
<1>9. QED
  BY <1>4, <1>7, <1>8

LEMMA PushIsHeardOnce ==
  ASSUME RegisterInv, NEW d \in Notified, NEW dirGone \in BOOLEAN, Push(d, dirGone),
         NEW c \in Client
  PROVE  NotesAbout(updates'[c], d) =
           NotesAbout(updates[c], d) + (IF Hears(c, d) THEN 1 ELSE 0)
<1> DEFINE n == Note("change", d)
           k == IF Hears(c, d) THEN 1 ELSE 0
           signals == IF dirGone THEN Signals(c, d) ELSE <<>>
<1>1. updates'[c] = updates[c] \o Copies(c, d) \o signals
  BY DEF Push
<1>2. n \in Notes /\ Note("removed", d) \in Notes /\ Note("removed", d) # n
  BY DEF Notes, Note
<1>3. /\ Copies(c, d) \in Seq(Notes) /\ Len(Copies(c, d)) = k
      /\ \A i \in 1..Len(Copies(c, d)) : Copies(c, d)[i] = n
  <2>1. Copies(c, d) = [i \in 1..k |-> n]
    BY HeardAtOneNode DEF Copies
  <2>2. QED
    BY <1>2, <2>1
<1>4. /\ signals \in Seq(Notes)
      /\ \A i \in 1..Len(signals) : signals[i] # n
  <2>1. Cardinality(Lost(c, d)) \in Nat
    <3>1. Lost(c, d) \subseteq Range(paths[c])
      BY LostFacts DEF Registered
    <3>2. paths[c] \in Seq(Dirs)
      BY DEF RegisterInv, RegisterTypes
    <3>3. QED
      BY <3>1, <3>2, NoMoreThanListed
  <2>2. QED
    BY <1>2, <2>1 DEF Signals
<1>5. updates[c] \in Seq(Notes)
  BY DEF RegisterInv, RegisterTypes
<1> HIDE DEF signals
<1>6. /\ updates[c] \o Copies(c, d) \in Seq(Notes)
      /\ NotesAbout(updates[c] \o Copies(c, d), d) = NotesAbout(updates[c], d) + k
      /\ NotesAbout(updates[c], d) \in Nat
  <2>1. PICK j \in {0, 1} : j = k
    OBVIOUS
  <2>2. \A i \in 1..Len(Copies(c, d)) : Copies(c, d)[i] = Note("change", d) <=> i <= j
    BY <1>3, <2>1
  <2>3. j <= Len(Copies(c, d))
    BY <1>3, <2>1
  <2>4. NotesAbout(updates[c] \o Copies(c, d), d) = NotesAbout(updates[c], d) + j
          /\ NotesAbout(updates[c], d) \in Nat
    BY <1>3, <1>5, <2>2, <2>3, CountOfLonger
  <2>5. QED
    BY <1>3, <1>5, <2>1, <2>4
<1>7. NotesAbout(updates[c] \o Copies(c, d) \o signals, d) =
        NotesAbout(updates[c] \o Copies(c, d), d) + 0
  <2>1. \A i \in 1..Len(signals) : signals[i] = Note("change", d) <=> i <= 0
    BY <1>4
  <2>2. 0 \in {0, 1} /\ 0 <= Len(signals)
    BY <1>4
  <2>3. QED
    BY <1>4, <1>6, <2>1, <2>2, CountOfLonger
<1>8. QED
  BY <1>1, <1>6, <1>7

\* cpt_push_notification queues a notification exactly once for each client that is
\* registered for the directory, or recursively for one further up, however many of its
\* registrations there are on the way.
THEOREM NotificationsAreHeardOnce == Spec => HeardOnce
<1>1. ASSUME RegisterInv, [Next]_vars, Len(pushed') > Len(pushed)
      PROVE  \E d \in Notified, dirGone \in BOOLEAN :
               Push(d, dirGone) /\ Last(pushed') = d
  <2>1. pushed \in Seq(Notified) /\ Len(pushed) \in Nat
    BY <1>1 DEF RegisterInv, RegisterTypes
  <2>2. pushed' # pushed /\ pushed' # <<>>
    BY <1>1, <2>1
  <2>3. \A c \in Client, p \in Dirs, m \in Mode : ~Register(c, p, m)
    BY <2>2 DEF Register, RegisterSame, RegisterAlready, RegisterNew, RegisterWider, Enter,
       Undefined, RegisterLeavesHoles, vars
  <2>4. \A c \in Client, p \in Dirs : ~Unregister(c, p)
    BY <2>2 DEF Unregister
  <2>5. ~Send /\ ~SendFails /\ ~Finished /\ ~UNCHANGED vars
    BY <2>2 DEF Send, SendFails, Finished, vars
  <2>6. PICK d \in Notified, dirGone \in BOOLEAN : Push(d, dirGone)
    BY <1>1, <2>3, <2>4, <2>5 DEF Next, Notified
  <2>7. Last(pushed') = d
    BY <2>1, <2>6 DEF Push, Last
  <2>8. QED
    BY <2>6, <2>7
<1>2. RegisterInv /\ [Next]_vars =>
        [Len(pushed') > Len(pushed) =>
           LET d == Last(pushed')
           IN  \A c \in Client :
                 NotesAbout(updates'[c], d) =
                   NotesAbout(updates[c], d) + (IF Hears(c, d) THEN 1 ELSE 0)]_vars
  BY <1>1, PushIsHeardOnce
<1>3. QED
  BY <1>2, RegisterAlways, PTL DEF Spec, HeardOnce

-----------------------------------------------------------------------------
(* The register implements Registrations.                                  *)

\* No name begins another one, so that paths begin each other as strings only
\* where they do as names.
NamesApart == \A p, q \in Dirs : StringPrefix(p, q) => IsPrefix(p, q)

\* What the clients hold.
Holdings == [c \in Client |-> {<<p, mode[c][p]>> : p \in Registered(c)}]

\* Registrations compares paths as the register does.
LEMMA SamePrefix == \A p, q : Held!IsPrefix(p, q) <=> IsPrefix(p, q)
BY DEF IsPrefix, Held!IsPrefix

\* A client that keeps its registrations holds what it held.
LEMMA SameHolding ==
  ASSUME RegisterInv, NEW c \in Client, Registered(c)' = Registered(c),
         \A p \in Registered(c) : mode'[c][p] = mode[c][p]
  PROVE  Holdings'[c] = Holdings[c]
BY DEF Holdings

LEMMA OneHoldingChanges ==
  ASSUME RegisterInv, NEW c \in Client, NEW X, Holdings'[c] = X,
         \A r \in Client : r # c => paths'[r] = paths[r] /\ mode'[r] = mode[r]
  PROVE  Holdings' = [Holdings EXCEPT ![c] = X]
<1>1. \A r \in Client : r # c => Holdings'[r] = Holdings[r]
  BY DEF Holdings, Registered
<1>2. QED
  BY <1>1 DEF Holdings

LEMMA EnterIsAdding ==
  ASSUME NamesApart, RegisterInv, NEW c \in Client, NEW p \in Dirs, NEW m \in Mode,
         RegisterNew(c, p, m) \/ RegisterWider(c, p, m)
  PROVE  Held!AddRecursive(c, p) \/ Held!AddPlain(c, p) \/ UNCHANGED Holdings
<1>1. PICK gone : gone = {DirAt(c, i) : i \in Replaced(c, p, m)}
  OBVIOUS
<1>2. CASE UNCHANGED <<registerVars, marked, updates, pushed>>
  BY <1>2 DEF registerVars, Holdings, Registered
<1>3. CASE ~UNCHANGED <<registerVars, marked, updates, pushed>>
  <2>1. /\ Registered(c)' = (Registered(c) \ gone) \cup {p}
        /\ \A r \in Client : r # c => paths'[r] = paths[r] /\ mode'[r] = mode[r]
        /\ \A d \in Dirs : mode'[c][d] = IF d = p THEN m
                                        ELSE IF d \in Registered(c) \ gone THEN mode[c][d]
                                        ELSE "none"
    <3>1. \/ UNCHANGED <<registerVars, marked, updates, pushed>>
          \/ Entered(c, p, m, gone)
      BY <1>1, EnterStep
    <3>2. QED
      BY <1>3, <3>1 DEF Entered
  <2>2. StopAt(c, p, m) = 0
    BY DEF RegisterNew, RegisterWider
  <2>3. Registered(c) \subseteq Dirs
    <3>1. paths[c] \in Seq(Dirs)
      BY DEF RegisterInv, RegisterTypes
    <3>2. QED
      BY <3>1 DEF Registered, Range
  <2>4. /\ \A q \in Registered(c) :
             /\ mode[c][q] = "recursive" => ~IsPrefix(q, p)
             /\ q \in gone <=> m = "recursive" /\ IsPrefix(p, q)
        /\ p \in Registered(c) => p \in gone
    <3>1. /\ \A q \in Registered(c) :
               /\ mode[c][q] = "recursive" => ~StringPrefix(q, p)
               /\ q \in gone <=> m = "recursive" /\ StringPrefix(p, q)
          /\ p \in Registered(c) => p \in gone
      BY <1>1, <2>2, NothingStops
    <3>2. \A q \in Dirs : StringPrefix(p, q) <=> IsPrefix(p, q)
      BY PrefixIsStringPrefix DEF NamesApart
    <3>3. \A q \in Dirs : IsPrefix(q, p) => StringPrefix(q, p)
      BY PrefixIsStringPrefix
    <3>4. QED
      BY <2>3, <3>1, <3>2, <3>3
  <2>5. Holdings'[c] = {<<q, mode[c][q]>> : q \in Registered(c) \ gone} \cup {<<p, m>>}
    <3>1. Holdings'[c] = {<<q, mode'[c][q]>> : q \in (Registered(c) \ gone) \cup {p}}
      BY <2>1 DEF Holdings
    <3>2. \A q \in Registered(c) \ gone : q # p /\ mode'[c][q] = mode[c][q]
      BY <2>1, <2>3, <2>4
    <3>3. mode'[c][p] = m
      BY <2>1
    <3>4. QED
      BY <3>1, <3>2, <3>3
  <2>6. Holdings[c] = {<<q, mode[c][q]>> : q \in Registered(c)}
    BY DEF Holdings
  <2>7. \A r \in Holdings[c] : ~(r[2] = "recursive" /\ IsPrefix(r[1], p))
    BY <2>4, <2>6
  <2>8. CASE m = "recursive"
    <3>1. {<<q, mode[c][q]>> : q \in Registered(c) \ gone} =
            {r \in Holdings[c] : ~IsPrefix(p, r[1])}
      BY <2>4, <2>6, <2>8
    <3>2. Holdings' = [Holdings EXCEPT ![c] =
            {r \in Holdings[c] : ~IsPrefix(p, r[1])} \cup {<<p, "recursive">>}]
      BY <2>1, <2>5, <2>8, <3>1, OneHoldingChanges
    <3>3. Held!AddRecursive(c, p)
      BY <2>7, <3>2, SamePrefix DEF Held!AddRecursive, Held!Wide, Holdings, Registered
    <3>4. QED
      BY <3>3
  <2>9. CASE m = "nonrecursive"
    <3>1. {<<q, mode[c][q]>> : q \in Registered(c) \ gone} =
            Holdings[c] \ {<<p, "recursive">>}
      BY <2>4, <2>6, <2>9
    <3>2. Holdings' = [Holdings EXCEPT ![c] =
            (Holdings[c] \ {<<p, "recursive">>}) \cup {<<p, "nonrecursive">>}]
      BY <2>1, <2>5, <2>9, <3>1, OneHoldingChanges
    <3>3. Held!AddPlain(c, p)
      BY <2>7, <3>2, SamePrefix DEF Held!AddPlain, Held!Wide, Holdings, Registered
    <3>4. QED
      BY <3>3
  <2>10. QED
    BY <2>8, <2>9 DEF Mode
<1>4. QED
  BY <1>2, <1>3

\* A directory whose mode is set to the one without the directories below.
LEMMA NarrowerIsAdding ==
  ASSUME RegisterInv, NEW c \in Client, NEW p \in Dirs, NEW m \in Mode,
         RegisterSame(c, p, m)
  PROVE  Held!AddPlain(c, p) \/ UNCHANGED Holdings
<1>0. RegisterTypes /\ ListInv(c)
  BY DEF RegisterInv
<1>1. /\ mode' = [mode EXCEPT ![c][p] = "nonrecursive"] /\ paths' = paths
      /\ StopAt(c, p, m) # 0 /\ DirAt(c, StopAt(c, p, m)) = p
  BY DEF RegisterSame
<1>2. p \in Registered(c)
  <2>1. StopAt(c, p, m) \in DOMAIN paths[c]
    BY <1>0, <1>1, StopFacts
  <2>2. QED
    BY <1>1, <2>1 DEF Registered, Range, DirAt
<1>3. Registered(c) \subseteq Dirs /\ Registered(c)' = Registered(c)
  <2>1. paths[c] \in Seq(Dirs)
    BY <1>0 DEF RegisterTypes
  <2>2. QED
    BY <1>1, <2>1 DEF Registered, Range
<1>4. /\ \A r \in Client : r # c => mode'[r] = mode[r]
      /\ \A d \in Dirs : mode'[c][d] = IF d = p THEN "nonrecursive" ELSE mode[c][d]
      /\ mode[c][p] \in Mode
  <2>1. mode \in [Client -> [Dirs -> Mode \cup {"none"}]]
    BY <1>0 DEF RegisterTypes
  <2>2. mode[c][p] # "none"
    BY <1>0, <1>2 DEF ListInv
  <2>3. QED
    BY <1>1, <2>1, <2>2
<1>5. CASE mode[c][p] = "nonrecursive"
  <2>1. \A r \in Client : \A q \in Dirs : mode'[r][q] = mode[r][q]
    BY <1>4, <1>5
  <2>2. \A r \in Client : Registered(r) \subseteq Dirs /\ Registered(r)' = Registered(r)
    <3>1. \A r \in Client : paths[r] \in Seq(Dirs)
      BY <1>0 DEF RegisterTypes
    <3>2. QED
      BY <1>1, <3>1 DEF Registered, Range
  <2>3. \A r \in Client : Holdings'[r] = Holdings[r]
    BY <2>1, <2>2, SameHolding
  <2>4. UNCHANGED Holdings
    BY <2>3 DEF Holdings
  <2>5. QED
    BY <2>4
<1>6. CASE mode[c][p] = "recursive"
  <2>1. Holdings[c] = {<<q, mode[c][q]>> : q \in Registered(c)}
    BY DEF Holdings
  <2>2. Holdings'[c] = {<<q, mode'[c][q]>> : q \in Registered(c)}
    BY <1>3 DEF Holdings
  <2>3. <<p, "recursive">> \in Holdings[c]
    BY <1>2, <1>6, <2>1
  <2>4. Holdings'[c] = (Holdings[c] \ {<<p, "recursive">>}) \cup {<<p, "nonrecursive">>}
    BY <1>2, <1>3, <1>4, <1>6, <2>1, <2>2
  <2>5. Holdings' = [Holdings EXCEPT ![c] =
          (Holdings[c] \ {<<p, "recursive">>}) \cup {<<p, "nonrecursive">>}]
    BY <1>1, <1>4, <2>4, OneHoldingChanges
  <2>6. Held!AddPlain(c, p)
    BY <2>3, <2>5 DEF Held!AddPlain, Holdings, Registered
  <2>7. QED
    BY <2>6
<1>7. QED
  BY <1>4, <1>5, <1>6 DEF Mode

LEMMA RegisterIsAdding ==
  ASSUME NamesApart, RegisterInv, NEW c \in Client, NEW p \in Dirs, NEW m \in Mode,
         Register(c, p, m)
  PROVE  Held!AddRecursive(c, p) \/ Held!AddPlain(c, p) \/ UNCHANGED Holdings
<1>1. CASE RegisterNew(c, p, m) \/ RegisterWider(c, p, m)
  BY <1>1, EnterIsAdding
<1>2. CASE RegisterSame(c, p, m)
  BY <1>2, NarrowerIsAdding
<1>3. CASE RegisterAlready(c, p, m)
  BY <1>3 DEF RegisterAlready, vars, registerVars, Holdings, Registered
<1>4. ~RegisterLeavesHoles(c, p, m)
  BY NoEntryIsCleared DEF RegisterLeavesHoles
<1>5. QED
  BY <1>1, <1>2, <1>3, <1>4 DEF Register

LEMMA UnregisterIsDropping ==
  ASSUME RegisterInv, NEW c \in Client, NEW p \in Dirs, Unregister(c, p)
  PROVE  Held!Drop(c, p)
<1>1. /\ Registered(c)' = Registered(c) \ {p} /\ p \in Registered(c)
      /\ \A r \in Client : r # c => paths'[r] = paths[r] /\ mode'[r] = mode[r]
      /\ \A d \in Dirs : d # p => mode'[c][d] = mode[c][d]
  BY UnregisterKeepsLists
<1>2. Registered(c) \subseteq Dirs /\ mode[c][p] \in Mode
  <2>1. /\ paths[c] \in Seq(Dirs) /\ mode[c] \in [Dirs -> Mode \cup {"none"}]
        /\ mode[c][p] # "none"
    BY <1>1 DEF RegisterInv, RegisterTypes, ListInv
  <2>2. QED
    BY <2>1 DEF Registered, Range
<1>3. Holdings[c] = {<<q, mode[c][q]>> : q \in Registered(c)}
  BY DEF Holdings
<1>4. Holdings'[c] = {<<q, mode[c][q]>> : q \in Registered(c) \ {p}}
  <2>1. Holdings'[c] = {<<q, mode'[c][q]>> : q \in Registered(c) \ {p}}
    BY <1>1 DEF Holdings
  <2>2. QED
    BY <1>1, <1>2, <2>1
<1>5. Holdings'[c] = {r \in Holdings[c] : r[1] # p}
  BY <1>3, <1>4
<1>6. Holdings' = [Holdings EXCEPT ![c] = {r \in Holdings[c] : r[1] # p}]
  BY <1>1, <1>5, OneHoldingChanges
<1>7. \E m \in Held!Mode : <<p, m>> \in Holdings[c]
  BY <1>1, <1>2, <1>3 DEF Mode, Held!Mode
<1>8. QED
  BY <1>6, <1>7 DEF Held!Drop, Holdings, Registered

LEMMA DeleteIsForgetting ==
  ASSUME RegisterInv, NEW d \in nodes, DeleteSubtree(d), UNCHANGED listed
  PROVE  Held!Forget(d)
<1>1. ASSUME NEW c \in Client
      PROVE  Holdings'[c] = {r \in Holdings[c] : ~IsPrefix(d, r[1])}
  <2>1. /\ Registered(c)' = {e \in Registered(c) : ~IsPrefix(d, e)}
        /\ \A e \in Registered(c) : ~IsPrefix(d, e) => mode'[c][e] = mode[c][e]
    BY DeleteKeepsLists
  <2>2. Holdings[c] = {<<q, mode[c][q]>> : q \in Registered(c)}
    BY DEF Holdings
  <2>3. Holdings'[c] = {<<q, mode'[c][q]>> : q \in {e \in Registered(c) : ~IsPrefix(d, e)}}
    BY <2>1 DEF Holdings
  <2>4. QED
    BY <2>1, <2>2, <2>3
<1>2. Holdings' = [c \in Client |-> {r \in Holdings[c] : ~IsPrefix(d, r[1])}]
  BY <1>1 DEF Holdings
<1>3. QED
  BY <1>2, SamePrefix DEF Held!Forget, Holdings, Registered

LEMMA NextImplements ==
  ASSUME NamesApart, RegisterInv, [Next]_vars
  PROVE  Held!Next \/ UNCHANGED Holdings
<1>1. CASE \E c \in Client, p \in Dirs, m \in Mode : Register(c, p, m)
  BY <1>1, RegisterIsAdding DEF Held!Next
<1>2. CASE \E c \in Client, p \in Dirs : Unregister(c, p)
  BY <1>2, UnregisterIsDropping DEF Held!Next
<1>3. CASE \E d \in Dirs : \/ Push(Append(d, File), FALSE)
                           \/ \E gone \in BOOLEAN : Push(d, gone)
  <2>1. PICK d \in Notified, dirGone \in BOOLEAN : Push(d, dirGone)
    BY <1>3 DEF Notified
  <2>2. CASE dirGone /\ d \in nodes
    <3>1. DeleteSubtree(d) /\ UNCHANGED listed
      BY <2>1, <2>2 DEF Push
    <3>2. d \in Dirs
      BY <2>2, TreeOfDirs DEF RegisterInv, TreeInv
    <3>3. QED
      BY <2>2, <3>1, <3>2, DeleteIsForgetting DEF Held!Next
  <2>3. CASE ~(dirGone /\ d \in nodes)
    BY <2>1, <2>3 DEF Push, Holdings, Registered
  <2>4. QED
    BY <2>2, <2>3
<1>4. CASE SendFails
  <2>1. Holdings' = [c \in Client |-> {}]
    BY <1>4 DEF SendFails, Holdings, Registered, Range
  <2>2. QED
    BY <2>1 DEF Held!Next, Held!Close, Holdings, Registered
<1>5. CASE Send \/ Finished \/ UNCHANGED vars
  BY <1>5 DEF Send, Finished, vars, registerVars, Holdings, Registered
<1>6. QED
  BY <1>1, <1>2, <1>3, <1>4, <1>5 DEF Next

\* Where no name of a directory begins another one, the register implements
\* Registrations: whatever the order of its lists and of the search through them, it
\* replaces the registrations the new one covers and no others, and what it answers
\* is registered already is.
THEOREM RegistrationsAreImplemented ==
  ASSUME NamesApart
  PROVE  Spec => ImplementsRegistrations
<1>1. Init => Held!Init
  BY DEF Init, Held!Init, Range
<1>2. RegisterInv /\ [Next]_vars =>
        [Held!Next]_([c \in Client |-> {<<p, mode[c][p]>> : p \in Range(paths[c])}])
  BY NextImplements DEF Holdings, Registered
<1>3. QED
  BY <1>1, <1>2, RegisterAlways, PTL
     DEF Spec, ImplementsRegistrations, Held!RegistrationsSpec
=============================================================================
