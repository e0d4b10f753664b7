--------------------------- MODULE MonitoredPaths ---------------------------
(***************************************************************************)
(* What the servers of one host monitor: the filesystem tree and the       *)
(* notification buckets in the mapping (mapping_structure.c,               *)
(* notifications_bucket.c, filesystree.c), the list of its paths each      *)
(* server keeps, and the directories themselves.                           *)
(*                                                                         *)
(* Whatever runs inside the mapping lock is one step, which MappingMutex   *)
(* of ServerProcesses justifies.  What a server does before or after, on   *)
(* serverPaths, is a step of its own: the handler updates the list after   *)
(* it has released the mapping, the monitor prunes it, and termination     *)
(* reads it.  A process runs as one server; server IDs are never reused.   *)
(*                                                                         *)
(* "/" always exists and is not monitored itself; plain files are left     *)
(* out.  attrs stands for what of a directory the scan compares: its       *)
(* permissions and its size.  A notification is not kept as a record:      *)
(* told is the set of directories its reader knows below the path.         *)
(***************************************************************************)
EXTENDS PathStrings

CONSTANTS
  Server,      \* the servers that may run, each once
  Dirs,        \* the directories there may be
  Scenarios    \* the settings a behaviour may run in

WorldKind == {
  "create", "delete",  \* directories come and go
  "attrs",             \* their permissions or sizes change
  "vanish",            \* a path is gone between its check and its first scan
  "garbage",           \* `updated` of a new bucket is not zero in memory
  "interrupt"}         \* SIGINT terminates a server in the middle of its work

ASSUME DirsAreClosed == \A d \in Dirs : d # <<>> /\ Ancestors(d) \subseteq Dirs
ASSUME DirsAreSequences == Dirs \subseteq Seq(UNION {Range(d) : d \in Dirs})
\* A scenario fixes the paths each server may be asked to monitor, the
\* directories other programs may make, and what else happens.
ASSUME ScenariosAreKnown ==
  Scenarios \subseteq [asked : [Server -> SUBSET Dirs], dirs : SUBSET Dirs,
                       world : SUBSET WorldKind]

Gone == 0
Attrs == {1, 2}

VARIABLES
  scenario,     \* the scenario of this behaviour
  fs,           \* the attributes of every directory, or Gone
  tree,         \* the nodes of the filesystem tree: attributes and mark
  buckets,      \* the notification buckets of all servers, in list order
  phase,        \* per server: "new", "up", "gone", or "broken"
  serverPaths,  \* per server: its list of monitored paths
  request,      \* per server: the request its handler is answering
  deleted       \* per server: the deletedPaths its monitor has to prune

mappingVars == <<tree, buckets>>
serverVars == <<phase, serverPaths, request, deleted>>
vars == <<scenario, fs, mappingVars, serverVars>>

Asked == scenario.asked
World == scenario.world

NoRequest == [path |-> <<>>, result |-> "none"]
Result == {"none", "added", "updated", "already", "inaccessible", "error"}

Exists(d) == fs[d] # Gone

Below(p) == {d \in Dirs : IsStrictPrefix(p, d)}

Own(s) == {i \in DOMAIN buckets : buckets[i].server = s}

\* The mapping file exists while a server uses it, or died without leaving.
InUse == \E s \in Server : phase[s] \in {"up", "broken"}

Init ==
  /\ scenario \in Scenarios
  /\ fs \in {f \in [Dirs -> {Gone, 1}] : \A d \in Dirs :
                f[d] # Gone => /\ d \in scenario.dirs
                               /\ \A e \in Ancestors(d) : f[e] # Gone}
  /\ tree = [d \in {} |-> [attrs |-> 1, monitored |-> FALSE]]
  /\ buckets = <<>>
  /\ phase = [s \in Server |-> "new"]
  /\ serverPaths = [s \in Server |-> <<>>]
  /\ request = [s \in Server |-> NoRequest]
  /\ deleted = [s \in Server |-> {}]

-----------------------------------------------------------------------------
(* __first_scan: bring path p into the tree.                               *)

Missing(p) == Ancestors(p) \ DOMAIN tree

\* The parent of the first node to add cannot be read, a directory is not in
\* its parent any more, or all is there.  A path whose nodes are all in the tree
\* is not looked at.
FirstScanResult(p) ==
  CASE \E d \in Missing(p) : /\ Front(d) \notin Missing(p) \cup {<<>>}
                             /\ ~Exists(Front(d)) -> "inaccessible"
    [] \A d \in Missing(p) : Exists(d) -> "ok"
    [] OTHER -> "error"

AnyMonitored(p) == \E d \in Ancestors(p) \cap DOMAIN tree : tree[d].monitored

\* __support_first_scan lists p and what is below, but enters no directory
\* that is monitored; nothing when p or a directory above is monitored.
ScannedBelow(p) ==
  {d \in Below(p) :
     /\ Exists(d) /\ ~AnyMonitored(p)
     /\ \A m \in DOMAIN tree \cap Below(p) :
          IsStrictPrefix(m, d) => ~tree[m].monitored}

FirstScanUnchecked(p) == \* mutant: adds the nodes of the path unseen
  [d \in DOMAIN tree \cup Missing(p) |->
     [attrs |-> IF d \in DOMAIN tree THEN tree[d].attrs ELSE fs[d],
      monitored |-> d = p \/ (d \in DOMAIN tree /\ tree[d].monitored)]]

\* The nodes on the path are added as far as they exist, even if the scan fails.
FirstScan(p) ==
  LET ok == FirstScanResult(p) = "ok"
      added == {d \in Missing(p) : Exists(d)}
                 \cup IF ok THEN ScannedBelow(p) ELSE {}
  IN  [d \in DOMAIN tree \cup added |->
         [attrs |-> IF d \in DOMAIN tree THEN tree[d].attrs ELSE fs[d],
          monitored |-> \/ d = p /\ ok
                        \/ d \in DOMAIN tree /\ tree[d].monitored]]

-----------------------------------------------------------------------------
(* register_server_path.                                                   *)

NewBucket(s, p, t, garbage) ==
  [server |-> s, path |-> p, mark |-> FALSE, updated |-> garbage,
   told |-> DOMAIN t \cap Below(p)]

\* nb_add_bucket leaves `updated` as it finds it in memory.
Garbage == IF "garbage" \in World THEN BOOLEAN ELSE {FALSE}

CoveringAnyServer(s, p) == \* mutant: serverID is not compared
  \E i \in DOMAIN buckets : IsPrefix(buckets[i].path, p)

\* nb_exists_bucket: a bucket of s is for p or for a directory above.
Covering(s, p) == \E i \in Own(s) : IsPrefix(buckets[i].path, p)

\* The buckets of s for directories below p, in list order.
Inner(s, p) ==
  Ascending({i \in Own(s) : IsStrictPrefix(p, buckets[i].path)})

\* From position k on, a bucket other than the one at i has its path.
SameFrom(i, k) ==
  {j \in DOMAIN buckets : j >= k /\ j # i /\ buckets[j].path = buckets[i].path}

\* Where the search for another bucket with the path of inner[l] begins: where
\* the search for the one before stopped.
SearchFrom(inner) ==
  LET from[l \in 1..Len(inner)] ==
        IF l = 1 THEN 1
        ELSE LET same == SameFrom(inner[l - 1], from[l - 1])
             IN  IF same = {} THEN Len(buckets) + 1
                 ELSE 1 + CHOOSE j \in same : \A k \in same : j <= k
  IN  from

\* The paths of the inner buckets for which that search finds no other bucket.
Unshared(inner) ==
  {buckets[inner[l]].path : l \in
    {m \in 1..Len(inner) : SameFrom(inner[m], SearchFrom(inner)[m]) = {}}}

Unmark(t, paths) ==
  [d \in DOMAIN t |-> [attrs |-> t[d].attrs,
                      monitored |-> t[d].monitored /\ d \notin paths]]

WidenKeepsOthers(inner, p, t) == \* mutant: the other inner buckets stay
  [i \in DOMAIN buckets |->
     IF i = inner[1] THEN [buckets[i] EXCEPT !.path = p,
                                             !.told = DOMAIN t \cap Below(p)]
     ELSE buckets[i]]

WidenMarksAll(inner, p, t) == \* mutant: without the test l > 0
  [i \in DOMAIN buckets |->
     IF i \in Range(inner)
     THEN [buckets[i] EXCEPT !.mark = TRUE, !.updated = TRUE,
                             !.path = IF i = inner[1] THEN p ELSE @]
     ELSE buckets[i]]

\* The first inner bucket takes path p, the others are deleted at the next read.
Widen(inner, p, t) ==
  [i \in DOMAIN buckets |->
     IF i = inner[1] THEN [buckets[i] EXCEPT !.path = p,
                                             !.told = DOMAIN t \cap Below(p)]
     ELSE IF i \in Range(Tail(inner))
     THEN [buckets[i] EXCEPT !.mark = TRUE, !.updated = TRUE]
     ELSE buckets[i]]

Answer(s, p, result) ==
  /\ request' = [request EXCEPT ![s] = [path |-> p, result |-> result]]
  /\ UNCHANGED <<scenario, fs, phase, serverPaths, deleted>>

RegisterFails(s, p) ==
  /\ ~Covering(s, p) /\ FirstScanResult(p) # "ok"
  /\ tree' = FirstScan(p)
  /\ UNCHANGED buckets
  /\ Answer(s, p, FirstScanResult(p))

RegisterNew(s, p) ==
  /\ ~Covering(s, p) /\ Inner(s, p) = <<>> /\ FirstScanResult(p) = "ok"
  /\ tree' = FirstScan(p)
  /\ \E garbage \in Garbage :
       buckets' = Append(buckets, NewBucket(s, p, tree', garbage))
  /\ Answer(s, p, "added")

RegisterWider(s, p) ==
  LET inner == Inner(s, p)
  IN  /\ ~Covering(s, p) /\ inner # <<>> /\ FirstScanResult(p) = "ok"
      /\ tree' = Unmark(FirstScan(p), Unshared(inner))
      /\ buckets' = Widen(inner, p, tree')
      /\ Answer(s, p, "updated")

\* A handler holds crLock from before this step until it has answered, so a
\* server registers one path at a time.
Register(s, p) ==
  /\ phase[s] = "up" /\ request[s] = NoRequest
  /\ Exists(p) \/ "vanish" \in World
  /\ \/ Covering(s, p) /\ Answer(s, p, "already") /\ UNCHANGED mappingVars
     \/ RegisterFails(s, p)
     \/ RegisterNew(s, p) \/ RegisterWider(s, p)

AcceptForgets(s) == \* mutant: PROG_SUCCESS leaves the list alone
  /\ phase[s] = "up"
  /\ request[s].result \in {"updated", "added", "already", "inaccessible"}
  /\ request' = [request EXCEPT ![s] = NoRequest]
  /\ UNCHANGED <<scenario, fs, mappingVars, phase, serverPaths, deleted>>

\* The handler brings serverPaths up to date, and answers the client.
Accept(s) ==
  LET p == request[s].path
      list == serverPaths[s]
      others == Keep(list, {i \in DOMAIN list : ~StringPrefix(p, list[i])})
  IN  /\ phase[s] = "up"
      /\ request[s].result \in {"updated", "added", "already", "inaccessible"}
      /\ serverPaths' =
           [serverPaths EXCEPT ![s] =
              CASE request[s].result = "added" -> Append(@, p)
                [] request[s].result = "updated" -> Append(others, p)
                [] OTHER -> @]
      /\ request' = [request EXCEPT ![s] = NoRequest]
      /\ UNCHANGED <<scenario, fs, mappingVars, phase, deleted>>

-----------------------------------------------------------------------------
(* update: the daemon compares the tree with the directories.              *)

\* A directory above d is monitored, so the scan lists the one d is in.
Scanned(d) == \E m \in DOMAIN tree : IsStrictPrefix(m, d) /\ tree[m].monitored

Vanished == {d \in DOMAIN tree : ~Exists(d)}

\* Of a branch that vanished, the notification names the first directory.
VanishedTop ==
  {d \in Vanished : \A e \in Vanished : ~IsStrictPrefix(e, d)}

Changed ==
  {d \in DOMAIN tree \ Vanished : Scanned(d) /\ tree[d].attrs # fs[d]}

Created == {d \in Dirs \ DOMAIN tree : Exists(d) /\ Scanned(d)}

NotifyKeepsMark(b) == \* mutant: a bucket whose directory vanished goes on
  [b EXCEPT !.told =
     {d \in @ \cup (Created \cap Below(b.path)) :
        \A r \in VanishedTop : ~IsPrefix(r, d)}]

NotifyMarksAbove(b) == \* mutant: is_prefix with its arguments swapped
  IF \E r \in VanishedTop \cup Changed \cup Created : IsPrefix(b.path, r)
  THEN [b EXCEPT !.mark = TRUE] ELSE b

NotifyIgnoresCreated(b) == \* mutant: nothing is pushed for a new directory
  IF \E r \in VanishedTop \cup Changed : IsPrefix(r, b.path)
  THEN [b EXCEPT !.mark = TRUE]
  ELSE [b EXCEPT !.told = {d \in @ : \A r \in VanishedTop : ~IsPrefix(r, d)}]

\* nb_push_notification for all the notifications of one scan: one about the
\* path of the bucket or a directory above marks it for deletion, of whatever
\* type it is; one about a directory below is put in its list.
Notify(b) ==
  IF b.mark THEN b
  ELSE IF \E r \in VanishedTop \cup Changed \cup Created : IsPrefix(r, b.path)
  THEN [b EXCEPT !.mark = TRUE]
  ELSE [b EXCEPT !.told =
          {d \in @ \cup (Created \cap Below(b.path)) :
             \A r \in VanishedTop : ~IsPrefix(r, d)}]

ScannedTreeKeepsBelow == \* mutant: fst_delete_child removes one node only
  [d \in (DOMAIN tree \ VanishedTop) \cup Created |->
     [attrs |-> IF d \in Changed \cup Created THEN fs[d] ELSE tree[d].attrs,
      monitored |-> d \in DOMAIN tree /\ tree[d].monitored]]

ScannedTree ==
  [d \in (DOMAIN tree \ Vanished) \cup Created |->
     [attrs |-> IF d \in Changed \cup Created THEN fs[d] ELSE tree[d].attrs,
      monitored |-> d \in DOMAIN tree /\ tree[d].monitored]]

Update ==
  /\ InUse
  /\ tree' = ScannedTree
  /\ buckets' = [i \in DOMAIN buckets |-> Notify(buckets[i])]
  /\ UNCHANGED <<scenario, fs, serverVars>>

-----------------------------------------------------------------------------
(* The monitor of a server: read its buckets, then prune its list of paths. *)

\* nb_read_notifications takes the marked buckets of s out of the list.
StaysAfterRead(s) == {i \in DOMAIN buckets : ~(i \in Own(s) /\ buckets[i].mark)}

\* Bound: a round begins when the one before has pruned the list.
ReadNotifications(s) ==
  /\ phase[s] = "up" /\ deleted[s] = {}
  /\ deleted' = [deleted EXCEPT ![s] =
                   {buckets[i].path : i \in {j \in Own(s) : buckets[j].mark
                                                  /\ ~buckets[j].updated}}]
  /\ UNCHANGED <<scenario, fs, tree, phase, serverPaths, request>>
  /\ buckets' = Keep(buckets, StaysAfterRead(s))

\* More paths were deleted than the list has: no memory has a negative length.
NoRoom(s) == Len(serverPaths[s]) < Cardinality(deleted[s])

\* The paths found in deletedPaths are those the new list keeps.  It is made for
\* the number of the others: when the two differ the program writes past its
\* end, or goes on with pointers it never set; with NoRoom it ends (see Leave).
\* The monitor waits for crLock.
Prune(s) ==
  LET list == serverPaths[s]
      kept == Keep(list, {i \in DOMAIN list : list[i] \in deleted[s]})
      room == Len(list) - Cardinality(deleted[s])
  IN  /\ phase[s] = "up" /\ deleted[s] # {} /\ request[s] = NoRequest /\ ~NoRoom(s)
      /\ deleted' = [deleted EXCEPT ![s] = {}]
      /\ \/ /\ room = 0
            /\ serverPaths' = [serverPaths EXCEPT ![s] = <<>>]
            /\ UNCHANGED phase
         \/ /\ room # 0 /\ room = Len(kept)
            /\ serverPaths' = [serverPaths EXCEPT ![s] = kept]
            /\ UNCHANGED phase
         \/ /\ room # 0 /\ room # Len(kept)
            /\ phase' = [phase EXCEPT ![s] = "broken"]
            /\ UNCHANGED serverPaths
      /\ UNCHANGED <<scenario, fs, mappingVars, request>>

-----------------------------------------------------------------------------
(* A server joins the mapping, and leaves it.                              *)

EmptyTree == [d \in {} |-> [attrs |-> 1, monitored |-> FALSE]]

\* initialize_mapping_structure with the first path of the server.  The first
\* server makes the structure, and its bucket is initialised in full.
Join(s) ==
  /\ phase[s] = "new"
  /\ \E p \in Asked[s] :
       /\ Exists(p) \/ "vanish" \in World
       /\ FirstScanResult(p) = "ok"
       /\ tree' = FirstScan(p)
       /\ \E garbage \in (IF InUse THEN Garbage ELSE {FALSE}) :
            buckets' = Append(buckets, NewBucket(s, p, tree', garbage))
       /\ serverPaths' = [serverPaths EXCEPT ![s] = <<p>>]
  /\ phase' = [phase EXCEPT ![s] = "up"]
  /\ UNCHANGED <<scenario, fs, request, deleted>>

\* The path is gone before it is scanned: the process ends, and leaves the nodes on
\* the way in the mapping of the others.  (A first server deletes the mapping.)
JoinFails(s) ==
  /\ phase[s] = "new" /\ InUse /\ "vanish" \in World
  /\ \E p \in Asked[s] : FirstScanResult(p) # "ok" /\ tree' = FirstScan(p)
  /\ phase' = [phase EXCEPT ![s] = "gone"]
  /\ UNCHANGED <<scenario, fs, buckets, serverPaths, request, deleted>>

\* nb_remove_bucket finds a bucket for the i-th path to remove.
Removable(s, i) ==
  LET paths == serverPaths[s]
  IN  /\ \E j \in Own(s) : buckets[j].path = paths[i]
      /\ \A j \in 1..(i - 1) : paths[j] # paths[i]

\* The paths whose buckets are removed: those before the first without one.
Removed(s) ==
  {serverPaths[s][i] : i \in
    {j \in DOMAIN serverPaths[s] : \A k \in 1..j : Removable(s, k)}}

BucketsLeftOne(s) == \* mutant: stops after the first path
  Keep(buckets, {i \in DOMAIN buckets :
                   ~(i \in Own(s) /\ buckets[i].path = serverPaths[s][1])})

BucketsLeft(s) ==
  Keep(buckets, {i \in DOMAIN buckets :
                   ~(i \in Own(s) /\ buckets[i].path \in Removed(s))})

CleanKeepsLeaves(t) == \* mutant: removes no node that has no children
  [d \in {e \in DOMAIN t :
          \/ \A m \in DOMAIN t : ~IsStrictPrefix(e, m)
          \/ \E m \in DOMAIN t :
               t[m].monitored /\ (IsPrefix(m, e) \/ IsPrefix(e, m))} |-> t[d]]

\* __dfs_clean_subtree: what is left leads to a monitored node or is below one.
Clean(t) ==
  LET needed == {d \in DOMAIN t : \E m \in DOMAIN t :
                    t[m].monitored /\ (IsPrefix(m, d) \/ IsPrefix(d, m))}
  IN  [d \in needed |-> t[d]]

UnmarkShared(s, left) == \* mutant: does not look for other buckets
  Unmark(tree, Removed(s))

\* The paths of s that no other bucket has lose their mark.
UnmarkOwn(s, left) ==
  Unmark(tree, {p \in Removed(s) : \A i \in DOMAIN left : left[i].path # p})

\* unregister_server returns at the first path that has no bucket.
Unregister(s) ==
  /\ buckets' = BucketsLeft(s)
  /\ tree' = IF Removed(s) = Range(serverPaths[s])
                  /\ IsInjective(serverPaths[s])
             THEN Clean(UnmarkOwn(s, buckets')) ELSE tree

\* cs2_terminate_server.  It runs between two rounds or requests, in the middle
\* of them when SIGINT comes, after an error of the handler, or when the monitor
\* has no room for its list; the last server deletes the mapping.
Leave(s) ==
  /\ phase[s] = "up"
  /\ \/ "interrupt" \in World
     \/ request[s] = NoRequest /\ (deleted[s] = {} \/ NoRoom(s))
     \/ request[s].result = "error"
  /\ phase' = [phase EXCEPT ![s] = "gone"]
  /\ IF \E r \in Server \ {s} : phase[r] \in {"up", "broken"}
     THEN Unregister(s)
     ELSE tree' = EmptyTree /\ buckets' = <<>>
  /\ serverPaths' = [serverPaths EXCEPT ![s] = <<>>]
  /\ request' = [request EXCEPT ![s] = NoRequest]
  /\ deleted' = [deleted EXCEPT ![s] = {}]
  /\ UNCHANGED <<scenario, fs>>

-----------------------------------------------------------------------------
(* Other programs change the directories.                                  *)

Create(d) ==
  /\ "create" \in World /\ d \in scenario.dirs
  /\ ~Exists(d) /\ (Len(d) > 1 => Exists(Front(d)))
  /\ fs' = [fs EXCEPT ![d] = 1]

Delete(d) ==
  /\ "delete" \in World /\ Exists(d)
  /\ fs' = [e \in Dirs |-> IF IsPrefix(d, e) THEN Gone ELSE fs[e]]

SetAttrs(d) ==
  /\ "attrs" \in World /\ Exists(d)
  /\ \E a \in Attrs \ {fs[d]} : fs' = [fs EXCEPT ![d] = a]

ChangeDirs ==
  /\ \E d \in Dirs : Create(d) \/ Delete(d) \/ SetAttrs(d)
  /\ UNCHANGED <<scenario, mappingVars, serverVars>>

\* No server runs, and none may be started again.
Finished ==
  /\ \A s \in Server : phase[s] # "up"
  /\ UNCHANGED vars

Next ==
  \/ \E s \in Server :
       \/ Join(s) \/ JoinFails(s) \/ Leave(s)
       \/ \E p \in Asked[s] : Register(s, p)
       \/ Accept(s) \/ ReadNotifications(s) \/ Prune(s)
  \/ Update
  \/ ChangeDirs
  \/ Finished

Spec == Init /\ [][Next]_vars

-----------------------------------------------------------------------------
(* Properties.                                                             *)

\* One server only is ever asked to monitor something.
Alone == \E s \in Server : \A r \in Server : r = s <=> Asked[r] # {}

\* Type invariant of the mapping and of what the servers keep.
TypeOK ==
  /\ scenario \in Scenarios
  /\ fs \in [Dirs -> {Gone} \cup Attrs]
  /\ DOMAIN tree \subseteq Dirs
  /\ \A d \in DOMAIN tree : tree[d] \in [attrs : Attrs, monitored : BOOLEAN]
  /\ \A i \in DOMAIN buckets :
       buckets[i] \in [server : Server, path : Dirs, mark : BOOLEAN,
                       updated : BOOLEAN, told : SUBSET Dirs]
  /\ phase \in [Server -> {"new", "up", "gone", "broken"}]
  /\ \A s \in Server : Range(serverPaths[s]) \subseteq Dirs
  /\ request \in [Server -> [path : Dirs \cup {<<>>}, result : Result]]
  /\ deleted \in [Server -> SUBSET Dirs]

\* A node's parent is in the tree too, so every node can be reached from the
\* root and every path with a node is found by its names.
TreeIsConnected ==
  \A d \in DOMAIN tree : Len(d) > 1 => Front(d) \in DOMAIN tree

\* As long as a bucket is not marked, its directory has a monitored node: the
\* daemon goes on scanning it whatever other servers do ("remove the
\* isMonitored mark from the tree's nodes if they are not monitored by other
\* servers", mapping_structure.c:120).
BucketIsScanned ==
  \A i \in DOMAIN buckets :
    ~buckets[i].mark => /\ buckets[i].path \in DOMAIN tree
                        /\ tree[buckets[i].path].monitored

\* A node is marked only while some server has a bucket for it, and the tree has
\* no other nodes than those marked, those that lead to them, and those below:
\* what a server alone monitored is gone from the mapping when it has left.
\* A deleted branch leaves the way to it in the tree until a server leaves.
NoLeftovers ==
  World \cap {"delete", "vanish"} = {} =>
  /\ \A d \in DOMAIN tree : tree[d].monitored =>
       \E i \in DOMAIN buckets : buckets[i].path = d
  /\ \A d \in DOMAIN tree : \E m \in DOMAIN tree :
       tree[m].monitored /\ (IsPrefix(m, d) \/ IsPrefix(d, m))

\* Marks and nodes follow the buckets, in both directions.
MarksFollowBuckets == BucketIsScanned /\ NoLeftovers

\* The buckets of one server never overlap, so that nothing is notified twice.
OwnBucketsDisjoint ==
  \A i, j \in DOMAIN buckets :
    /\ i # j /\ buckets[i].server = buckets[j].server
    /\ ~buckets[i].mark /\ ~buckets[j].mark
    => ~IsPrefix(buckets[i].path, buckets[j].path)

\* unregister_server removes "the data of the calling server from the mapping.
\* That is, all its bucket[s]" (mapping_structure.h:75): a bucket in the list
\* belongs to a server that is still there.  What does stay is a bucket that the
\* server, gone on to monitor from further up, has left marked for its next read:
\* its path is not in the list any more.
BucketsAreOfServers ==
  \A i \in DOMAIN buckets :
    \/ phase[buckets[i].server] \in {"up", "broken"}
    \/ buckets[i].mark /\ buckets[i].updated

\* So it is unless SIGINT came before a handler put the path it registered in the
\* server's list (tcp_server.c:271), or a deletion was pruned from that list the
\* wrong way round (server_monitor.c:129).
NothingLeftBehind ==
  World \cap {"interrupt", "delete"} = {} => BucketsAreOfServers

\* Between two requests and two rounds, the list a server will unregister is
\* that of its buckets, as long as nothing is deleted: the monitor keeps the
\* deleted paths instead of the others (server_monitor.c:129).
PathsMatchBuckets ==
  World \cap {"delete", "vanish"} = {} =>
  \A s \in Server :
    phase[s] = "up" /\ request[s] = NoRequest /\ deleted[s] = {} =>
      /\ IsInjective(serverPaths[s])
      /\ Range(serverPaths[s]) =
           {buckets[i].path : i \in {j \in Own(s) :
                                       ~(buckets[j].mark /\ buckets[j].updated)}}

\* When the monitor rebuilds the list of paths it keeps the path that "has not been
\* deleted, so we copy it into the new array" (server_monitor.c:135), and no other.
PruningKeepsTheRest ==
  [][\A s \in Server :
       phase'[s] = "up" /\ deleted[s] # {} /\ deleted'[s] = {} =>
         Range(serverPaths'[s]) = Range(serverPaths[s]) \ deleted[s]]_vars

\* Buckets and the lists of paths follow each other, while servers run and after.
BucketsFollowPaths == PathsMatchBuckets /\ NothingLeftBehind

\* update "match[es] the OS filesystem and send[s] notifications of changes to
\* the listening servers" (mapping_structure.h:50): when it finds nothing new,
\* what a listener was told of the directories below its path is how they are.
ListenersKnow ==
  Vanished \cup Changed \cup Created = {} =>
    \A i \in DOMAIN buckets :
      ~buckets[i].mark =>
        buckets[i].told = {d \in Below(buckets[i].path) : Exists(d)}

\* So it is for one server: what the registration of another finds first is put in
\* the tree without a notification.
UpdateTellsAll == Alone => ListenersKnow

\* The paths nb_read_notifications hands out are "deleted paths monitored by the
\* server" (notifications_bucket.h:105): update marks a bucket only when its
\* directory is gone, as long as no attributes change, for which it marks one too.
MarkedIsGone ==
  [][World \cap {"attrs"} = {} /\ UNCHANGED serverVars /\ Len(buckets') = Len(buckets) =>
       \A i \in DOMAIN buckets :
         buckets'[i].mark /\ ~buckets[i].mark => ~Exists(buckets[i].path)]_vars

\* nb_read_notifications hands out "a list of deleted paths"
\* (notifications_bucket.h:105): of the buckets it drops, it leaves out only
\* those of a path the server now monitors from further up.
DeletedIsReported ==
  [][\A s \in Server : ReadNotifications(s) =>
       \A i \in Own(s) :
         /\ buckets[i].mark
         /\ \A j \in Own(s) : ~IsStrictPrefix(buckets[j].path, buckets[i].path)
         => buckets[i].path \in deleted'[s]]_vars

\* Every deleted path is handed out, and no other.
DeletionsAreTold == MarkedIsGone /\ DeletedIsReported

\* When register_server_path answers that the path is monitored, already or from
\* now on, a bucket that will be read for it is in the list
\* (notifications_bucket.h:115, "tells if the server already monitors the path"),
\* as long as nothing is deleted: a bucket that waits to be dropped because its
\* directory was deleted counts as one (notifications_bucket.c:356).
AcceptedIsMonitored ==
  [][\A s \in Server :
       "delete" \notin World /\ request[s] = NoRequest
         /\ request'[s].result \in {"added", "updated", "already"} =>
       \E i \in DOMAIN buckets' :
         /\ buckets'[i].server = s /\ ~buckets'[i].mark
         /\ IsPrefix(buckets'[i].path, request'[s].path)]_vars
=============================================================================
