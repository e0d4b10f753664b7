--------------------------- MODULE FilesystemTree ---------------------------
(***************************************************************************)
(* The filesystem tree in shared memory, node by node (filesystree.c), and *)
(* the scans that build it and compare it with the directories             *)
(* (mapping_structure.c), while other programs change files and            *)
(* directories between any two directories the daemon lists.               *)
(*                                                                         *)
(* MonitoredPaths takes a whole scan for one step and knows directories    *)
(* only.  Here one server monitors one path at a time, and the scan is the *)
(* recursion of __scan, one directory a step: todo is its stack.           *)
(*                                                                         *)
(* A path is the sequence of names from "/".  The root of the tree and its *)
(* only child "/" are one node.  What a file holds is one of Contents, of  *)
(* which two have the same size: size and time of last change follow from  *)
(* it.  Size and time of directories are left out.  A node's children are  *)
(* kept in the order of its list; readdir names entries in a fixed order.  *)
(***************************************************************************)
EXTENDS PathNames

CONSTANTS
  Paths,       \* the files and directories there may be
  Watched,     \* the directories the server may be asked to monitor
  Order,       \* the names in the order readdir gives them
  MaxNodes,    \* the nodes the shared memory has room for
  MaxChanges   \* bound: changes made to files and directories

ASSUME PathsAreClosed ==
  \A p \in Paths : p # <<>> /\ (Len(p) > 1 => Front(p) \in Paths)
ASSUME WatchedPaths == Watched \subseteq Paths
ASSUME OrderHasNames ==
  /\ Order \in Seq(Range(Order)) /\ IsInjective(Order)
  /\ Paths \subseteq Seq(Range(Order))
ASSUME BoundsAreNat == MaxNodes \in Nat \ {0} /\ MaxChanges \in Nat

Id == 1..MaxNodes
Root == 1

Contents == {"short", "other", "long"}
Size(c) == IF c = "long" THEN 2 ELSE 1

\* What stat says of a name: a directory that can or cannot be read, a file.
NoEntry == [dir |-> FALSE, perms |-> "none", data |-> "none"]
Entry == [dir : {TRUE}, perms : {"open", "shut"}, data : {"none"}]
           \cup [dir : {FALSE}, perms : {"open", "shut"}, data : Contents]

VARIABLES
  disk,      \* the entry of every path, or NoEntry
  changes,   \* how often other programs changed it
  nodes,     \* the blocks of the shared memory: nodes, or Free
  bucket,    \* the path the server monitors, <<>> if none; its deletion mark
  view,      \* the entries below the path that its notifications tell of
  todo,      \* the calls of __scan still to be made, the next one first
  quiet,     \* nothing was changed since the scan began (history)
  failed     \* a call returned PROG_ERROR, which ends the server

vars == <<disk, changes, nodes, bucket, view, todo, quiet, failed>>

Free == [name |-> "free"]
NoBucket == [path |-> <<>>, mark |-> FALSE]

-----------------------------------------------------------------------------
(* The directories.                                                        *)

EntryAt(p) ==
  IF p = <<>> THEN [dir |-> TRUE, perms |-> "open", data |-> "none"]
  ELSE disk[p]

\* Every directory above p lets the server through.
WayOpen(p) == \A n \in 1..(Len(p) - 1) : disk[SubSeq(p, 1, n)].perms = "open"

\* is_directory: stat finds a directory.
IsDirectory(p) == EntryAt(p).dir /\ WayOpen(p)

\* opendir succeeds, in get_directory_content and in is_dir_accessible.
Readable(p) == IsDirectory(p) /\ EntryAt(p).perms = "open"

ListingUnchecked(p) == \* mutant: the answer of stat is not looked at
  Keep(Order, {k \in DOMAIN Order : Append(p, Order[k]) \in Paths})

\* get_directory_content: the names of the entries of directory p, in order.
\* What is gone when it is looked at is left out.
Listing(p) ==
  Keep(Order, {k \in DOMAIN Order : LET q == Append(p, Order[k])
                                   IN  q \in Paths /\ disk[q] # NoEntry})

-----------------------------------------------------------------------------
(* filesystree.c, as functions of the memory ns.                           *)

Allocated(ns) == {i \in Id : ns[i] # Free}

\* The first n free blocks.
FreeIds(ns, n) ==
  [k \in 1..n |-> Ascending(Id \ Allocated(ns))[k]]

HasRoom(ns, n) == Cardinality(Id \ Allocated(ns)) >= n

NewNode(name, e) ==
  [name |-> name, entry |-> e, monitored |-> FALSE, children |-> <<>>]

\* fst_contains_child: the first child of that name, of whatever kind; 0 if none.
ChildNamed(ns, f, name) ==
  LET list == ns[f].children
      named == {k \in DOMAIN list : ns[list[k]].name = name}
  IN  IF named = {} THEN 0
      ELSE list[CHOOSE k \in named : \A j \in named : k <= j]

\* fst_add_child, fst_add_children: nodes for the entries of father's directory
\* that have these names, behind the children it has.
AddChildren(ns, f, path, names) ==
  LET free == Id \ Allocated(ns)
      new == FreeIds(ns, Len(names))
      At(i) == Cardinality({j \in free : j <= i})
  IN  [i \in Id |->
         IF i \in Range(new)
         THEN NewNode(names[At(i)], EntryAt(Append(path, names[At(i)])))
         ELSE IF i = f THEN [ns[f] EXCEPT !.children = @ \o new]
         ELSE ns[i]]

FreedAlone(ns, i) == {i} \* mutant: the nodes below are not freed

Children(ns, i) == IF ns[i] = Free THEN {} ELSE Range(ns[i].children)

\* The least set that holds i, and with a node those that `below` gives for it:
\* what a recursion from i comes to.
Spread(i, below) ==
  LET closed == {S \in SUBSET Id : i \in S /\ \A k \in S : below[k] \subseteq S}
  IN  {j \in Id : \A S \in closed : j \in S}

\* The nodes that can be reached from node i.
Reach(ns, i) == Spread(i, [k \in Id |-> Children(ns, k)])

\* __support_delete_child: the node and, below it, the nodes of directories; the
\* nodes of the files in them are not freed.
Freed(ns, i) ==
  Spread(i, [k \in Id |-> {c \in Children(ns, k) : ns[c].entry.dir}])

\* fst_delete_child, for each child of f in gone.
DeleteChildren(ns, f, gone) ==
  LET freed == UNION {Freed(ns, i) : i \in gone}
  IN  [i \in Id |->
         IF i \in freed THEN Free
         ELSE IF i = f THEN [ns[f] EXCEPT !.children = Without(@, gone)]
         ELSE ns[i]]

\* The node of a path, found name by name; 0 if there is none.
NodeAt(ns, p) ==
  LET at[n \in 0..Len(p)] ==
        IF n = 0 THEN Root
        ELSE IF at[n - 1] = 0 THEN 0 ELSE ChildNamed(ns, at[n - 1], p[n])
  IN  at[Len(p)]

-----------------------------------------------------------------------------
(* What the notifications of a scan tell the server.                       *)

Known(p, e) == [path |-> p, entry |-> e]

\* nb_push_notification for the bucket, of notes about entries of one directory:
\* at or above its path one marks it, below its path it tells of the entry; a
\* marked bucket takes no more.
Hears(p) == bucket.path # <<>> /\ ~bucket.mark /\ IsStrictPrefix(bucket.path, p)

Marks(p) == bucket.path # <<>> /\ IsPrefix(p, bucket.path)

\* Notes: the entries created, those deleted, and those changed with what is told
\* of them.  With a directory goes what is below it.
Tell(created, deleted, changed) ==
  LET Out(k) == \/ k \in deleted
                \/ \E c \in deleted : c.entry.dir /\ IsStrictPrefix(c.path, k.path)
                \/ \E c \in changed : k = Known(c.path, c.old)
  IN  /\ view' = {k \in view : ~(Hears(k.path) /\ Out(k))}
                   \cup {k \in created : Hears(k.path)}
                   \cup {Known(c.path, c.new) : c \in {d \in changed : Hears(d.path)}}
      /\ bucket' = [bucket EXCEPT !.mark =
           @ \/ \E k \in created \cup deleted \cup changed : Marks(k.path)]

TellsOfSize(old, e) == \* mutant: no note cambiocon
  [old EXCEPT !.perms = e.perms,
              !.data = IF Size(e.data) # Size(old.data) THEN e.data ELSE @]

\* An entry as the listener knows it from the notes: perms for new permissions,
\* dimension for a new size or else, for a file, cambiocon for a new time.
AsTold(old, e) ==
  [old EXCEPT !.perms = e.perms,
              !.data = IF Size(e.data) # Size(old.data) \/ ~e.dir THEN e.data ELSE @]

-----------------------------------------------------------------------------
(* __scan: the daemon compares the tree with the directories.              *)

Call(i, f, p, monitored, check) ==
  [node |-> i, father |-> f, path |-> p, monitored |-> monitored,
   check |-> check]

StartScan ==
  /\ ~failed /\ todo = <<>>
  /\ todo' = <<Call(Root, Root, <<>>, FALSE, FALSE)>>
  /\ quiet' = TRUE
  /\ UNCHANGED <<disk, changes, nodes, bucket, view, failed>>

\* Before a call for a child of a directory that is not monitored: a child that is
\* no directory any more is told deleted, and its branch leaves the tree.
CheckDirectory ==
  /\ ~failed /\ todo # <<>> /\ Head(todo).check
  /\ LET c == Head(todo)
     IN  IF IsDirectory(c.path)
         THEN /\ todo' = <<[c EXCEPT !.check = FALSE]>> \o Tail(todo)
              /\ UNCHANGED <<nodes, bucket, view>>
         ELSE /\ todo' = Tail(todo)
              /\ nodes' = DeleteChildren(nodes, c.father, {c.node})
              /\ Tell({}, {Known(c.path, nodes[c.node].entry)}, {})
  /\ UNCHANGED <<disk, changes, quiet, failed>>

\* The children that are directories, in order.
ChildDirectories(ns, i) ==
  LET list == ns[i].children
  IN  Keep(list, {k \in DOMAIN list : ns[list[k]].entry.dir})

CallsBelowForget(ns, c, monitored) == \* mutant: `monitored` is not handed down
  LET dirs == ChildDirectories(ns, c.node)
  IN  [n \in 1..Len(dirs) |->
         Call(dirs[n], c.node, Append(c.path, ns[dirs[n]].name), FALSE,
              ~monitored)] \o Tail(todo)

\* The calls for the children that are directories, before those that wait.
CallsBelow(ns, c, monitored) ==
  LET dirs == ChildDirectories(ns, c.node)
  IN  [n \in 1..Len(dirs) |->
         Call(dirs[n], c.node, Append(c.path, ns[dirs[n]].name), monitored,
              ~monitored)] \o Tail(todo)

\* A directory on the way to a monitored one is not compared, nor is one that
\* cannot be read; what is below the latter is not looked at.
PassThrough ==
  /\ ~failed /\ todo # <<>> /\ ~Head(todo).check
  /\ LET c == Head(todo)
         monitored == c.monitored \/ nodes[c.node].monitored
     IN  /\ ~(monitored /\ Readable(c.path))
         /\ todo' = IF monitored THEN Tail(todo)
                    ELSE CallsBelow(nodes, c, FALSE)
  /\ UNCHANGED <<disk, changes, nodes, bucket, view, quiet, failed>>

MatchesByName(i, p) == \* mutant: isDir is not compared
  disk[p] # NoEntry

\* A node has an entry of its name and kind.
Matches(i, p) == disk[p] # NoEntry /\ disk[p].dir = nodes[i].entry.dir

\* The directory is compared: its nodes take over what is new in their entries,
\* entries without a node get one, nodes without an entry are deleted.
Compare ==
  /\ ~failed /\ todo # <<>> /\ ~Head(todo).check
  /\ LET c == Head(todo)
         PathOf(i) == Append(c.path, nodes[i].name)
         children == Range(nodes[c.node].children)
         found == {i \in children : Matches(i, PathOf(i))}
         differ == {i \in found : nodes[i].entry # disk[PathOf(i)]}
         renewed == [i \in Id |-> IF i \in differ
                      THEN [nodes[i] EXCEPT !.entry = disk[PathOf(i)]]
                      ELSE nodes[i]]
     IN  /\ c.monitored \/ nodes[c.node].monitored
         /\ Readable(c.path)
         /\ \E new \in {Without(Listing(c.path), {nodes[i].name : i \in found})} :
            IF HasRoom(nodes, Len(new))
            THEN \E added \in {AddChildren(renewed, c.node, c.path, new)} :
                 \E ns \in {DeleteChildren(added, c.node, children \ found)} :
                 /\ nodes' = ns
                 /\ todo' = CallsBelow(ns, c, TRUE)
                 /\ Tell({Known(Append(c.path, n), disk[Append(c.path, n)]) :
                             n \in Range(new)},
                         {Known(PathOf(i), nodes[i].entry) :
                             i \in children \ found},
                         {[path |-> PathOf(i), old |-> nodes[i].entry,
                           new |-> AsTold(nodes[i].entry, disk[PathOf(i)])] :
                             i \in differ})
                 /\ UNCHANGED failed
            ELSE failed' = TRUE /\ UNCHANGED <<nodes, todo, bucket, view>>
  /\ UNCHANGED <<disk, changes, quiet>>

-----------------------------------------------------------------------------
(* Registrations.  They hold the mapping lock, as a scan does.             *)

SupportScanAll(acc) == \* mutant: enters what is monitored, and adds again
  LET d == Head(acc.todo)
      ns == AddChildren(acc.ns, NodeAt(acc.ns, d), d, Listing(d))
  IN  IF acc.todo = <<>> THEN acc
      ELSE IF ~Readable(d) THEN [acc EXCEPT !.todo = Tail(@)]
      ELSE IF ~HasRoom(acc.ns, Len(Listing(d)))
      THEN [acc EXCEPT !.ok = FALSE, !.todo = <<>>]
      ELSE [acc EXCEPT !.ns = ns,
              !.todo = [k \in DOMAIN Listing(d) |-> Append(d, Listing(d)[k])] \o Tail(@)]

\* __support_first_scan of the next directory: nodes for the names that have none,
\* then the directories among its children that are not monitored.  acc holds the
\* memory, the directories to enter, and whether the memory sufficed.
SupportScan(acc) ==
  LET d == Head(acc.todo)
      f == NodeAt(acc.ns, d)
      names == Without(Listing(d), {n \in Range(Order) : ChildNamed(acc.ns, f, n) # 0})
      ns == AddChildren(acc.ns, f, d, names)
      enter == Without(ChildDirectories(ns, f), {i \in Allocated(ns) : ns[i].monitored})
  IN  IF acc.todo = <<>> THEN acc
      ELSE IF ~Readable(d) THEN [acc EXCEPT !.todo = Tail(@)]
      ELSE IF ~HasRoom(acc.ns, Len(names))
      THEN [acc EXCEPT !.ok = FALSE, !.todo = <<>>]
      ELSE [acc EXCEPT !.ns = ns,
              !.todo = [k \in DOMAIN enter |-> Append(d, ns[enter[k]].name)] \o Tail(@)]

\* A node for path d, whose parent has one.
AddNode(acc, d) ==
  IF ~acc.ok \/ NodeAt(acc.ns, d) # 0 THEN acc
  ELSE IF ~HasRoom(acc.ns, 1) THEN [acc EXCEPT !.ok = FALSE]
  ELSE [acc EXCEPT !.ns = AddChildren(@, NodeAt(@, Front(d)), Front(d), <<Last(d)>>)]

\* __first_scan: the nodes on the way to p, then the mark, and what is below
\* unless a directory on the way, or p, was monitored before.
FirstScan(p) ==
  LET way[n \in 0..Len(p)] ==
        IF n = 0 THEN [ns |-> nodes, todo |-> <<p>>, ok |-> TRUE]
        ELSE AddNode(way[n - 1], SubSeq(p, 1, n))
      built == way[Len(p)]
      monitored == \E n \in 1..Len(p) :
                     built.ns[NodeAt(built.ns, SubSeq(p, 1, n))].monitored
      marked == [built EXCEPT !.ns =
                  [@ EXCEPT ![NodeAt(built.ns, p)].monitored = TRUE]]
      scan[k \in 0..MaxNodes] ==
        IF k = 0 THEN marked ELSE SupportScan(scan[k - 1])
  IN  IF ~built.ok THEN built
      ELSE IF monitored THEN marked ELSE scan[MaxNodes]

\* The entries the tree has below p.
TreeBelow(ns, p) ==
  {Known(q, ns[NodeAt(ns, q)].entry) :
     q \in {r \in Paths : IsStrictPrefix(p, r) /\ NodeAt(ns, r) # 0}}

UnmarkFirst(ns, p) == \* mutant: stops at the first name of the path
  LET i == NodeAt(ns, SubSeq(p, 1, 1))
  IN  IF i = 0 THEN ns ELSE [ns EXCEPT ![i].monitored = FALSE]

\* __unmark_server_subtree.
Unmark(ns, p) ==
  LET i == NodeAt(ns, p)
  IN  IF i = 0 THEN ns ELSE [ns EXCEPT ![i].monitored = FALSE]

\* __dfs_clean_subtree: only what leads to a monitored node, or is below one, stays.
Clean(ns) ==
  LET tree == Reach(ns, Root)
      below == [i \in tree |-> Reach(ns, i)]
      kept == {i \in tree : \E m \in tree :
                 ns[m].monitored /\ (m \in below[i] \/ i \in below[m])}
      gone == tree \ (kept \cup {Root})
  IN  [i \in Id |-> IF i \in gone THEN Free
                    ELSE IF i \in tree
                    THEN [ns[i] EXCEPT !.children = Without(@, gone)]
                    ELSE ns[i]]

\* register_server_path for a directory the handler has found to be readable (that
\* it may vanish until now is in MonitoredPaths): a new bucket, or the bucket of a
\* path below takes the new one.
Register(p) ==
  LET scan == FirstScan(p)
  IN  /\ ~failed /\ todo = <<>> /\ ~bucket.mark /\ Readable(p)
      /\ ~(bucket.path # <<>> /\ IsPrefix(bucket.path, p))
      /\ bucket.path = <<>> \/ IsPrefix(p, bucket.path)
      /\ IF scan.ok
         THEN /\ nodes' = IF bucket.path = <<>> THEN scan.ns
                          ELSE Unmark(scan.ns, bucket.path)
              /\ bucket' = [path |-> p, mark |-> FALSE]
              /\ view' = TreeBelow(scan.ns, p)
              /\ UNCHANGED failed
         ELSE failed' = TRUE /\ UNCHANGED <<nodes, bucket, view>>
      /\ quiet' = FALSE
      /\ UNCHANGED <<disk, changes, todo>>

\* The monitor reads a marked bucket, which takes it out of the list.
ReadMarked ==
  /\ ~failed /\ todo = <<>> /\ bucket.mark
  /\ bucket' = NoBucket /\ view' = {}
  /\ UNCHANGED <<disk, changes, nodes, todo, quiet, failed>>

\* unregister_server, while another server keeps the mapping.
Leave ==
  /\ ~failed /\ todo = <<>> /\ bucket.path # <<>>
  /\ bucket' = NoBucket /\ view' = {}
  /\ nodes' = Clean(Unmark(nodes, bucket.path))
  /\ UNCHANGED <<disk, changes, todo, quiet, failed>>

-----------------------------------------------------------------------------
(* Other programs make, remove and change files and directories.           *)

Make(p) ==
  /\ disk[p] = NoEntry /\ EntryAt(Front(p)).dir
  /\ \E e \in {[dir |-> TRUE, perms |-> "open", data |-> "none"],
              [dir |-> FALSE, perms |-> "open", data |-> "short"]} :
       disk' = [disk EXCEPT ![p] = e]

Erase(p) ==
  /\ disk[p] # NoEntry
  /\ disk' = [q \in Paths |-> IF IsPrefix(p, q) THEN NoEntry ELSE disk[q]]

Alter(p) ==
  /\ disk[p] # NoEntry
  /\ \E e \in Entry :
       /\ e.dir = disk[p].dir /\ e # disk[p]
       /\ e.perms = disk[p].perms \/ e.data = disk[p].data
       /\ disk' = [disk EXCEPT ![p] = e]

ChangeDisk ==
  /\ changes < MaxChanges /\ changes' = changes + 1
  /\ \E p \in Paths : Make(p) \/ Erase(p) \/ Alter(p)
  /\ quiet' = FALSE
  /\ UNCHANGED <<nodes, bucket, view, todo, failed>>

-----------------------------------------------------------------------------
Init ==
  /\ \E depth \in {1, 3} :
       disk = [p \in Paths |->
         IF Len(p) > depth THEN NoEntry
         ELSE IF \E q \in Paths : IsStrictPrefix(p, q)
         THEN [dir |-> TRUE, perms |-> "open", data |-> "none"]
         ELSE [dir |-> FALSE, perms |-> "open", data |-> "short"]]
  /\ changes = 0
  /\ nodes = [i \in Id |-> IF i = Root THEN NewNode("/", [dir |-> TRUE, perms |-> "open", data |-> "none"]) ELSE Free]
  /\ bucket = NoBucket
  /\ view = {}
  /\ todo = <<>>
  /\ quiet = FALSE
  /\ failed = FALSE

Scan == StartScan \/ CheckDirectory \/ PassThrough \/ Compare

Terminated == failed /\ UNCHANGED vars

Next ==
  \/ Scan
  \/ \E p \in Watched : Register(p)
  \/ ReadMarked \/ Leave
  \/ ChangeDisk
  \/ Terminated

Spec == Init /\ [][Next]_vars
FairSpec == Spec /\ WF_vars(Scan) /\ WF_vars(ReadMarked)

-----------------------------------------------------------------------------
(* Properties.                                                             *)

Node == [name : Range(Order) \cup {"/"}, entry : Entry, monitored : BOOLEAN,
         children : Seq(Id)]

\* Type invariant of the disk, the memory and the daemon's stack.
TypeOK ==
  /\ disk \in [Paths -> Entry \cup {NoEntry}]
  /\ changes \in 0..MaxChanges
  /\ \A i \in Id : nodes[i] = Free \/ nodes[i] \in Node
  /\ bucket \in [path : Watched \cup {<<>>}, mark : BOOLEAN]
  /\ view \subseteq [path : Paths, entry : Entry]
  /\ \A n \in DOMAIN todo :
       todo[n] \in [node : Id, father : Id, path : Paths \cup {<<>>},
                   monitored : BOOLEAN, check : BOOLEAN]
  /\ {quiet, failed} \subseteq BOOLEAN

Listening == bucket.path # <<>> /\ ~bucket.mark

\* The blocks form a tree: a node in use lies in one list of children, once, no
\* list leads to a freed block, no directory has two nodes of one name, and every
\* call __scan has still to make is for a node that is in use and at its path,
\* whatever the calls before it deleted.
TreeIsSound ==
  /\ \A i \in Allocated(nodes) :
       /\ Range(nodes[i].children) \subseteq Allocated(nodes)
       /\ IsInjective(nodes[i].children)
       /\ \A j \in Allocated(nodes) \ {i} :
            Range(nodes[i].children) \cap Range(nodes[j].children) = {}
       /\ \A c, d \in Range(nodes[i].children) :
            c # d => nodes[c].name # nodes[d].name
  /\ \A n \in DOMAIN todo : NodeAt(nodes, todo[n].path) = todo[n].node

\* The memory lost by fst_delete_child and __dfs_clean_subtree is that of plain
\* files (filesystree.c:88): every directory in use can be reached and will be
\* freed with its branch.
OnlyFilesLeak ==
  {i \in Allocated(nodes) : nodes[i].entry.dir} \subseteq Reach(nodes, Root)

\* The memory is that of the tree and of lost files.
MemoryIsSound == TreeIsSound /\ OnlyFilesLeak

\* At every moment, also in the middle of a scan, the listener has been told what
\* the tree holds below its path, no more and no less: each change of a node below
\* a bucket's path is pushed to it, and nothing else is.
ToldWhatTreeHolds ==
  Listening => view = TreeBelow(nodes, bucket.path)

\* The daemon scans below the directory the server monitors and nowhere else,
\* after any sequence of registrations, deletions and departures.
ScansWhatIsWatched ==
  {i \in Reach(nodes, Root) : nodes[i].monitored} =
    IF Listening THEN {NodeAt(nodes, bucket.path)} ELSE {}

\* What the listener knows of directories that can be read is how they are.
UpToDate ==
  LET Visible(p) == IsStrictPrefix(bucket.path, p) /\ Readable(Front(p))
  IN  {k \in view : Visible(k.path)} =
        {Known(p, disk[p]) : p \in {q \in Paths : Visible(q) /\ disk[q] # NoEntry}}

\* update "match[es] the OS filesystem" (mapping_structure.h:50): a scan during
\* which nothing changes makes up for whatever went on during those before.
QuietScanIsExact == todo = <<>> /\ quiet /\ ~failed /\ Listening => UpToDate

\* When the files stop changing, a listener that stays comes to know how they are.
ListenerCatchesUp ==
  (changes = MaxChanges) ~> (failed \/ ~Listening \/ UpToDate)

=============================================================================
