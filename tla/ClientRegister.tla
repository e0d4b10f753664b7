--------------------------- MODULE ClientRegister ---------------------------
(***************************************************************************)
(* The client register of one server (client_register.c,                   *)
(* client_path_tree.c, client_node_list.c): who is registered for which    *)
(* directory, and what waits to be sent to whom.                           *)
(*                                                                         *)
(* A registration is one object two structures point to: the list of its   *)
(* client and the list of its node in the tree of paths.  It is named by   *)
(* its client and its path.  Everything runs inside crLock, and the        *)
(* monitor keeps crLock from the first notification of a round until all   *)
(* are sent, so a call is one step and no handler runs within a round.     *)
(***************************************************************************)
EXTENDS PathStrings

CONSTANTS
  Client,   \* hosts that send requests
  Dirs,     \* the directories they may ask for
  File,     \* the name of a plain file, in any of them
  MaxNotes  \* bound: notifications in one round of the monitor

ASSUME DirsAreClosed == \A d \in Dirs : d # <<>> /\ Ancestors(d) \subseteq Dirs
ASSUME DirsAreSequences == Dirs \subseteq Seq(UNION {Range(d) : d \in Dirs})
ASSUME FilesAreNoDirs == \A d \in Dirs : Last(d) # File
ASSUME MaxNotesIsNat == MaxNotes \in Nat

Mode == {"recursive", "nonrecursive"}

VARIABLES
  listed,    \* clients in the client node list
  marked,    \* those with a deletionMark
  paths,     \* per client: registeredPaths, in their order
  nodes,     \* the nodes of the tree below "/"
  at,        \* per directory: the clients in its node's registrations
  mode,      \* per client and directory: the mode of the registration, or "none"
  freed,     \* nodes whose array of children was freed and is still used
  updates,   \* per client: what waits to be sent
  pushed,    \* the paths notified of in this round of the monitor
  status     \* "up", or why the server is not followed any more

treeVars == <<nodes, at, freed>>
registerVars == <<listed, paths, mode, treeVars>>
vars == <<registerVars, marked, updates, pushed, status>>

Init ==
  /\ listed = {} /\ marked = {}
  /\ paths = [c \in Client |-> <<>>]
  /\ nodes = {} /\ at = [d \in Dirs |-> {}] /\ freed = {}
  /\ mode = [c \in Client |-> [d \in Dirs |-> "none"]]
  /\ updates = [c \in Client |-> <<>>]
  /\ pushed = <<>> /\ status = "up"

-----------------------------------------------------------------------------
(* The tree.                                                               *)

\* cpt_clean_tree: only what leads to a registration stays.
Clean(n, a) == {d \in n : \E e \in n : IsPrefix(d, e) /\ a[e] # {}}

Children(d) == {e \in nodes : e # <<>> /\ Front(e) = d}

\* The node that gets the first child when the nodes on the way to p are added.
GrowsAt(n, p) ==
  LET there == {<<>>} \cup (Ancestors(p) \cap n)
  IN  CHOOSE d \in there : \A e \in there : Len(e) <= Len(d)

\* Adding a child reallocates the array of its parent.
UsesFreed(n, p) == p \notin n /\ GrowsAt(n, p) \in freed

Undefined(what) ==
  /\ status' = what
  /\ UNCHANGED <<registerVars, marked, updates, pushed>>

-----------------------------------------------------------------------------
(* cpt_add_client_registration.                                            *)

DirAt(c, i) == paths[c][i]

StopsAnyMode(c, p, m, i) == \* mutant: the mode found is not looked at
  StringPrefix(DirAt(c, i), p)

\* Registration i of c makes that of p in mode m superfluous.
Stops(c, p, m, i) ==
  \/ DirAt(c, i) = p /\ m = "nonrecursive"
  \/ StringPrefix(DirAt(c, i), p) /\ mode[c][DirAt(c, i)] = "recursive"

\* Where the search through the client's paths stops, 0 if it does not.
StopAt(c, p, m) ==
  LET stops == {i \in DOMAIN paths[c] : Stops(c, p, m, i)}
  IN  IF stops = {} THEN 0 ELSE CHOOSE i \in stops : \A j \in stops : i <= j

ReplacedEqualOnly(c, p, m) == \* mutant: compares names instead of prefixes
  {i \in DOMAIN paths[c] : m = "recursive" /\ DirAt(c, i) = p}

\* The registrations the new one replaces, as far as the search gets.
Replaced(c, p, m) ==
  {i \in DOMAIN paths[c] :
     /\ StopAt(c, p, m) = 0 \/ i < StopAt(c, p, m)
     /\ m = "recursive" /\ StringPrefix(p, DirAt(c, i))}

\* Nodes for p, and the registration at the end of both lists.
Enter(c, p, m, kept, a, n) ==
  IF UsesFreed(n, p) THEN Undefined("freed_memory")
  ELSE /\ paths' = [paths EXCEPT ![c] = Append(kept, p)]
       /\ nodes' = n \cup Ancestors(p)
       /\ freed' = freed \cap nodes'
       /\ at' = [a EXCEPT ![p] = @ \cup {c}]
       /\ mode' = [mode EXCEPT ![c] =
                    [d \in Dirs |-> IF d = p THEN m
                                   ELSE IF d \in Range(kept) THEN @[d]
                                   ELSE "none"]]
       /\ listed' = listed \cup {c}
       /\ UNCHANGED <<marked, updates, pushed, status>>

RegisterSame(c, p, m) ==
  LET i == StopAt(c, p, m)
  IN  /\ i # 0 /\ DirAt(c, i) = p /\ m = "nonrecursive"
      /\ mode' = [mode EXCEPT ![c][p] = m]
      /\ UNCHANGED <<listed, paths, treeVars, marked, updates, pushed, status>>

RegisterAlready(c, p, m) ==
  LET i == StopAt(c, p, m)
  IN  /\ i # 0 /\ ~(DirAt(c, i) = p /\ m = "nonrecursive")
      /\ UNCHANGED vars

RegisterNew(c, p, m) ==
  /\ StopAt(c, p, m) = 0 /\ Replaced(c, p, m) = {}
  /\ Enter(c, p, m, paths[c], at, nodes)

RegisterWiderLeavesTree(c, p, m) == \* mutant: the nodes keep what was replaced
  LET gone == {DirAt(c, i) : i \in Replaced(c, p, m)}
  IN  /\ StopAt(c, p, m) = 0 /\ gone # {}
      /\ Enter(c, p, m, Without(paths[c], gone), at, nodes)

RegisterWider(c, p, m) ==
  LET gone == {DirAt(c, i) : i \in Replaced(c, p, m)}
      left == [d \in Dirs |-> IF d \in gone THEN at[d] \ {c} ELSE at[d]]
  IN  /\ StopAt(c, p, m) = 0 /\ gone # {}
      /\ Enter(c, p, m, Without(paths[c], gone), left, Clean(nodes, left))

\* The search returns when it has already cleared entries of registeredPaths,
\* which the next search follows.
RegisterLeavesHoles(c, p, m) ==
  /\ StopAt(c, p, m) # 0 /\ Replaced(c, p, m) # {}
  /\ Undefined("null_entry")

Register(c, p, m) ==
  /\ status = "up" /\ pushed = <<>>
  /\ IF StopAt(c, p, m) # 0 /\ Replaced(c, p, m) # {}
     THEN RegisterLeavesHoles(c, p, m)
     ELSE \/ RegisterSame(c, p, m) \/ RegisterAlready(c, p, m)
          \/ RegisterNew(c, p, m) \/ RegisterWider(c, p, m)

-----------------------------------------------------------------------------
(* cpt_remove_client_registration.                                         *)

\* cpt_remove_child from p upwards, while nothing else needs the node.
ClimbOne(n, a, p) == \* mutant: only the last node is removed
  IF a[p] = {} /\ Children(p) = {} THEN n \ {p} ELSE n

Climb(n, a, p) ==
  n \ {d \in Ancestors(p) :
         \A e \in n : IsPrefix(d, e) => a[e] = {} /\ IsPrefix(e, p)}

Unregister(c, p) ==
  /\ status = "up" /\ pushed = <<>>
  /\ p \in nodes /\ c \in at[p]
  /\ at' = [at EXCEPT ![p] = @ \ {c}]
  /\ nodes' = Climb(nodes, at', p)
  /\ freed' = freed \cap nodes'
  /\ paths' = [paths EXCEPT ![c] = Without(@, {p})]
  /\ IF paths'[c] = <<>>
     THEN /\ listed' = listed \ {c} /\ marked' = marked \ {c}
          /\ updates' = [updates EXCEPT ![c] = <<>>]
     ELSE UNCHANGED <<listed, marked, updates>>
  /\ mode' = [mode EXCEPT ![c][p] = "none"]
  /\ UNCHANGED <<pushed, status>>

-----------------------------------------------------------------------------
(* cpt_push_notification: one notification of the mapping to the clients.  *)

Note(what, d) == [what |-> what, path |-> d]

\* The nodes the walk towards d meets, d itself not among them.
OnTheWay(d) == Ancestors(Front(d)) \cap nodes

HearingNodesAllModes(c, d) == \* mutant: the mode is not looked at
  {e \in OnTheWay(d) : c \in at[e]}

\* The nodes at which c gets the notification: those of the directory it is
\* about something in, and of a recursive registration further up.
HearingNodes(c, d) ==
  {e \in OnTheWay(d) :
     c \in at[e] /\ (e = Front(d) \/ mode[c][e] = "recursive")}

Copies(c, d) ==
  [i \in 1..Cardinality(HearingNodes(c, d)) |-> Note("change", d)]

Subtree(d) == {e \in nodes : IsPrefix(d, e)}

\* What cpt_delete_subtree takes from c.
Lost(c, d) == {e \in Subtree(d) : c \in at[e]}

Signals(c, d) ==
  [i \in 1..Cardinality(Lost(c, d)) |-> Note("removed", d)]

\* numRegisteredPaths when cnl_signal_deletion looks at it for the last time.
PathsSignalled(c, d) == Len(paths[c]) - Cardinality(Lost(c, d)) + 1

PathsLeftHoles(c, d) == \* mutant: entries are cleared and stay in the list
  [i \in DOMAIN paths[c] |->
     IF DirAt(c, i) \in Lost(c, d) THEN <<>> ELSE DirAt(c, i)]

PathsLeft(c, d) == Without(paths[c], Lost(c, d))

\* The subtree of a directory that is gone, and its registrations, go too.  When
\* it was an only child its parent's array is freed and the tree is cleaned.
DeleteSubtree(d) ==
  LET father == Front(d)
      onlyChild == Children(father) = {d}
      left == [e \in Dirs |-> IF e \in Subtree(d) THEN {} ELSE at[e]]
      rest == nodes \ Subtree(d)
  IN  /\ at' = left
      /\ nodes' = IF onlyChild THEN Clean(rest, left) ELSE rest
      /\ freed' = (IF onlyChild THEN freed \cup {father} ELSE freed) \cap nodes'
      /\ paths' = [c \in Client |-> PathsLeft(c, d)]
      /\ mode' = [c \in Client |-> [e \in Dirs |->
                    IF e \in Lost(c, d) THEN "none" ELSE mode[c][e]]]
      /\ marked' = marked \cup {c \in Client : /\ Lost(c, d) # {}
                                               /\ PathsSignalled(c, d) = 0}

Push(d, dirGone) ==
  /\ status = "up" /\ Len(pushed) < MaxNotes
  /\ pushed' = Append(pushed, d)
  /\ updates' = [c \in Client |->
                   updates[c] \o Copies(c, d)
                     \o IF dirGone THEN Signals(c, d) ELSE <<>>]
  /\ IF dirGone /\ d \in nodes
     THEN DeleteSubtree(d)
     ELSE UNCHANGED <<treeVars, paths, mode, marked>>
  /\ UNCHANGED <<listed, status>>

\* cnl_send_notifications: every queue is sent and emptied, and marked clients
\* leave the list.
Send ==
  /\ status = "up"
  /\ updates' = [c \in Client |-> <<>>]
  /\ listed' = listed \ marked
  /\ marked' = {}
  /\ pushed' = <<>>
  /\ UNCHANGED <<paths, mode, treeVars, status>>

\* A client that cannot be reached ends the server, and the register with it.
SendFails ==
  /\ status = "up" /\ listed # {}
  /\ status' = "terminated"
  /\ listed' = {} /\ marked' = {}
  /\ paths' = [c \in Client |-> <<>>]
  /\ nodes' = {} /\ at' = [d \in Dirs |-> {}] /\ freed' = {}
  /\ mode' = [c \in Client |-> [d \in Dirs |-> "none"]]
  /\ updates' = [c \in Client |-> <<>>]
  /\ pushed' = <<>>

\* A server that terminated or whose memory is corrupted.
Finished == status # "up" /\ UNCHANGED vars

Next ==
  \/ \E c \in Client, p \in Dirs :
       \/ \E m \in Mode : Register(c, p, m)
       \/ Unregister(c, p)
  \/ \E d \in Dirs : Push(Append(d, File), FALSE) \/ \E gone \in BOOLEAN : Push(d, gone)
  \/ Send \/ SendFails
  \/ Finished

Spec == Init /\ [][Next]_vars

-----------------------------------------------------------------------------
(* Properties.                                                             *)

\* Type invariant of the register.
TypeOK ==
  /\ listed \subseteq Client /\ marked \subseteq Client
  /\ \A c \in Client : Range(paths[c]) \subseteq Dirs
  /\ nodes \subseteq Dirs /\ freed \subseteq nodes
  /\ at \in [Dirs -> SUBSET Client]
  /\ mode \in [Client -> [Dirs -> Mode \cup {"none"}]]
  /\ Len(pushed) <= MaxNotes
  /\ status \in {"up", "terminated", "freed_memory", "null_entry"}

\* The search through a client's paths never returns after it has cleared some:
\* no entry of registeredPaths is NULL when the next request follows them.
NoHoles == status # "null_entry"

\* The two structures that point to the registrations agree: a client's list has
\* exactly the paths at whose nodes the client is, each once, both point to no
\* registration that was freed, the client is in the node list, and the list has no
\* holes.
ListsAgree ==
  /\ NoHoles
  /\ \A c \in Client :
       /\ IsInjective(paths[c])
       /\ Range(paths[c]) = {d \in Dirs : d \in nodes /\ c \in at[d]}
       /\ Range(paths[c]) = {d \in Dirs : mode[c][d] # "none"}
       /\ paths[c] # <<>> => c \in listed

\* The tree holds the nodes on the way to a registration and no others, so a
\* path no client is registered for costs nothing.
TreeIsMinimal ==
  nodes = UNION {Ancestors(d) : d \in {e \in Dirs : at[e] # {}}}

\* By its list, c is registered so that it hears of a change of d.
Hears(c, d) ==
  \E p \in Range(paths[c]) :
    p = Front(d) \/ (mode[c][p] = "recursive" /\ IsStrictPrefix(p, d))

NotesAbout(queue, d) ==
  Cardinality({i \in DOMAIN queue : queue[i] = Note("change", d)})

\* A notification reaches each client that is registered for the directory it is
\* about something in, or recursively further up, exactly once, and nobody else.
HeardOnce ==
  [][Len(pushed') > Len(pushed) =>
       LET d == Last(pushed')
       IN  \A c \in Client :
             NotesAbout(updates'[c], d) =
               NotesAbout(updates[c], d) + (IF Hears(c, d) THEN 1 ELSE 0)]_vars

-----------------------------------------------------------------------------
(* Refinement: the register implements Registrations.                      *)

Held == INSTANCE Registrations WITH
  Path <- Dirs,
  held <- [c \in Client |-> {<<p, mode[c][p]>> : p \in Range(paths[c])}]

\* Whatever the order of its lists, the register replaces, keeps and drops the
\* registrations the abstract one does; to widen a path never loses one below,
\* to be told that a path is registered already is true.
ImplementsRegistrations == Held!RegistrationsSpec
=============================================================================
