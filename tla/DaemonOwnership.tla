-------------------------- MODULE DaemonOwnership --------------------------
(***************************************************************************)
(* What the servers of a host promise about the daemon, without processes, *)
(* locks, counters or IDs: there is one group of servers, at most one of   *)
(* them owns the daemon, only an owner refreshes the mapping, and the      *)
(* daemon changes hands when its owner left or the mapping is late.        *)
(* ServerProcesses implements this: the group is the set of servers        *)
(* counted in the mapping, the owner is the server daemonServer names.     *)
(***************************************************************************)
CONSTANTS Server, None

VARIABLES members,  \* the servers that share the mapping
          owner,    \* the server whose daemon updates it, or None
          late      \* the last update is too old

ownershipVars == <<members, owner, late>>

Init == members = {} /\ owner = None /\ late = FALSE

\* The first server creates the mapping and the daemon.
Found(p) ==
  /\ members = {}
  /\ members' = {p} /\ owner' = p /\ late' = TRUE

\* A server opens the mapping: its scan counts as an update.
Join(p) ==
  /\ p \notin members
  /\ members' = members \cup {p} /\ late' = FALSE
  /\ UNCHANGED owner

\* A server scans the mapping and then fails to join it.
Visit == late' = FALSE /\ UNCHANGED <<members, owner>>

\* A server leaves or dies; the last one may take the mapping with it.
Leave(p) ==
  /\ p \in members
  /\ members' = members \ {p}
  /\ owner' = IF owner = p THEN None ELSE owner
  /\ late' \in {late} \cup (IF members' = {} THEN {FALSE} ELSE {})

TakeOver(p) ==
  /\ p \in members /\ owner # p
  /\ owner = None \/ late
  /\ owner' = p
  /\ UNCHANGED <<members, late>>

Update ==
  /\ owner \in members
  /\ late' = FALSE
  /\ UNCHANGED <<members, owner>>

Age == ~late /\ late' = TRUE /\ UNCHANGED <<members, owner>>

Next ==
  \/ \E p \in Server : Found(p) \/ Join(p) \/ Leave(p) \/ TakeOver(p)
  \/ Visit \/ Update \/ Age

OwnershipSpec == Init /\ [][Next]_ownershipVars
=============================================================================
