--------------------------- MODULE Registrations ---------------------------
(***************************************************************************)
(* What a server promises its clients about their registrations, without   *)
(* trees, lists or the order in which they are searched: a client holds    *)
(* paths, each for the directory alone or with all below it, and none of   *)
(* them makes another one superfluous.                                     *)
(***************************************************************************)
EXTENDS SequencesExt

CONSTANTS Client, Path

VARIABLE held  \* per client: the paths it is registered for, with the mode

Mode == {"recursive", "nonrecursive"}

Init == held = [c \in Client |-> {}]

Wide(c, p) ==
  \E r \in held[c] : r[2] = "recursive" /\ IsPrefix(r[1], p)

\* The client is told about p and all below; what it held there is dropped.
AddRecursive(c, p) ==
  /\ ~Wide(c, p)
  /\ held' = [held EXCEPT ![c] =
                {r \in @ : ~IsPrefix(p, r[1])} \cup {<<p, "recursive">>}]

\* The client is told about p alone, even if it was told about all below.
AddPlain(c, p) ==
  /\ ~Wide(c, p) \/ <<p, "recursive">> \in held[c]
  /\ held' = [held EXCEPT ![c] =
                (@ \ {<<p, "recursive">>}) \cup {<<p, "nonrecursive">>}]

Drop(c, p) ==
  /\ \E m \in Mode : <<p, m>> \in held[c]
  /\ held' = [held EXCEPT ![c] = {r \in @ : r[1] # p}]

\* Directory d is gone, and with it the registrations for it and below.
Forget(d) ==
  held' = [c \in Client |-> {r \in held[c] : ~IsPrefix(d, r[1])}]

\* The server ends.
Close == held' = [c \in Client |-> {}]

Next ==
  \/ Close
  \/ \E p \in Path :
       \/ \E c \in Client : AddRecursive(c, p) \/ AddPlain(c, p) \/ Drop(c, p)
       \/ Forget(p)

RegistrationsSpec == Init /\ [][Next]_held
=============================================================================
