------------------------- MODULE MCServerProcesses -------------------------
(* Small instances of ServerProcesses for TLC.                             *)
EXTENDS ServerProcesses, TLC

\* Requests come while one process runs, among the first two.
RequestsAlone ==
  \A p \in Process :
    (\E h \in Handler : pc[p][h] # "off") =>
      starts <= 2 /\ \A q \in Process \ {p} : ~Alive(q)

\* When the first server has ended with the lock, those that start later can only
\* wait for it; once the last one has started, nothing more is followed.
OthersToCome == MakerGone => starts < MaxStart

\* The TCP server fails when it is started, not later.
AcceptsWork == \A p \in Process : pc[p]["tcp"] \in {"off", "accept"}

\* A mapping whose daemon lives falls behind among the first two processes.
EarlyLateness ==
  (\E f \in DOMAIN late : ~late[f] /\ late'[f] /\ DaemonRuns(f)) => starts <= 2

\* A signal reaches one of the daemon threads, so these are not alike.
HandlerSymmetry == Permutations(Process) \cup Permutations(Handler)

Symmetry == Permutations(Process) \cup Permutations(Daemon)
              \cup Permutations(Handler)
=============================================================================
