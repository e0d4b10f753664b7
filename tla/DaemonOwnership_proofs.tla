----------------------- MODULE DaemonOwnership_proofs -----------------------
(***************************************************************************)
(* The counter of the servers, the file they share, the lock they pass and *)
(* the daemon they own, proved for any number of processes, threads and    *)
(* starts: the counter never misses a server, all servers use one file,    *)
(* nobody enters the mapping after its server left, the semaphore is not   *)
(* lost, the server that daemonServer names has a daemon thread, the       *)
(* processes implement DaemonOwnership, and a daemon that was replaced     *)
(* never updates the mapping.                                              *)
(*                                                                         *)
(* A process that is killed by SIGINT while it undoes a failed start takes *)
(* itself off a counter it is not in, so most theorems assume that either  *)
(* this signal or such failures do not come.                               *)
(***************************************************************************)
EXTENDS ServerProcesses_proofs

\* No process is interrupted while it undoes a failed initialize_server.
UndoneInPeace == "early_ctrlc" \notin Faults \/ Faults \cap {"open_fail", "vanish"} = {}

-----------------------------------------------------------------------------
(* The monitor is alone while it undoes what initialize_server did.        *)

FailedLabel == {"fail_release", "fail_unlink", "fail_delete"}

EarlyAlone ==
  \A p \in Process :
    /\ pc[p]["monitor"] \in UndoLabel =>
         Faults \cap {"open_fail", "vanish"} # {}
    /\ pc[p]["monitor"] \in FailedLabel => "vanish" \in Faults
    /\ \/ pc[p]["monitor"] \in UndoLabel
       \/ pc[p]["monitor"] \in OpenLabel /\ "early_ctrlc" \notin Faults
       => \A t \in Thread \ {"monitor"} : pc[p][t] = "off"

AloneInv == IdentityInv /\ EarlyAlone

LEMMA InitAlone == Init => AloneInv
<1>1. Init => EarlyAlone
  BY Threads DEF Init, EarlyAlone, UndoLabel, OpenLabel, FailedLabel
<1>2. QED
  BY <1>1, InitIdentity DEF AloneInv

LEMMA QuietAlone ==
  ASSUME UndoneInPeace, AloneInv, NEW p \in Process, Quiet(p) PROVE EarlyAlone'
<1>. USE Threads
<1>0. ThreadInv
  BY DEF AloneInv, IdentityInv
<1>1. /\ \A q \in Process \ {p} : pc'[q] = pc[q]
      /\ pc'[p]["monitor"] \in OpenLabel => pc[p]["monitor"] \in OpenLabel
      /\ pc'[p]["monitor"] \in UndoLabel => pc[p]["monitor"] \in UndoLabel
  BY <1>0, QuietLabels DEF Quiet
<1>2. pc'[p]["monitor"] \in FailedLabel => pc[p]["monitor"] \in FailedLabel
  <2>1. ~Starts(p, "monitor")
    BY ThreadsAreDistinct DEF Starts
  <2>2. pc'[p]["monitor"] = pc[p]["monitor"]
          \/ Edge(pc[p]["monitor"], pc'[p]["monitor"])
    BY <2>1 DEF Quiet, Moves
  <2>3. QED
    BY <2>2 DEF Edge, FailedLabel
<1>3. ASSUME \/ pc'[p]["monitor"] \in UndoLabel
             \/ pc'[p]["monitor"] \in OpenLabel /\ "early_ctrlc" \notin Faults,
             NEW t \in Thread \ {"monitor"}
      PROVE  pc'[p][t] = "off"
  <2>1. /\ \A u \in Thread \ {"monitor"} : pc[p][u] = "off"
        /\ "early_ctrlc" \notin Faults
    BY <1>1, <1>3 DEF AloneInv, EarlyAlone, UndoneInPeace
  <2>2. ~Initialised(p)
    BY <1>1, <1>3 DEF Initialised, UndoLabel, OpenLabel
  <2>3. ~Starts(p, t)
    BY <1>3, <2>1, <2>2, ThreadsAreDistinct DEF Starts, UndoLabel, OpenLabel
  <2>4. ~Moves(p, t)
    BY <2>1 DEF Moves, Edge
  <2>5. QED
    BY <2>1, <2>3, <2>4 DEF Quiet
<1>4. QED
  BY <1>1, <1>2, <1>3 DEF AloneInv, EarlyAlone

\* A process whose monitor is past the undoing, or at its start.
LEMMA StepAlone ==
  ASSUME AloneInv, NEW p \in Process,
         \A q \in Process \ {p} : pc'[q] = pc[q],
         \/ pc'[p]["monitor"] \notin OpenLabel \cup UndoLabel
         \/ /\ \A t \in Thread \ {"monitor"} : pc'[p][t] = "off"
            /\ pc'[p]["monitor"] \in UndoLabel =>
                 Faults \cap {"open_fail", "vanish"} # {}
            /\ pc'[p]["monitor"] \in FailedLabel => "vanish" \in Faults
  PROVE  EarlyAlone'
BY Threads DEF AloneInv, EarlyAlone, UndoLabel, FailedLabel

LEMMA NotableAlone ==
  ASSUME UndoneInPeace, AloneInv, NEW p \in Process, Notable(p)
  PROVE  EarlyAlone'
<1>. USE Threads
<1>0. TypeOK /\ ThreadsAlive
  BY DEF AloneInv, IdentityInv, ThreadInv
<1>1. CASE Boot(p)
  <2>1. /\ \A q \in Process \ {p} : pc'[q] = pc[q]
        /\ \A t \in Thread \ {"monitor"} : pc'[p][t] = pc[p][t]
        /\ pc'[p]["monitor"] = "init_map" /\ ~Alive(p)
    BY <1>0, <1>1 DEF Boot, Goto, TypeOK
  <2>2. QED
    BY <1>0, <2>1, StepAlone DEF ThreadsAlive, UndoLabel, FailedLabel
<1>2. CASE InitCreate(p) \/ InitOpen(p)
  <2>1. /\ \A q \in Process \ {p} : pc'[q] = pc[q]
        /\ pc'[p]["monitor"] = "init_release"
    BY <1>0, <1>2, ThreadsAreDistinct
       DEF InitCreate, InitOpen, Step, Goto, TypeOK, FreeDaemon
  <2>2. QED
    BY <2>1, StepAlone DEF OpenLabel, UndoLabel
<1>3. CASE InitCreateFails(p) \/ InitOpenFails(p)
  <2>1. /\ pc[p]["monitor"] = "init_body"
        /\ \A q \in Process \ {p} : pc'[q] = pc[q]
        /\ \A t \in Thread \ {"monitor"} : pc'[p][t] = pc[p][t]
        /\ \/ pc'[p]["monitor"] = "fail_release" /\ "vanish" \in Faults
           \/ pc'[p]["monitor"] = "abort_release" /\ "open_fail" \in Faults
    BY <1>0, <1>3
       DEF InitCreateFails, MakeFile, InitOpenFails, Step, Goto, TypeOK
  <2>2. \A t \in Thread \ {"monitor"} : pc[p][t] = "off"
    BY <2>1 DEF AloneInv, EarlyAlone, UndoneInPeace, OpenLabel
  <2>3. QED
    BY <2>1, <2>2, StepAlone DEF UndoLabel, FailedLabel
<1>4. CASE InitNoDaemon(p) \/ FailDelete(p) \/ Gone(p)
  <2>1. /\ \A q \in Process \ {p} : pc'[q] = pc[q]
        /\ \A t \in Thread : pc'[p][t] = "off"
    BY <1>0, <1>4 DEF InitNoDaemon, FailDelete, Gone, Exit, ExitProcess, TypeOK
  <2>2. QED
    BY <2>1, StepAlone DEF UndoLabel, OpenLabel
<1>5. CASE MonitorTakeOver(p)
  <2>1. /\ \A q \in Process \ {p} : pc'[q] = pc[q]
        /\ pc'[p]["monitor"] \in {"m_unmap", "t_body"}
    BY <1>0, <1>5, ThreadsAreDistinct
       DEF MonitorTakeOver, TypeOK, FreeDaemon, AfterRound
  <2>2. QED
    BY <2>1, StepAlone DEF OpenLabel, UndoLabel
<1>6. CASE \E d \in Daemon : DaemonUpdate(p, d)
  <2>1. PICK d \in Daemon : Step(p, d, "d_body", "d_unmap")
    BY <1>6 DEF DaemonUpdate
  <2>2. /\ \A q \in Process \ {p} : pc'[q] = pc[q]
        /\ \A t \in Thread \ {d} : pc'[p][t] = pc[p][t]
        /\ pc[p][d] = "d_body" /\ d # "monitor"
    BY <1>0, <2>1, StepChanges, ThreadsAreDistinct
  <2>3. QED
    BY <2>2 DEF AloneInv, EarlyAlone
<1>7. CASE \E t \in Thread : TerminateBody(p, t)
  <2>1. PICK t \in Thread : TerminateBody(p, t)
    BY <1>7
  <2>2. /\ \A q \in Process \ {p} : pc'[q] = pc[q]
        /\ \A u \in Thread \ {t} : \/ pc'[p][u] = pc[p][u]
                                   \/ u = "tcp" /\ pc'[p][u] = "off"
        /\ pc[p][t] = "t_body" /\ pc'[p][t] = "t_release"
    BY <1>0, <2>1 DEF TypeOK, TerminateBody
  <2>3. QED
    BY <2>2, ThreadsAreDistinct
       DEF AloneInv, EarlyAlone, OpenLabel, UndoLabel, FailedLabel
<1>8. QED
  BY <1>1, <1>2, <1>3, <1>4, <1>5, <1>6, <1>7 DEF Notable

LEMMA NextAlone ==
  ASSUME UndoneInPeace, AloneInv, [Next]_vars PROVE AloneInv'
<1>1. IdentityInv' /\ ThreadInv
  BY NextIdentity DEF AloneInv, IdentityInv
<1>2. CASE Age \/ UNCHANGED vars
  <2>1. UNCHANGED pc
    BY <1>2 DEF Age, vars
  <2>2. QED
    BY <1>1, <2>1 DEF AloneInv, EarlyAlone
<1>3. QED
  BY <1>1, <1>2, StepKinds, QuietAlone, NotableAlone DEF AloneInv

-----------------------------------------------------------------------------
(* The counter covers the servers.                                         *)

Sharers(f) == {p \in Process : joined[p] /\ structure[p] = f}

Counted ==
  \A f \in 1..MaxStart :
    IsFiniteSet(Sharers(f)) /\ serverCounter[f] >= Cardinality(Sharers(f))

CountInv == AloneInv /\ Counted

\* A thread that terminates a server which has opened the mapping is counted.
LEMMA LeaverIsCounted ==
  ASSUME AloneInv, NEW p \in Process, NEW t \in Thread, TerminateBody(p, t)
  PROVE  joined[p] \/ pc[p]["monitor"] \in UndoLabel
BY ActiveJoined DEF TerminateBody, AloneInv, ActiveLabel, LeftLabel

\* With no undoing that a signal cuts short, it is counted for sure.
LEMMA LeaverJoined ==
  ASSUME AloneInv, NEW p \in Process, NEW t \in Thread, TerminateBody(p, t)
  PROVE  joined[p]
<1>1. pc[p][t] = "t_body"
  BY DEF TerminateBody
<1>2. pc[p]["monitor"] \notin UndoLabel
  <2>1. CASE t = "monitor"
    BY <1>1, <2>1 DEF UndoLabel
  <2>2. CASE t # "monitor"
    BY <1>1, <2>2 DEF AloneInv, EarlyAlone
  <2>3. QED
    BY <2>1, <2>2
<1>3. QED
  BY <1>2, LeaverIsCounted

\* The process that opens the mapping is in it for the first time.
LEMMA OpenerIsNew ==
  ASSUME IdentityInv, NEW p \in Process, pc[p]["monitor"] \in OpenLabel
  PROVE  ~joined[p] /\ structure[p] = 0
BY DEF IdentityInv, Reset

\* Nobody shares the file that a process is about to create.
LEMMA NobodySharesNew ==
  ASSUME IdentityInv, NEW p \in Process, pc[p]["monitor"] \in OpenLabel
  PROVE  Sharers(serial[p]) = {}
BY SerialIsFresh DEF Sharers

\* How the steps of one process change who shares the files and how many are
\* counted there.
Enters(p, f) ==
  /\ Sharers(f)' = Sharers(f) \cup {p} /\ p \notin Sharers(f)
  /\ \A g \in 1..MaxStart \ {f} : Sharers(g)' = Sharers(g)

Leaves(p) ==
  \A g \in 1..MaxStart : Sharers(g)' = Sharers(g) \ {p}

Stays == \A g \in 1..MaxStart : Sharers(g)' = Sharers(g)

LEMMA CreateEnters ==
  ASSUME IdentityInv, NEW p \in Process, InitCreate(p), NEW f, f = serial[p]
  PROVE  /\ Enters(p, f) /\ Sharers(f) = {} /\ f \in 1..MaxStart
         /\ serverCounter' = [serverCounter EXCEPT ![f] = 1]
<1>1. pc[p]["monitor"] \in OpenLabel
  BY DEF InitCreate, MakeFile, OpenLabel
<1>2. /\ structure' = [structure EXCEPT ![p] = f]
      /\ joined' = [joined EXCEPT ![p] = TRUE]
      /\ serverCounter' = [serverCounter EXCEPT ![f] = 1]
  BY DEF InitCreate, MakeFile, NewMapping
<1>3. /\ \A q \in Process \ {p} : structure'[q] = structure[q] /\ joined'[q] = joined[q]
      /\ structure'[p] = f /\ joined'[p]
  BY <1>2 DEF IdentityInv, ThreadInv, TypeOK
<1>4. Enters(p, f)
  BY <1>1, <1>3, OpenerIsNew DEF Enters, Sharers
<1>5. QED
  BY <1>1, <1>2, <1>4, NobodySharesNew, SerialIsFresh

LEMMA OpenEnters ==
  ASSUME IdentityInv, NEW p \in Process, InitOpen(p), NEW f, f = fileName
  PROVE  /\ Enters(p, f) /\ f \in 1..MaxStart
         /\ serverCounter' = [serverCounter EXCEPT ![f] = @ + 1]
<1>1. pc[p]["monitor"] \in OpenLabel
  BY DEF InitOpen, Step, OpenLabel
<1>2. /\ structure' = [structure EXCEPT ![p] = f]
      /\ joined' = [joined EXCEPT ![p] = TRUE]
      /\ serverCounter' = [serverCounter EXCEPT ![f] = @ + 1]
  BY DEF InitOpen, Enrol
<1>3. /\ \A q \in Process \ {p} : structure'[q] = structure[q] /\ joined'[q] = joined[q]
      /\ structure'[p] = f /\ joined'[p] /\ f \in 1..MaxStart
  BY <1>2 DEF InitOpen, IdentityInv, ThreadInv, TypeOK
<1>4. Enters(p, f)
  BY <1>1, <1>3, OpenerIsNew DEF Enters, Sharers
<1>5. QED
  BY <1>2, <1>3, <1>4

LEMMA ExitLeaves ==
  ASSUME TypeOK, NEW p \in Process, ExitProcess(p) PROVE Leaves(p)
<1>1. /\ \A q \in Process \ {p} : structure'[q] = structure[q] /\ joined'[q] = joined[q]
      /\ ~joined'[p]
  BY DEF ExitProcess, TypeOK
<1>2. QED
  BY <1>1 DEF Leaves, Sharers

LEMMA TerminateLeaves ==
  ASSUME TypeOK, NEW p \in Process, NEW t \in Thread, TerminateBody(p, t)
  PROVE  Leaves(p) /\ structure[p] \in 1..MaxStart
<1>1. /\ \A q \in Process \ {p} : joined'[q] = joined[q]
      /\ ~joined'[p] /\ UNCHANGED structure
      /\ structure[p] \in 1..MaxStart
  BY DEF TerminateBody, TypeOK
<1>2. QED
  BY <1>1 DEF Leaves, Sharers

\* A process that opens a file without being counted in.
LEMMA FailStays ==
  ASSUME IdentityInv, NEW p \in Process, InitCreateFails(p) \/ InitOpenFails(p)
  PROVE  Stays
<1>1. pc[p]["monitor"] \in OpenLabel
  BY DEF InitCreateFails, MakeFile, InitOpenFails, Step, OpenLabel
<1>2. /\ \A q \in Process \ {p} : structure'[q] = structure[q]
      /\ UNCHANGED joined
  BY DEF InitCreateFails, MakeFile, InitOpenFails, IdentityInv, ThreadInv, TypeOK
<1>3. QED
  BY <1>1, <1>2, OpenerIsNew DEF Stays, Sharers

LEMMA UnchangedStays == ASSUME UNCHANGED <<joined, structure>> PROVE Stays
BY DEF Stays, Sharers

\* The steps that keep the counters and the servers counted.
LEMMA StaysCounted ==
  ASSUME Counted, Stays, UNCHANGED serverCounter PROVE Counted'
BY DEF Counted, Stays

LEMMA NotableCounted ==
  ASSUME CountInv, NEW p \in Process, Notable(p) PROVE Counted'
<1>0. IdentityInv /\ TypeOK /\ AloneInv
  BY DEF CountInv, AloneInv, IdentityInv, ThreadInv
<1>n. \A f \in 1..MaxStart :
        IsFiniteSet(Sharers(f)) /\ serverCounter[f] >= Cardinality(Sharers(f))
        /\ serverCounter[f] \in Int /\ Cardinality(Sharers(f)) \in Nat
  <2>1. \A f \in 1..MaxStart :
          IsFiniteSet(Sharers(f)) /\ serverCounter[f] >= Cardinality(Sharers(f))
    BY DEF CountInv, Counted
  <2>2. QED
    BY <1>0, <2>1, MappingTypes, FS_CardinalityType
<1>1. CASE Boot(p) \/ MonitorTakeOver(p) \/ \E d \in Daemon : DaemonUpdate(p, d)
  <2>1. UNCHANGED <<joined, structure, serverCounter>>
    BY <1>1 DEF Boot, MonitorTakeOver, DaemonUpdate, processVars, mappingVars
  <2>2. QED
    BY <2>1, StaysCounted, UnchangedStays DEF CountInv
<1>2. CASE InitCreate(p)
  <2>0. PICK f : f = serial[p]
    OBVIOUS
  <2>1. /\ Enters(p, f) /\ Sharers(f) = {} /\ f \in 1..MaxStart
        /\ serverCounter' = [serverCounter EXCEPT ![f] = 1]
    BY <1>0, <1>2, <2>0, CreateEnters
  <2>2. Sharers(f)' = {p} /\ serverCounter'[f] = 1
    BY <1>0, <2>1 DEF Enters, TypeOK
  <2>3. /\ IsFiniteSet(Sharers(f)')
        /\ serverCounter'[f] >= Cardinality(Sharers(f)')
    <3>1. IsFiniteSet({p}) /\ Cardinality({p}) = 1
      BY FS_Singleton
    <3>2. QED
      BY <2>2, <3>1
  <2>4. \A g \in 1..MaxStart \ {f} :
          Sharers(g)' = Sharers(g) /\ serverCounter'[g] = serverCounter[g]
    BY <1>0, <2>1 DEF Enters, TypeOK
  <2>5. QED
    BY <1>n, <2>3, <2>4 DEF Counted
<1>3. CASE InitOpen(p)
  <2>0. PICK f : f = fileName
    OBVIOUS
  <2>1. /\ Enters(p, f) /\ f \in 1..MaxStart
        /\ serverCounter' = [serverCounter EXCEPT ![f] = @ + 1]
    BY <1>0, <1>3, <2>0, OpenEnters
  <2>2. /\ Sharers(f)' = Sharers(f) \cup {p} /\ p \notin Sharers(f)
        /\ serverCounter'[f] = serverCounter[f] + 1
    BY <1>0, <2>1 DEF Enters, TypeOK
  <2>3. /\ IsFiniteSet(Sharers(f)')
        /\ Cardinality(Sharers(f)') = Cardinality(Sharers(f)) + 1
    BY <1>n, <2>1, <2>2, FS_AddElement
  <2>4. \A g \in 1..MaxStart \ {f} :
          Sharers(g)' = Sharers(g) /\ serverCounter'[g] = serverCounter[g]
    BY <1>0, <2>1 DEF Enters, TypeOK
  <2>5. serverCounter'[f] >= Cardinality(Sharers(f)')
    BY <1>n, <2>1, <2>2, <2>3
  <2>6. QED
    BY <1>n, <2>3, <2>4, <2>5 DEF Counted
<1>4. CASE InitCreateFails(p)
  <2>1. /\ serverCounter' = [serverCounter EXCEPT ![serial[p]] = 1]
        /\ pc[p]["monitor"] \in OpenLabel
    BY <1>4 DEF InitCreateFails, MakeFile, NewMapping, OpenLabel
  <2>2. Sharers(serial[p]) = {} /\ serial[p] \in 1..MaxStart
    BY <1>0, <2>1, NobodySharesNew, SerialIsFresh
  <2>3. /\ \A f \in 1..MaxStart \ {serial[p]} : serverCounter'[f] = serverCounter[f]
        /\ serverCounter'[serial[p]] = 1
    BY <1>0, <2>1, <2>2 DEF TypeOK
  <2>4. Stays
    BY <1>0, <1>4, FailStays
  <2>5. Cardinality(Sharers(serial[p])) = 0
    BY <2>2, FS_EmptySet
  <2>6. QED
    BY <1>n, <2>2, <2>3, <2>4, <2>5 DEF Counted, Stays
<1>5. CASE InitNoDaemon(p)
  <2>1. /\ serverCounter' = [serverCounter EXCEPT ![serial[p]] = 1]
        /\ pc[p]["monitor"] \in OpenLabel /\ ExitProcess(p)
    BY <1>5 DEF InitNoDaemon, NewMapping, OpenLabel
  <2>2. Sharers(serial[p]) = {} /\ serial[p] \in 1..MaxStart
    BY <1>0, <2>1, NobodySharesNew, SerialIsFresh
  <2>3. /\ \A f \in 1..MaxStart \ {serial[p]} : serverCounter'[f] = serverCounter[f]
        /\ serverCounter'[serial[p]] = 1
    BY <1>0, <2>1, <2>2 DEF TypeOK
  <2>4. Stays
    <3>1. p \notin UNION {Sharers(f) : f \in 1..MaxStart}
      BY <1>0, <2>1, OpenerIsNew DEF Sharers
    <3>2. QED
      BY <1>0, <2>1, <3>1, ExitLeaves DEF Leaves, Stays
  <2>5. Cardinality(Sharers(serial[p])) = 0
    BY <2>2, FS_EmptySet
  <2>6. QED
    BY <1>n, <2>2, <2>3, <2>4, <2>5 DEF Counted, Stays
<1>6. CASE InitOpenFails(p)
  <2>1. \A f \in 1..MaxStart : serverCounter'[f] \in {serverCounter[f], serverCounter[f] + 1}
    <3>1. serverCounter \in [1..MaxStart -> Int]
      BY <1>0 DEF TypeOK
    <3>2. \/ serverCounter' = serverCounter
          \/ serverCounter' = [serverCounter EXCEPT ![fileName] = @ + 1]
      BY <1>6 DEF InitOpenFails, Enrol, mappingVars
    <3>3. QED
      BY <3>1, <3>2
  <2>2. Stays
    BY <1>0, <1>6, FailStays
  <2>3. QED
    BY <1>n, <2>1, <2>2 DEF Counted, Stays
<1>7. CASE FailDelete(p) \/ Gone(p)
  <2>1. ExitProcess(p) /\ UNCHANGED serverCounter
    BY <1>7 DEF FailDelete, Gone, Exit, hostVars, mappingVars
  <2>2. \A f \in 1..MaxStart : Sharers(f)' = Sharers(f) \ {p}
    BY <1>0, <2>1, ExitLeaves DEF Leaves
  <2>3. \A f \in 1..MaxStart :
          /\ IsFiniteSet(Sharers(f)')
          /\ Cardinality(Sharers(f)') \in {Cardinality(Sharers(f)),
                                           Cardinality(Sharers(f)) - 1}
    BY <1>n, <2>2, FS_RemoveElement
  <2>4. QED
    BY <1>n, <2>1, <2>3 DEF Counted
<1>8. CASE \E t \in Thread : TerminateBody(p, t)
  <2>0. PICK t \in Thread : TerminateBody(p, t)
    BY <1>8
  <2>1. /\ joined[p] /\ structure[p] \in 1..MaxStart
        /\ \A f \in 1..MaxStart : Sharers(f)' = Sharers(f) \ {p}
    BY <1>0, <2>0, LeaverJoined, TerminateLeaves DEF Leaves
  <2>2. \A f \in 1..MaxStart :
          serverCounter'[f] = IF f = structure[p] THEN serverCounter[f] - 1
                                                  ELSE serverCounter[f]
    BY <1>0, <2>0 DEF TerminateBody, TypeOK
  <2>3. \A f \in 1..MaxStart : p \in Sharers(f) <=> f = structure[p]
    BY <2>1 DEF Sharers
  <2>4. \A f \in 1..MaxStart :
          /\ IsFiniteSet(Sharers(f)')
          /\ Cardinality(Sharers(f)') = IF f = structure[p]
                                          THEN Cardinality(Sharers(f)) - 1
                                          ELSE Cardinality(Sharers(f))
    BY <1>n, <2>1, <2>3, FS_RemoveElement
  <2>5. QED
    BY <1>n, <2>2, <2>4 DEF Counted
<1>9. QED
  BY <1>1, <1>2, <1>3, <1>4, <1>5, <1>6, <1>7, <1>8 DEF Notable

LEMMA NextCount ==
  ASSUME UndoneInPeace, CountInv, [Next]_vars PROVE CountInv'
<1>1. AloneInv' /\ ThreadInv
  BY NextAlone DEF CountInv, AloneInv, IdentityInv
<1>2. ASSUME Age \/ UNCHANGED vars \/ \E p \in Process : Quiet(p)
      PROVE  Counted'
  <2>1. UNCHANGED <<joined, structure, serverCounter>>
    BY <1>2 DEF Age, vars, hostVars, mappingVars, processVars, Quiet
  <2>2. QED
    BY <2>1, StaysCounted, UnchangedStays DEF CountInv
<1>3. QED
  BY <1>1, <1>2, StepKinds, NotableCounted DEF CountInv

LEMMA InitCount == Init => CountInv
<1>. SUFFICES ASSUME Init PROVE CountInv
  OBVIOUS
<1>1. \A f \in 1..MaxStart : Sharers(f) = {} /\ serverCounter[f] = 0
  BY DEF Init, Sharers
<1>2. Counted
  BY <1>1, FS_EmptySet DEF Counted
<1>3. QED
  BY <1>2, InitAlone DEF CountInv

\* However servers died or failed, the counter of the file that is named covers
\* the servers that use it, so that the file does not go while one of them does,
\* and the IDs it gives stay distinct (server_commons.c, terminate_server), unless
\* SIGINT comes while a server undoes a failed start.
THEOREM CounterKeepsServers ==
  ASSUME UndoneInPeace
  PROVE  Spec => []ServersAreKept
<1>1. CountInv => ServersAreKept
  <2>1. ASSUME CountInv, fileName # 0
        PROVE  serverCounter[fileName] >= Cardinality(Sharers(fileName))
    <3>1. fileName \in 1..MaxStart
      BY <2>1 DEF CountInv, AloneInv, IdentityInv, ThreadInv, TypeOK
    <3>2. QED
      BY <2>1, <3>1 DEF CountInv, Counted
  <2>2. QED
    BY <2>1 DEF ServersAreKept, CounterCovers, Sharers, CountInv, AloneInv,
                IdentityInv
<1>2. QED
  BY <1>1, InitCount, NextCount, PTL DEF Spec

-----------------------------------------------------------------------------
(* One file for all, unless a first server undoes its creation by name.    *)

OneInv == CountInv /\ OneMapping

LEMMA NotableOne ==
  ASSUME "vanish" \notin Faults, OneInv, CountInv', NEW p \in Process, Notable(p)
  PROVE  OneMapping'
<1>0. IdentityInv /\ TypeOK /\ AloneInv
  BY DEF OneInv, CountInv, AloneInv, IdentityInv, ThreadInv
<1>n. fileName = 0 => \A q \in Process : ~joined[q]
  BY <1>0, JoinedAlive DEF OneInv, OneMapping
<1>1. CASE Boot(p) \/ MonitorTakeOver(p) \/ \E d \in Daemon : DaemonUpdate(p, d)
  <2>1. UNCHANGED <<joined, structure, fileName>>
    BY <1>1 DEF Boot, MonitorTakeOver, DaemonUpdate, processVars
  <2>2. QED
    BY <2>1 DEF OneInv, OneMapping
<1>2. CASE InitCreate(p)
  <2>1. /\ fileName = 0 /\ fileName' = serial[p]
        /\ structure' = [structure EXCEPT ![p] = serial[p]]
        /\ joined' = [joined EXCEPT ![p] = TRUE]
    BY <1>2 DEF InitCreate, MakeFile, NewMapping
  <2>2. QED
    BY <1>0, <1>n, <2>1 DEF OneMapping, TypeOK
<1>3. CASE InitOpen(p) \/ InitOpenFails(p)
  <2>1. /\ UNCHANGED fileName
        /\ structure' = [structure EXCEPT ![p] = fileName]
        /\ \A q \in Process \ {p} : joined'[q] = joined[q]
    BY <1>0, <1>3 DEF InitOpen, InitOpenFails, TypeOK
  <2>2. QED
    BY <1>0, <2>1 DEF OneInv, OneMapping, TypeOK
<1>4. CASE InitNoDaemon(p) \/ Gone(p)
  <2>1. /\ ExitProcess(p)
        /\ fileName' = fileName \/ fileName = 0
    BY <1>4 DEF InitNoDaemon, Gone, Exit, hostVars
  <2>2. /\ \A q \in Process \ {p} : joined'[q] = joined[q] /\ structure'[q] = structure[q]
        /\ ~joined'[p]
    BY <1>0, <2>1 DEF ExitProcess, TypeOK
  <2>3. QED
    BY <1>n, <2>1, <2>2 DEF OneInv, OneMapping
<1>5. CASE InitCreateFails(p)
  BY <1>5 DEF InitCreateFails
<1>6. CASE FailDelete(p)
  BY <1>0, <1>6 DEF FailDelete, AloneInv, EarlyAlone, FailedLabel
<1>7. CASE \E t \in Thread : TerminateBody(p, t)
  <2>0. PICK t \in Thread : TerminateBody(p, t)
    BY <1>7
  <2>1. /\ \A q \in Process : joined'[q] => joined[q]
        /\ UNCHANGED structure
        /\ fileName' = fileName \/ serverCounter'[structure[p]] = 0
        /\ structure[p] \in 1..MaxStart /\ joined[p]
    <3>1. joined[p]
      BY <1>0, <2>0, LeaverJoined
    <3>2. QED
      BY <1>0, <2>0, <3>1 DEF TerminateBody, TypeOK
  <2>2. CASE serverCounter'[structure[p]] = 0
    <3>0. PICK f \in 1..MaxStart : f = structure[p]
      BY <2>1
    <3>1. IsFiniteSet(Sharers(f)') /\ 0 >= Cardinality(Sharers(f)')
      BY <2>2, <3>0 DEF CountInv, Counted
    <3>2. Sharers(f)' = {}
      <4>1. Cardinality(Sharers(f)') \in Nat
        BY <3>1, FS_CardinalityType
      <4>2. Cardinality(Sharers(f)') = 0
        BY <3>1, <4>1
      <4>3. QED
        BY <3>1, <4>2, FS_EmptySet
    <3>3. \A q \in Process : joined'[q] => structure'[q] = f
      BY <2>1, <3>0 DEF OneInv, OneMapping
    <3>4. QED
      BY <3>2, <3>3 DEF Sharers, OneMapping
  <2>3. QED
    BY <2>1, <2>2 DEF OneInv, OneMapping
<1>8. QED
  BY <1>1, <1>2, <1>3, <1>4, <1>5, <1>6, <1>7 DEF Notable

LEMMA NextOne ==
  ASSUME UndoneInPeace, "vanish" \notin Faults, OneInv, [Next]_vars PROVE OneInv'
<1>1. CountInv' /\ ThreadInv
  BY NextCount DEF OneInv, CountInv, AloneInv, IdentityInv
<1>2. ASSUME Age \/ UNCHANGED vars \/ \E p \in Process : Quiet(p)
      PROVE  OneMapping'
  <2>1. UNCHANGED <<joined, structure, fileName>>
    BY <1>2 DEF Age, vars, hostVars, processVars, Quiet
  <2>2. QED
    BY <2>1 DEF OneInv, OneMapping
<1>3. QED
  BY <1>1, <1>2, StepKinds, NotableOne DEF OneInv

LEMMA InitOne == Init => OneInv
BY InitCount DEF Init, OneInv, OneMapping

\* All the servers counted in a mapping share the file mapName names, whatever
\* dies or fails to join, unless the first server's directory vanishes and it
\* removes the names, or SIGINT comes while a server undoes a failed start
\* (create_mapping, delete_mapping).
THEOREM OneFileForAll ==
  ASSUME UndoneInPeace, "vanish" \notin Faults
  PROVE  Spec => []OneMapping
<1>1. OneInv => OneMapping
  BY DEF OneInv
<1>2. QED
  BY <1>1, InitOne, NextOne, PTL DEF Spec

-----------------------------------------------------------------------------
(* The exact count.                                                        *)

\* No process dies, is interrupted or fails half way.
NothingDies ==
  Faults \cap {"vanish", "open_fail", "thread", "ctrlc", "early_ctrlc",
               "kill", "kill_idle"} = {}

Exact ==
  \A f \in 1..MaxStart :
    f = fileName => /\ serverCounter[f] = Cardinality(Sharers(f))
                    /\ serverCounter[f] > 0

ExactInv == OneInv /\ Exact

\* A process that ends without a fault is not counted any more.
LEMMA GoneIsUncounted ==
  ASSUME NothingDies, IdentityInv, NEW p \in Process, Gone(p) PROVE ~joined[p]
<1>1. CASE pc[p]["monitor"] = "abort_exit"
  BY <1>1, JoinedAlive DEF UndoLabel
<1>2. CASE \E t \in Thread : pc[p][t] = "t_exit"
  BY <1>2 DEF IdentityInv, LeavesInitialised, LeftLabel
<1>3. CASE structure[p] = 0
  BY <1>3, JoinedAlive
<1>4. QED
  BY <1>1, <1>2, <1>3 DEF Gone, NothingDies

LEMMA NotableExact ==
  ASSUME NothingDies, ExactInv, NEW p \in Process, Notable(p) PROVE Exact'
<1>0. IdentityInv /\ TypeOK /\ AloneInv
  BY DEF ExactInv, OneInv, CountInv, AloneInv, IdentityInv, ThreadInv
<1>n. \A f \in 1..MaxStart :
        /\ IsFiniteSet(Sharers(f)) /\ Cardinality(Sharers(f)) \in Nat
        /\ serverCounter[f] \in Int
  BY <1>0, MappingTypes, FS_CardinalityType DEF ExactInv, OneInv, CountInv, Counted
<1>1. CASE Boot(p) \/ MonitorTakeOver(p) \/ \E d \in Daemon : DaemonUpdate(p, d)
  <2>1. UNCHANGED <<joined, structure, fileName, serverCounter>>
    BY <1>1 DEF Boot, MonitorTakeOver, DaemonUpdate, processVars, mappingVars
  <2>2. QED
    BY <2>1, UnchangedStays DEF ExactInv, Exact, Stays
<1>2. CASE InitCreate(p)
  <2>0. PICK f : f = serial[p]
    OBVIOUS
  <2>1. /\ Enters(p, f) /\ Sharers(f) = {} /\ f \in 1..MaxStart
        /\ serverCounter' = [serverCounter EXCEPT ![f] = 1]
    BY <1>0, <1>2, <2>0, CreateEnters
  <2>2. Sharers(f)' = {p} /\ serverCounter'[f] = 1 /\ fileName' = f
    BY <1>0, <1>2, <2>0, <2>1 DEF Enters, TypeOK, InitCreate, MakeFile, NewMapping
  <2>3. Cardinality({p}) = 1
    BY FS_Singleton
  <2>4. QED
    BY <2>2, <2>3 DEF Exact
<1>3. CASE InitOpen(p)
  <2>0. PICK f : f = fileName
    OBVIOUS
  <2>1. /\ Enters(p, f) /\ f \in 1..MaxStart /\ fileName' = f
        /\ serverCounter' = [serverCounter EXCEPT ![f] = @ + 1]
    BY <1>0, <1>3, <2>0, OpenEnters DEF InitOpen
  <2>2. /\ Sharers(f)' = Sharers(f) \cup {p} /\ p \notin Sharers(f)
        /\ serverCounter'[f] = serverCounter[f] + 1
    BY <1>0, <2>1 DEF Enters, TypeOK
  <2>3. Cardinality(Sharers(f)') = Cardinality(Sharers(f)) + 1
    BY <1>n, <2>1, <2>2, FS_AddElement
  <2>4. serverCounter[f] = Cardinality(Sharers(f)) /\ serverCounter[f] > 0
    BY <2>0, <2>1 DEF ExactInv, Exact
  <2>5. serverCounter'[f] = Cardinality(Sharers(f)') /\ serverCounter'[f] > 0
    BY <1>n, <2>1, <2>2, <2>3, <2>4
  <2>6. QED
    BY <2>1, <2>5 DEF Exact
<1>4. CASE InitCreateFails(p) \/ InitOpenFails(p) \/ InitNoDaemon(p)
  BY <1>4 DEF NothingDies, InitCreateFails, InitOpenFails, InitNoDaemon
<1>5. CASE FailDelete(p)
  BY <1>0, <1>5 DEF NothingDies, FailDelete, AloneInv, EarlyAlone, FailedLabel
<1>6. CASE Gone(p)
  <2>1. ~joined[p]
    BY <1>0, <1>6, GoneIsUncounted
  <2>2. \A f \in 1..MaxStart : p \notin Sharers(f)
    BY <2>1 DEF Sharers
  <2>3. ExitProcess(p) /\ UNCHANGED <<fileName, serverCounter>>
    BY <1>6 DEF Gone, Exit, hostVars, mappingVars
  <2>4. \A f \in 1..MaxStart : Sharers(f)' = Sharers(f)
    BY <1>0, <2>2, <2>3, ExitLeaves DEF Leaves
  <2>5. QED
    BY <2>3, <2>4 DEF ExactInv, Exact
<1>7. CASE \E t \in Thread : TerminateBody(p, t)
  <2>0. PICK t \in Thread : TerminateBody(p, t)
    BY <1>7
  <2>a. PICK f : f = structure[p]
    OBVIOUS
  <2>1. joined[p] /\ f \in 1..MaxStart /\ Sharers(f)' = Sharers(f) \ {p}
    BY <1>0, <2>0, <2>a, LeaverJoined, TerminateLeaves DEF Leaves
  <2>2. /\ serverCounter'[f] = serverCounter[f] - 1
        /\ fileName' = IF serverCounter'[f] = 0 THEN 0 ELSE fileName
    BY <1>0, <2>0, <2>a, <2>1 DEF TerminateBody, TypeOK
  <2>3. f = fileName
    BY <2>1, <2>a DEF ExactInv, OneInv, OneMapping
  <2>4. p \in Sharers(f)
    BY <2>1, <2>a DEF Sharers
  <2>5. Cardinality(Sharers(f)') = Cardinality(Sharers(f)) - 1
    BY <1>n, <2>1, <2>4, FS_RemoveElement
  <2>6. serverCounter[f] = Cardinality(Sharers(f)) /\ serverCounter[f] > 0
    BY <2>1, <2>3 DEF ExactInv, Exact
  <2>7. serverCounter'[f] = Cardinality(Sharers(f)') /\ serverCounter'[f] >= 0
    BY <1>n, <2>1, <2>2, <2>5, <2>6
  <2>8. ASSUME NEW g \in 1..MaxStart, g = fileName'
        PROVE  g = f /\ serverCounter'[f] > 0
    <3>1. serverCounter'[f] # 0 /\ g = f
      BY <2>2, <2>3, <2>8
    <3>2. QED
      BY <1>n, <2>1, <2>2, <2>7, <3>1
  <2>9. QED
    BY <2>7, <2>8 DEF Exact
<1>8. QED
  BY <1>1, <1>2, <1>3, <1>4, <1>5, <1>6, <1>7 DEF Notable

LEMMA NextExact ==
  ASSUME NothingDies, ExactInv, [Next]_vars PROVE ExactInv'
<1>1. OneInv' /\ ThreadInv
  BY NextOne DEF NothingDies, UndoneInPeace, ExactInv, OneInv, CountInv, AloneInv,
                 IdentityInv
<1>2. ASSUME Age \/ UNCHANGED vars \/ \E p \in Process : Quiet(p)
      PROVE  Exact'
  <2>1. UNCHANGED <<joined, structure, fileName, serverCounter>>
    BY <1>2 DEF Age, vars, hostVars, mappingVars, processVars, Quiet
  <2>2. QED
    BY <2>1, UnchangedStays DEF ExactInv, Exact, Stays
<1>3. QED
  BY <1>1, <1>2, StepKinds, NotableExact DEF ExactInv

\* serverCounter is exact, and the file exists only while a server uses it, when
\* no process dies and no initialisation fails half way: every server that
\* cs2_terminate_server takes off the counter had been put on it, and once.
THEOREM CounterIsExact ==
  ASSUME NothingDies
  PROVE  Spec => []SharedFileIsCounted
<1>1. Init => ExactInv
  BY InitOne DEF Init, ExactInv, Exact
<1>2. ExactInv => SharedFileIsCounted
  <2>1. ASSUME ExactInv, fileName # 0
        PROVE  /\ serverCounter[fileName] = Cardinality(Sharers(fileName))
               /\ serverCounter[fileName] > 0
    <3>1. fileName \in 1..MaxStart
      BY <2>1 DEF ExactInv, OneInv, CountInv, AloneInv, IdentityInv, ThreadInv, TypeOK
    <3>2. QED
      BY <2>1, <3>1 DEF ExactInv, Exact
  <2>2. QED
    BY <2>1 DEF SharedFileIsCounted, CounterExact, Sharers, ExactInv, OneInv
<1>3. QED
  BY <1>1, <1>2, NextExact, PTL DEF Spec

-----------------------------------------------------------------------------
(* Nobody enters the mapping after its server left.                        *)

\* A server that leaves is past the lock of initialize_server.
PastOpening ==
  \A p \in Process : \A t \in Thread :
    pc[p][t] \in LeftLabel =>
      pc[p]["monitor"] \notin {"init_map", "init_body", "init_release",
                               "fail_release", "abort_release"}

LeaverInv == IdentityInv /\ MutexInv /\ PastOpening

LEMMA QuietPast ==
  ASSUME LeaverInv, NEW p \in Process, Quiet(p) PROVE PastOpening'
<1>. USE Threads
<1>0. ThreadInv
  BY DEF LeaverInv, IdentityInv
<1>1. /\ \A q \in Process \ {p} : pc'[q] = pc[q]
      /\ \A t \in Thread : pc'[p][t] \in LeftLabel <=> pc[p][t] \in LeftLabel
      /\ pc'[p]["monitor"] \in OpenLabel => pc[p]["monitor"] \in OpenLabel
  BY <1>0, QuietLabels DEF Quiet
<1>2. pc'[p]["monitor"] = pc[p]["monitor"]
        \/ Edge(pc[p]["monitor"], pc'[p]["monitor"])
  BY ThreadsAreDistinct DEF Quiet, Moves, Starts
<1>3. pc'[p]["monitor"] \in {"init_release", "fail_release", "abort_release"} =>
        pc'[p]["monitor"] = pc[p]["monitor"]
  BY <1>2 DEF Edge
<1>4. QED
  BY <1>1, <1>3 DEF LeaverInv, PastOpening, OpenLabel

\* The labels of a process after a notable step, for what concerns leaving.
LEMMA NotablePast ==
  ASSUME LeaverInv, NEW p \in Process, Notable(p) PROVE PastOpening'
<1>. USE Threads
<1>0. TypeOK /\ ThreadsAlive /\ IdentityInv
  BY DEF LeaverInv, IdentityInv, ThreadInv
<1>1. CASE Boot(p)
  <2>1. /\ \A q \in Process \ {p} : pc'[q] = pc[q]
        /\ \A t \in Thread \ {"monitor"} : pc'[p][t] = pc[p][t]
        /\ pc'[p]["monitor"] = "init_map" /\ ~Alive(p)
    BY <1>0, <1>1 DEF Boot, Goto, TypeOK
  <2>2. \A t \in Thread : pc'[p][t] \notin LeftLabel
    BY <1>0, <2>1 DEF ThreadsAlive, LeftLabel
  <2>3. QED
    BY <2>1, <2>2 DEF LeaverInv, PastOpening
<1>2. CASE InitCreate(p) \/ InitOpen(p) \/ InitCreateFails(p) \/ InitOpenFails(p)
  <2>1. /\ \A q \in Process \ {p} : pc'[q] = pc[q]
        /\ \A t \in Thread : pc'[p][t] = pc[p][t]
             \/ pc'[p][t] \in {"init_release", "fail_release", "abort_release", "d_new"}
        /\ pc[p]["monitor"] = "init_body"
    <3>1. CASE InitCreate(p)
      <4>1. PICK d \in Daemon :
              pc' = [pc EXCEPT ![p] = [@ EXCEPT !["monitor"] = "init_release",
                                                ![d] = "d_new"]]
        BY <3>1 DEF InitCreate, FreeDaemon
      <4>2. QED
        BY <1>0, <3>1, <4>1, ThreadsAreDistinct DEF InitCreate, MakeFile, TypeOK
    <3>2. CASE InitOpen(p) \/ InitCreateFails(p) \/ InitOpenFails(p)
      BY <1>0, <3>2
         DEF InitOpen, InitCreateFails, InitOpenFails, MakeFile, Step, Goto, TypeOK
    <3>3. QED
      BY <1>2, <3>1, <3>2
  <2>2. \A t \in Thread : pc'[p][t] \notin LeftLabel
    BY <2>1 DEF LeaverInv, PastOpening, LeftLabel
  <2>3. QED
    BY <2>1, <2>2 DEF LeaverInv, PastOpening
<1>3. CASE InitNoDaemon(p) \/ FailDelete(p) \/ Gone(p)
  <2>1. /\ \A q \in Process \ {p} : pc'[q] = pc[q]
        /\ \A t \in Thread : pc'[p][t] = "off"
    BY <1>0, <1>3 DEF InitNoDaemon, FailDelete, Gone, Exit, ExitProcess, TypeOK
  <2>2. QED
    BY <2>1 DEF LeaverInv, PastOpening, LeftLabel
<1>4. CASE MonitorTakeOver(p)
  <2>1. /\ \A q \in Process \ {p} : pc'[q] = pc[q]
        /\ pc'[p]["monitor"] \in {"m_unmap", "t_body"}
    BY <1>0, <1>4, ThreadsAreDistinct
       DEF MonitorTakeOver, TypeOK, FreeDaemon, AfterRound
  <2>2. QED
    BY <2>1 DEF LeaverInv, PastOpening
<1>5. CASE \E d \in Daemon : DaemonUpdate(p, d)
  <2>1. PICK d \in Daemon : Step(p, d, "d_body", "d_unmap")
    BY <1>5 DEF DaemonUpdate
  <2>2. /\ \A q \in Process \ {p} : pc'[q] = pc[q]
        /\ \A t \in Thread \ {d} : pc'[p][t] = pc[p][t]
        /\ pc'[p][d] = "d_unmap" /\ d # "monitor"
    BY <1>0, <2>1, StepChanges, ThreadsAreDistinct
  <2>3. QED
    BY <2>2 DEF LeaverInv, PastOpening, LeftLabel
<1>6. CASE \E t \in Thread : TerminateBody(p, t)
  <2>1. PICK t \in Thread : TerminateBody(p, t)
    BY <1>6
  <2>2. /\ \A q \in Process \ {p} : pc'[q] = pc[q]
        /\ \A u \in Thread \ {t} : \/ pc'[p][u] = pc[p][u]
                                   \/ u = "tcp" /\ pc'[p][u] = "off"
        /\ pc[p][t] = "t_body" /\ pc'[p][t] = "t_release" /\ structure[p] # 0
    BY <1>0, <2>1 DEF TypeOK, TerminateBody
  <2>3. pc[p]["monitor"] \notin OpenLabel
    BY <1>0, <2>2 DEF IdentityInv, Reset
  <2>4. \A u \in Thread \ {t} : ~InMapping(p, u)
    BY <2>2 DEF LeaverInv, MutexInv, SemaphoreMutex, InMapping, Inside
  <2>5. pc'[p]["monitor"] \notin {"init_map", "init_body", "init_release",
                                  "fail_release", "abort_release"}
    BY <2>2, <2>3, <2>4, ThreadsAreDistinct DEF InMapping, Inside, OpenLabel
  <2>6. QED
    BY <2>2, <2>5 DEF LeaverInv, PastOpening
<1>7. QED
  BY <1>1, <1>2, <1>3, <1>4, <1>5, <1>6 DEF Notable

LEMMA NextLeaver ==
  ASSUME SignalsOrFailures, LeaverInv, [Next]_vars PROVE LeaverInv'
<1>1. IdentityInv' /\ MutexInv' /\ ThreadInv
  BY NextIdentity, NextMutex DEF LeaverInv, IdentityInv
<1>2. CASE Age \/ UNCHANGED vars
  <2>1. UNCHANGED pc
    BY <1>2 DEF Age, vars
  <2>2. QED
    BY <1>1, <2>1 DEF LeaverInv, PastOpening
<1>3. QED
  BY <1>1, <1>2, StepKinds, QuietPast, NotablePast DEF LeaverInv

LEMMA InitLeaver == Init => LeaverInv
<1>1. Init => PastOpening
  BY Threads DEF Init, PastOpening, LeftLabel
<1>2. QED
  BY <1>1, InitIdentity, InitMutex DEF LeaverInv

LEMMA LeaverIsOut == ASSUME LeaverInv PROVE LeaverStaysOut
<1>. SUFFICES ASSUME NEW p \in Process, NEW t \in Thread, NEW u \in Thread,
                     pc[p][t] = "t_exit", InMapping(p, u)
              PROVE  FALSE
  BY DEF LeaverStaysOut
<1>1. pc[p][u] \notin ActiveLabel
  <2>1. activeLock[p] = t
    BY DEF LeaverInv, IdentityInv, ThreadInv, HoldsActive, ActiveLabel
  <2>2. pc[p][u] \in ActiveLabel => u = t
    BY <2>1 DEF LeaverInv, IdentityInv, ThreadInv, HoldsActive
  <2>3. QED
    BY <2>2 DEF InMapping, Inside
<1>2. pc[p][u] \in {"init_body", "init_release", "fail_release", "abort_release"}
  BY <1>1 DEF InMapping, Inside, ActiveLabel
<1>3. u = "monitor"
  BY <1>2 DEF LeaverInv, MutexInv, Roles
<1>4. QED
  BY <1>2, <1>3 DEF LeaverInv, PastOpening, LeftLabel

\* Once a thread has left the mapping for its server, no thread of the process
\* enters it again before exit(0) (cs2_terminate_server keeps activeLock), unless
\* signals come together with the failures that terminate a server.
THEOREM LeaverIsLast ==
  ASSUME SignalsOrFailures
  PROVE  Spec => []LeaverStaysOut
BY InitLeaver, NextLeaver, LeaverIsOut, PTL DEF Spec

-----------------------------------------------------------------------------
(* The lock is not lost.                                                   *)

\* No process is killed or interrupted, so none ends between sem_wait and sem_post
\* but for the first server whose create_daemon fails; then none undoes its start.
NobodyDiesInside ==
  /\ Faults \cap {"kill", "ctrlc", "early_ctrlc"} = {}
  /\ "thread" \in Faults => "vanish" \notin Faults

\* The semaphore is at zero only while some live thread is to post it.
LockHeld ==
  semName # 0 /\ semValue[semName] = 0 =>
    \E p \in Process, t \in Thread : mapLock[p] = semName /\ InMapping(p, t)

\* The first server has ended inside: the lock is lost, and nobody enters again.
Stuck ==
  /\ "thread" \in Faults /\ MakerGone
  /\ semName # 0 /\ semValue[semName] = 0
  /\ \A p \in Process : \A t \in Thread : ~InMapping(p, t)

LockInv ==
  /\ LeaverInv /\ AloneInv /\ ("thread" \in Faults => OneName)
  /\ LockHeld \/ Stuck

\* Whoever is to post a semaphore.
Holds(q, g) == mapLock[q] = g /\ \E t \in Thread : InMapping(q, t)

\* A process that keeps its labels keeps its part of the promise.
LEMMA OthersHold ==
  ASSUME LockInv, LockHeld, NEW p \in Process,
         \A q \in Process \ {p} : pc'[q] = pc[q] /\ mapLock'[q] = mapLock[q],
         semName' # 0, semName' = semName, semValue'[semName] = semValue[semName],
         Holds(p, semName) => Holds(p, semName)'
  PROVE  LockHeld'
<1>1. ASSUME semValue'[semName'] = 0
      PROVE  \E q \in Process : \E t \in Thread :
               mapLock'[q] = semName' /\ InMapping(q, t)'
  <2>1. PICK q \in Process : Holds(q, semName)
    BY <1>1 DEF LockInv, LockHeld, Holds
  <2>2. CASE q = p
    BY <2>1, <2>2 DEF Holds
  <2>3. CASE q # p
    BY <2>1, <2>3 DEF Holds, InMapping
  <2>4. QED
    BY <2>2, <2>3
<1>2. QED
  BY <1>1 DEF LockHeld

LEMMA QuietLock ==
  ASSUME LockInv, LockHeld, NEW p \in Process, Quiet(p) PROVE LockHeld'
<1>1. CASE semName' = 0
  BY <1>1 DEF LockHeld
<1>2. CASE semName' # 0
  <2>1. /\ semName' = semName /\ mapLock' = mapLock
        /\ \A q \in Process \ {p} : pc'[q] = pc[q]
        /\ semName \in 1..MaxStart
    BY <1>2 DEF Quiet, processVars, LockInv, AloneInv, IdentityInv, ThreadInv, TypeOK
  <2>2. CASE semName # mapLock[p]
    <3>1. semValue'[semName] = semValue[semName]
      BY <2>1, <2>2 DEF Quiet
    <3>2. QED
      BY <1>2, <2>1, <2>2, <3>1, OthersHold DEF Holds
  <2>3. CASE semName = mapLock[p]
    <3>1. CASE UNCHANGED semValue /\ \A t \in Thread : InMapping(p, t) => InMapping(p, t)'
      <4>1. Holds(p, semName) => Holds(p, semName)'
        BY <2>1, <3>1 DEF Holds
      <4>2. QED
        BY <1>2, <2>1, <3>1, <4>1, OthersHold
    <3>2. CASE semValue'[mapLock[p]] > 0
      BY <2>1, <2>3, <3>2 DEF LockHeld
    <3>3. CASE \E t \in Thread : InMapping(p, t)'
      BY <2>1, <2>3, <3>3 DEF LockHeld
    <3>4. QED
      BY <3>1, <3>2, <3>3 DEF Quiet
  <2>4. QED
    BY <2>2, <2>3
<1>3. QED
  BY <1>1, <1>2

\* A process that ends while none of its threads has the mapping.
LEMMA ExitLock ==
  ASSUME LockInv, LockHeld, NEW p \in Process, ExitProcess(p),
         UNCHANGED <<semName, semValue>>,
         \A t \in Thread : ~InMapping(p, t)
  PROVE  LockHeld'
<1>1. \A q \in Process \ {p} : pc'[q] = pc[q] /\ mapLock'[q] = mapLock[q]
  BY DEF ExitProcess, LockInv, AloneInv, IdentityInv, ThreadInv, TypeOK
<1>2. ~Holds(p, semName)
  BY DEF Holds
<1>3. CASE semName = 0
  BY <1>3 DEF LockHeld
<1>4. QED
  BY <1>1, <1>2, <1>3, OthersHold

\* A step inside the mapping.
LEMMA InsideLock ==
  ASSUME LockInv, LockHeld, NEW p \in Process, UNCHANGED <<semName, semValue, mapLock>>,
         \A q \in Process \ {p} : pc'[q] = pc[q],
         \A t \in Thread : InMapping(p, t) => InMapping(p, t)'
  PROVE  LockHeld'
<1>1. Holds(p, semName) => Holds(p, semName)'
  BY DEF Holds
<1>2. CASE semName = 0
  BY <1>2 DEF LockHeld
<1>3. QED
  BY <1>1, <1>2, OthersHold

LEMMA GoneOutside ==
  ASSUME NobodyDiesInside, LockInv, NEW p \in Process, NEW t \in Thread, Gone(p)
  PROVE  ~InMapping(p, t)
<1>1. CASE pc[p]["monitor"] = "abort_exit"
  BY <1>1, Threads DEF LockInv, AloneInv, EarlyAlone, UndoLabel, InMapping, Inside
<1>2. CASE \E u \in Thread : pc[p][u] = "t_exit"
  BY <1>2, LeaverIsOut DEF LockInv, LeaverStaysOut
<1>3. ASSUME NEW u \in Thread, pc[p][u] = "t_body", structure[p] = 0
      PROVE  FALSE
  <2>1. Alive(p)
    BY <1>3 DEF LockInv, AloneInv, IdentityInv, ThreadInv, ThreadsAlive
  <2>2. pc[p]["monitor"] \in OpenLabel
    BY <1>3, <2>1 DEF LockInv, AloneInv, IdentityInv, Mapped
  <2>3. u # "monitor"
    BY <1>3, <2>2 DEF OpenLabel
  <2>4. QED
    BY <1>3, <2>2, <2>3 DEF LockInv, AloneInv, EarlyAlone, NobodyDiesInside
<1>4. QED
  BY <1>1, <1>2, <1>3 DEF Gone, NobodyDiesInside

\* The first server's create_daemon fails: it ends inside, with the lock.
LEMMA EndsStuck ==
  ASSUME NobodyDiesInside, LockInv, NEW p \in Process, InitNoDaemon(p)
  PROVE  Stuck'
<1>. USE Threads
<1>0. TypeOK /\ MutexInv /\ IdentityInv /\ AloneInv
  BY DEF LockInv, LeaverInv, AloneInv, MutexInv
<1>1. /\ "thread" \in Faults /\ OneName
      /\ pc[p]["monitor"] = "init_body"
  BY DEF InitNoDaemon, LockInv
<1>2. /\ Alive(p) /\ InMapping(p, "monitor") /\ pc[p]["monitor"] \in OpenLabel
  BY <1>1 DEF Alive, InMapping, Inside, OpenLabel
<1>3. /\ mapLock[p] = semName /\ semName # 0 /\ semValue[semName] = 0
  BY <1>0, <1>1, <1>2 DEF OneName, MutexInv, SemaphoreOpen, SemaphoreBinary
<1>4. \A q \in Process, t \in Thread : InMapping(q, t) => q = p
  BY <1>0, <1>1, <1>2 DEF MutexInv, SemaphoreMutex, OneName, ThreadsAlive,
                          InMapping, Inside
<1>5. /\ \A q \in Process \ {p} : pc'[q] = pc[q] /\ structure'[q] = structure[q]
      /\ \A t \in Thread : pc'[p][t] = "off"
      /\ structure'[p] = 0
  BY <1>0 DEF TypeOK, InitNoDaemon, ExitProcess
<1>6. \A q \in Process, t \in Thread : ~InMapping(q, t)'
  BY <1>4, <1>5 DEF InMapping, Inside
<1>7. /\ serial[p] \in 1..MaxStart
      /\ \A q \in Process : structure[q] # serial[p]
  BY <1>0, <1>2, SerialIsFresh
<1>8. fileName' = serial[p] /\ idCounter'[serial[p]] = 0
  BY <1>0, <1>7 DEF InitNoDaemon, NewMapping, TypeOK
<1>9. MakerGone'
  BY <1>5, <1>7, <1>8 DEF MakerGone
<1>10. UNCHANGED <<semName, semValue>>
  BY DEF InitNoDaemon
<1>11. QED
  BY <1>1, <1>3, <1>6, <1>9, <1>10 DEF Stuck

LEMMA NotableLock ==
  ASSUME NobodyDiesInside, LockInv, LockHeld, NEW p \in Process, Notable(p)
  PROVE  LockHeld' \/ Stuck'
<1>. USE Threads
<1>0. TypeOK /\ ThreadInv /\ AloneInv
  BY DEF LockInv, AloneInv, IdentityInv, ThreadInv
<1>1. CASE Boot(p)
  <2>1. /\ \A q \in Process \ {p} : pc'[q] = pc[q] /\ mapLock'[q] = mapLock[q]
        /\ ~Alive(p) /\ starts + 1 \in 1..MaxStart
    BY <1>0, <1>1, MaxStartIsNat DEF Boot, Goto, TypeOK
  <2>2. \A t \in Thread : ~InMapping(p, t)
    BY <1>0, <2>1 DEF ThreadInv, ThreadsAlive, InMapping, Inside
  <2>3. CASE semName = 0
    <3>1. semValue'[semName'] = 1
      BY <1>0, <1>1, <2>1, <2>3 DEF Boot, TypeOK
    <3>2. QED
      BY <3>1 DEF LockHeld
  <2>4. CASE semName # 0
    BY <1>1, <2>1, <2>2, <2>4, OthersHold DEF Boot, Holds
  <2>5. QED
    BY <2>3, <2>4
<1>2. CASE InitCreate(p) \/ InitOpen(p) \/ InitCreateFails(p) \/ InitOpenFails(p)
  <2>1. /\ UNCHANGED <<semName, semValue, mapLock>>
        /\ \A q \in Process \ {p} : pc'[q] = pc[q]
    BY <1>0, <1>2
       DEF InitCreate, InitOpen, InitCreateFails, InitOpenFails, MakeFile, Step,
           Goto, TypeOK
  <2>2. /\ pc'[p]["monitor"] \in {"init_release", "fail_release", "abort_release"}
        /\ \A t \in Thread : t # "monitor" /\ pc'[p][t] # pc[p][t] => pc[p][t] = "off"
    BY <1>0, <1>2, ThreadsAreDistinct
       DEF InitCreate, InitOpen, InitCreateFails, InitOpenFails, MakeFile, Step,
           Goto, FreeDaemon, TypeOK
  <2>3. \A t \in Thread : InMapping(p, t) => InMapping(p, t)'
    BY <2>2 DEF InMapping, Inside
  <2>4. QED
    BY <2>1, <2>3, InsideLock
<1>3. CASE InitNoDaemon(p)
  BY <1>3, EndsStuck
<1>4. CASE FailDelete(p)
  <2>1. \A t \in Thread : ~InMapping(p, t)
    BY <1>0, <1>4 DEF FailDelete, AloneInv, EarlyAlone, UndoLabel, InMapping, Inside
  <2>2. QED
    BY <1>4, <2>1, ExitLock DEF FailDelete
<1>5. CASE Gone(p)
  BY <1>5, GoneOutside, ExitLock DEF Gone, Exit, hostVars
<1>6. CASE MonitorTakeOver(p)
  <2>1. /\ UNCHANGED <<semName, semValue, mapLock>>
        /\ \A q \in Process \ {p} : pc'[q] = pc[q]
        /\ pc'[p]["monitor"] \in {"m_unmap", "t_body"}
        /\ \A t \in Thread : t # "monitor" /\ pc'[p][t] # pc[p][t] => pc[p][t] = "off"
    BY <1>0, <1>6, ThreadsAreDistinct
       DEF MonitorTakeOver, TypeOK, FreeDaemon, AfterRound
  <2>2. \A t \in Thread : InMapping(p, t) => InMapping(p, t)'
    BY <2>1 DEF InMapping, Inside
  <2>3. QED
    BY <2>1, <2>2, InsideLock
<1>7. CASE \E d \in Daemon : DaemonUpdate(p, d)
  <2>1. PICK d \in Daemon : DaemonUpdate(p, d)
    BY <1>7
  <2>2. /\ \A q \in Process \ {p} : pc'[q] = pc[q]
        /\ \A t \in Thread \ {d} : pc'[p][t] = pc[p][t]
        /\ pc'[p][d] = "d_unmap"
    BY <1>0, <2>1, StepChanges DEF DaemonUpdate
  <2>3. \A t \in Thread : InMapping(p, t) => InMapping(p, t)'
    BY <2>2 DEF InMapping, Inside
  <2>4. QED
    BY <2>1, <2>2, <2>3, InsideLock DEF DaemonUpdate, processVars
<1>8. CASE \E t \in Thread : TerminateBody(p, t)
  <2>1. PICK t \in Thread : TerminateBody(p, t)
    BY <1>8
  <2>2. /\ \A q \in Process \ {p} : pc'[q] = pc[q]
        /\ \A u \in Thread \ {t} : \/ pc'[p][u] = pc[p][u]
                                   \/ u = "tcp" /\ pc[p][u] = "accept"
        /\ pc'[p][t] = "t_release"
    BY <1>0, <2>1 DEF TypeOK, TerminateBody
  <2>3. \A u \in Thread : InMapping(p, u) => InMapping(p, u)'
    BY <2>2 DEF InMapping, Inside
  <2>4. QED
    BY <2>1, <2>2, <2>3, InsideLock DEF TerminateBody
<1>9. QED
  BY <1>1, <1>2, <1>3, <1>4, <1>5, <1>6, <1>7, <1>8 DEF Notable

\* Once the lock is lost nobody enters again.
LEMMA QuietStuck ==
  ASSUME LockInv, Stuck, NEW p \in Process, Quiet(p) PROVE Stuck' \/ LockHeld'
<1>1. OneName /\ Alive(p)
  BY DEF Quiet, Stuck, LockInv
<1>2. CASE semName' = 0
  BY <1>2 DEF LockHeld
<1>3. CASE semName' = semName
  <2>1. /\ mapLock[p] = semName /\ mapLock' = mapLock
        /\ \A q \in Process \ {p} : pc'[q] = pc[q]
        /\ UNCHANGED MakerGone
    BY <1>1 DEF OneName, Quiet, processVars, mappingVars, MakerGone
  <2>2. CASE \E t \in Thread : InMapping(p, t)'
    BY <1>3, <2>1, <2>2 DEF LockHeld
  <2>3. CASE semValue'[mapLock[p]] > 0
    BY <1>3, <2>1, <2>3 DEF LockHeld
  <2>4. CASE /\ UNCHANGED semValue
             /\ ~\E t \in Thread : InMapping(p, t)'
    <3>1. \A q \in Process : \A t \in Thread : ~InMapping(q, t)'
      BY <2>1, <2>4 DEF Stuck, InMapping
    <3>2. QED
      BY <1>3, <2>1, <2>4, <3>1 DEF Stuck
  <2>5. QED
    BY <2>2, <2>3, <2>4 DEF Quiet
<1>4. QED
  BY <1>2, <1>3 DEF Quiet

LEMMA NotableStuck ==
  ASSUME NobodyDiesInside, LockInv, Stuck, NEW p \in Process, Notable(p)
  PROVE  Stuck'
<1>. USE Threads
<1>0. TypeOK /\ AloneInv /\ OneName
  BY DEF LockInv, AloneInv, IdentityInv, ThreadInv, Stuck
<1>1. \A t \in Thread : pc[p][t] \notin {"init_body", "m_body", "d_body", "t_body"}
  BY DEF Stuck, InMapping, Inside
<1>2. CASE Boot(p)
  <2>1. /\ UNCHANGED <<semName, semValue, fileName, idCounter, structure>>
        /\ \A q \in Process \ {p} : pc'[q] = pc[q]
        /\ \A t \in Thread \ {"monitor"} : pc'[p][t] = pc[p][t]
        /\ pc'[p]["monitor"] = "init_map"
    BY <1>0, <1>2 DEF Boot, Goto, TypeOK, Stuck, mappingVars
  <2>2. \A q \in Process : \A t \in Thread : ~InMapping(q, t)'
    BY <2>1 DEF Stuck, InMapping, Inside
  <2>3. QED
    BY <2>1, <2>2 DEF Stuck, MakerGone
<1>3. CASE Gone(p)
  <2>1. /\ UNCHANGED <<semName, semValue, fileName, idCounter>>
        /\ \A q \in Process \ {p} : pc'[q] = pc[q] /\ structure'[q] = structure[q]
        /\ \A t \in Thread : pc'[p][t] = "off"
        /\ structure'[p] = 0
    BY <1>0, <1>3 DEF Gone, Exit, ExitProcess, hostVars, mappingVars, TypeOK
  <2>2. \A q \in Process : \A t \in Thread : ~InMapping(q, t)'
    BY <2>1 DEF Stuck, InMapping, Inside
  <2>3. QED
    BY <2>1, <2>2 DEF Stuck, MakerGone
<1>4. ~FailDelete(p)
  BY <1>0 DEF FailDelete, OneName, FailLabel
<1>5. /\ ~InitCreate(p) /\ ~InitCreateFails(p) /\ ~InitNoDaemon(p)
      /\ ~InitOpen(p) /\ ~InitOpenFails(p) /\ ~MonitorTakeOver(p)
      /\ \A d \in Daemon : ~DaemonUpdate(p, d)
      /\ \A t \in Thread : ~TerminateBody(p, t)
  BY <1>1 DEF InitCreate, InitCreateFails, InitNoDaemon, InitOpen, InitOpenFails,
              MakeFile, MonitorTakeOver, DaemonUpdate, TerminateBody, Step
<1>6. QED
  BY <1>2, <1>3, <1>4, <1>5 DEF Notable

LEMMA NextLock ==
  ASSUME NobodyDiesInside, LockInv, [Next]_vars PROVE LockInv'
<1>1. LeaverInv' /\ AloneInv' /\ ThreadInv
  BY NextLeaver, NextAlone DEF NobodyDiesInside, SignalsOrFailures, Interrupts,
                               UndoneInPeace, LockInv, AloneInv, IdentityInv
<1>2. ("thread" \in Faults => OneName)'
  BY NextName DEF NobodyDiesInside, LockInv, LeaverInv
<1>3. CASE Age \/ UNCHANGED vars
  <2>1. UNCHANGED <<semName, semValue, fileName, idCounter, structure, mapLock, pc>>
    BY <1>3 DEF Age, vars, hostVars, mappingVars, processVars
  <2>2. (LockHeld \/ Stuck)'
    BY <2>1 DEF LockInv, LockHeld, Stuck, MakerGone, InMapping
  <2>3. QED
    BY <1>1, <1>2, <2>2 DEF LockInv
<1>4. ASSUME NEW p \in Process, Quiet(p) \/ Notable(p)
      PROVE  (LockHeld \/ Stuck)'
  BY <1>4, QuietLock, NotableLock, QuietStuck, NotableStuck DEF LockInv
<1>5. QED
  BY <1>1, <1>2, <1>3, <1>4, StepKinds DEF LockInv

LEMMA InitLock == Init => LockInv
BY InitLeaver, InitAlone, InitName DEF Init, LockInv, LockHeld

\* The semaphore is at zero only while some live thread is to post it, or the
\* first server has ended inside (exit(0) at server_monitor.c:346), when no process
\* is killed or interrupted: every other path of syncmapping_acquire reaches
\* syncmapping_release. When create_daemon may fail, no first server is assumed to
\* undo its start.
THEOREM LockIsKept ==
  ASSUME NobodyDiesInside
  PROVE  Spec => []LockNotLost
<1>1. LockInv => LockNotLost
  BY DEF LockInv, LockHeld, Stuck, LockNotLost
<1>2. QED
  BY <1>1, InitLock, NextLock, PTL DEF Spec

-----------------------------------------------------------------------------
(* A step of one process leaves the others what they are.                  *)

SameServer(q) ==
  /\ pc'[q] = pc[q] /\ thread'[q] = thread[q] /\ joined'[q] = joined[q]
  /\ ID'[q] = ID[q] /\ structure'[q] = structure[q]

LEMMA OthersSame ==
  ASSUME TypeOK, NEW p \in Process, Quiet(p) \/ Notable(p),
         NEW q \in Process \ {p}
  PROVE  SameServer(q)
<1>1. CASE Quiet(p)
  BY <1>1 DEF Quiet, processVars, SameServer
<1>2. CASE Boot(p)
  BY <1>2 DEF Boot, Goto, TypeOK, SameServer
<1>3. CASE InitCreate(p) \/ InitCreateFails(p)
  BY <1>3 DEF InitCreate, InitCreateFails, MakeFile, Goto, TypeOK, SameServer
<1>4. CASE InitOpen(p) \/ InitOpenFails(p)
  BY <1>4 DEF InitOpen, InitOpenFails, Step, Goto, TypeOK, SameServer
<1>5. CASE InitNoDaemon(p) \/ FailDelete(p) \/ Gone(p)
  <2>1. ExitProcess(p)
    BY <1>5 DEF InitNoDaemon, FailDelete, Gone, Exit
  <2>2. QED
    BY <2>1 DEF ExitProcess, TypeOK, SameServer
<1>6. CASE MonitorTakeOver(p)
  BY <1>6 DEF MonitorTakeOver, TypeOK, SameServer
<1>7. CASE \E d \in Daemon : DaemonUpdate(p, d)
  BY <1>7 DEF DaemonUpdate, Step, Goto, processVars, TypeOK, SameServer
<1>8. CASE \E t \in Thread : TerminateBody(p, t)
  BY <1>8 DEF TerminateBody, TypeOK, SameServer
<1>9. QED
  BY <1>1, <1>2, <1>3, <1>4, <1>5, <1>6, <1>7, <1>8 DEF Notable

\* A process that ends is no server.
LEMMA ExitNoServer ==
  ASSUME TypeOK, NEW p \in Process, ExitProcess(p)
  PROVE  /\ ~joined'[p] /\ structure'[p] = 0
         /\ \A t \in Thread : pc'[p][t] = "off"
BY DEF ExitProcess, TypeOK

\* A file that is made anew is not the file of a server.
LEMMA MakeServers ==
  ASSUME IdentityInv, NEW p \in Process,
         InitCreate(p) \/ InitCreateFails(p) \/ InitNoDaemon(p)
  PROVE  /\ ~joined[p] /\ pc[p]["monitor"] \in OpenLabel /\ Alive(p)
         /\ \A q \in Process : joined[q] =>
              daemonServer'[structure[q]] = daemonServer[structure[q]]
<1>1. pc[p]["monitor"] \in OpenLabel /\ Alive(p) /\ NewMapping(p)
  BY DEF InitCreate, InitCreateFails, InitNoDaemon, MakeFile, OpenLabel, Alive
<1>2. ~joined[p]
  BY <1>1, OpenerIsNew
<1>3. \A f \in 1..MaxStart \ {serial[p]} : daemonServer'[f] = daemonServer[f]
  BY <1>1 DEF NewMapping, IdentityInv, ThreadInv, TypeOK
<1>4. \A q \in Process : joined[q] => structure[q] \in 1..MaxStart \ {serial[p]}
  BY <1>1, SerialIsFresh, JoinedAlive
<1>5. QED
  BY <1>1, <1>2, <1>3, <1>4

-----------------------------------------------------------------------------
(* The server that daemonServer names has a daemon.                        *)

\* The process has no daemon, or one that is on its way out.
NoDaemonRuns(p) ==
  thread[p] = None \/ pc[p][thread[p]] \in {"off", "dq_unmap", "dq_unactive"}

OwnerInv ==
  \A p \in Process :
    joined[p] /\ pc[p]["ctrlc"] = "off" /\ NoDaemonRuns(p) =>
      ID[p] # daemonServer[structure[p]]

LEMMA OwnerStep ==
  ASSUME OwnerInv, NEW p \in Process, \A q \in Process \ {p} : SameServer(q),
         \A q \in Process \ {p} :
           joined[q] /\ ID[q] # daemonServer[structure[q]] =>
             ID[q] # daemonServer'[structure[q]],
         (joined[p] /\ pc[p]["ctrlc"] = "off" /\ NoDaemonRuns(p))' =>
           ID'[p] # daemonServer'[structure'[p]]
  PROVE  OwnerInv'
BY DEF OwnerInv, SameServer, NoDaemonRuns

LEMMA QuietOwner ==
  ASSUME IdentityInv, OwnerInv, NEW p \in Process, Quiet(p) PROVE OwnerInv'
<1>. USE Threads
<1>0. ThreadInv /\ TypeOK
  BY DEF IdentityInv, ThreadInv
<1>1. UNCHANGED <<daemonServer, joined, ID, structure, thread>>
  BY DEF Quiet, mappingVars, processVars
<1>2. ASSUME joined[p], pc'[p]["ctrlc"] = "off", NoDaemonRuns(p)'
      PROVE  ID[p] # daemonServer[structure[p]]
  <2>1. pc[p]["ctrlc"] = "off"
    <3>1. pc[p]["ctrlc"] \in {"off"} \cup TerminateLabel
      BY <1>0, RoleLabels DEF ThreadInv, ThreadRoles
    <3>2. ~Moves(p, "ctrlc") \/ pc[p]["ctrlc"] = "off"
      BY <1>2, <3>1 DEF Moves, Edge, TerminateLabel
    <3>3. QED
      BY <1>2, <3>2 DEF Quiet, Starts
  <2>2. CASE thread[p] = None
    BY <1>2, <2>1, <2>2 DEF OwnerInv, NoDaemonRuns
  <2>3. CASE thread[p] # None
    <3>0. PICK d \in Daemon : d = thread[p]
      BY <1>0, <2>3 DEF TypeOK
    <3>1. pc'[p][d] \in {"off", "dq_unmap", "dq_unactive"}
      BY <1>1, <1>2, <2>3, <3>0 DEF NoDaemonRuns
    <3>2. pc[p][d] \in RoleLabel(d) \cup TerminateLabel
      BY <1>0 DEF ThreadInv, ThreadRoles
    <3>3. ~Starts(p, d)
      BY ThreadsAreDistinct DEF Starts
    <3>4. CASE Moves(p, d)
      <4>1. \/ pc[p][d] \in {"dq_unmap", "dq_unactive"}
            \/ pc[p][d] = "d_idle" /\ pc'[p][d] = "off"
            \/ pc'[p][d] = "dq_unmap"
        BY <3>1, <3>2, <3>4, RoleLabels DEF Moves, Edge, TerminateLabel
      <4>2. QED
        BY <1>2, <2>1, <3>0, <3>4, <4>1 DEF Moves, OwnerInv, NoDaemonRuns
    <3>5. CASE pc'[p][d] = pc[p][d]
      BY <1>2, <2>1, <3>0, <3>1, <3>5 DEF OwnerInv, NoDaemonRuns
    <3>6. QED
      BY <3>3, <3>4, <3>5 DEF Quiet
  <2>4. QED
    BY <2>2, <2>3
<1>3. \A q \in Process \ {p} : SameServer(q)
  BY <1>0, OthersSame
<1>4. QED
  BY <1>1, <1>2, <1>3, OwnerStep

LEMMA NotableOwner ==
  ASSUME IdentityInv, OwnerInv, NEW p \in Process, Notable(p) PROVE OwnerInv'
<1>. USE Threads
<1>0. TypeOK /\ ThreadInv
  BY DEF IdentityInv, ThreadInv
<1>s. \A q \in Process \ {p} : SameServer(q)
  BY <1>0, OthersSame
<1>i. \A q \in Process : ID[q] \in Nat
  BY <1>0, MappingTypes
<1>1. CASE Boot(p)
  <2>1. UNCHANGED <<daemonServer, joined>> /\ ~joined[p]
    BY <1>1 DEF Boot, mappingVars, IdentityInv, Reset
  <2>2. QED
    BY <1>s, <2>1, OwnerStep
<1>2. CASE InitCreate(p)
  <2>1. thread'[p] # None /\ pc'[p][thread'[p]] = "d_new"
    BY <1>0, <1>2, ThreadsAreDistinct DEF InitCreate, FreeDaemon, TypeOK
  <2>2. ~NoDaemonRuns(p)'
    BY <2>1 DEF NoDaemonRuns
  <2>3. QED
    BY <1>2, <1>s, <2>2, MakeServers, OwnerStep
<1>3. CASE InitCreateFails(p)
  <2>1. ~joined'[p]
    BY <1>3, MakeServers DEF InitCreateFails
  <2>2. QED
    BY <1>3, <1>s, <2>1, MakeServers, OwnerStep
<1>4. CASE InitNoDaemon(p)
  <2>1. ~joined'[p]
    BY <1>0, <1>4, ExitNoServer DEF InitNoDaemon
  <2>2. QED
    BY <1>4, <1>s, <2>1, MakeServers, OwnerStep
<1>5. CASE InitOpen(p)
  <2>1. /\ fileName \in 1..MaxStart /\ UNCHANGED daemonServer
        /\ structure'[p] = fileName
        /\ ID'[p] = idCounter'[fileName]
        /\ idCounter'[fileName] = idCounter[fileName] + 1
    BY <1>0, <1>5 DEF InitOpen, Enrol, TypeOK
  <2>2. daemonServer[fileName] <= idCounter[fileName]
    BY <2>1 DEF IdentityInv, Drawn
  <2>3. daemonServer[fileName] \in Int /\ idCounter[fileName] \in Nat
    BY <1>0, <2>1, MappingTypes
  <2>4. ID'[p] # daemonServer'[structure'[p]]
    BY <2>1, <2>2, <2>3
  <2>5. QED
    BY <1>s, <2>1, <2>4, OwnerStep
<1>6. CASE InitOpenFails(p)
  <2>1. UNCHANGED <<daemonServer, joined>> /\ pc[p]["monitor"] \in OpenLabel
    BY <1>6 DEF InitOpenFails, Enrol, mappingVars, Step, OpenLabel
  <2>2. ~joined'[p]
    BY <2>1, OpenerIsNew
  <2>3. QED
    BY <1>s, <2>1, <2>2, OwnerStep
<1>7. CASE FailDelete(p) \/ Gone(p)
  <2>1. ExitProcess(p) /\ UNCHANGED daemonServer
    BY <1>7 DEF FailDelete, Gone, Exit, hostVars, mappingVars
  <2>2. ~joined'[p]
    BY <1>0, <2>1, ExitNoServer
  <2>3. QED
    BY <1>s, <2>1, <2>2, OwnerStep
<1>8. CASE MonitorTakeOver(p)
  <2>1. thread'[p] # None /\ pc'[p][thread'[p]] = "d_new"
    BY <1>0, <1>8, ThreadsAreDistinct
       DEF MonitorTakeOver, FreeDaemon, AfterRound, TypeOK
  <2>2. ~NoDaemonRuns(p)'
    BY <2>1 DEF NoDaemonRuns
  <2>3. joined[p]
    BY <1>8, RoundJoined DEF MonitorTakeOver
  <2>4. \A f \in 1..MaxStart :
          daemonServer'[f] = IF f = structure[p] THEN ID[p] ELSE daemonServer[f]
    BY <1>0, <1>8 DEF MonitorTakeOver, TypeOK
  <2>5. ASSUME NEW q \in Process \ {p}, joined[q],
               ID[q] # daemonServer[structure[q]]
        PROVE  ID[q] # daemonServer'[structure[q]]
    BY <2>3, <2>4, <2>5, JoinedAlive DEF IdentityInv, DistinctIDs
  <2>6. QED
    BY <1>s, <2>2, <2>5, OwnerStep
<1>9. CASE \E d \in Daemon : DaemonUpdate(p, d)
  <2>1. PICK d \in Daemon : DaemonUpdate(p, d)
    BY <1>9
  <2>2. /\ \A t \in Thread \ {d} : pc'[p][t] = pc[p][t]
        /\ pc[p][d] = "d_body" /\ pc'[p][d] = "d_unmap"
        /\ UNCHANGED <<daemonServer, joined, ID, structure, thread>>
    BY <1>0, <2>1, StepChanges DEF DaemonUpdate, processVars
  <2>3. NoDaemonRuns(p)' => NoDaemonRuns(p)
    BY <1>0, <2>2 DEF NoDaemonRuns, TypeOK
  <2>4. pc'[p]["ctrlc"] = pc[p]["ctrlc"]
    BY <2>2, ThreadsAreDistinct
  <2>5. QED
    BY <1>s, <2>2, <2>3, <2>4, OwnerStep DEF OwnerInv
<1>10. CASE \E t \in Thread : TerminateBody(p, t)
  <2>1. ~joined'[p]
    BY <1>0, <1>10 DEF TerminateBody, TypeOK
  <2>2. \A f \in 1..MaxStart : daemonServer'[f] \in {daemonServer[f], -1}
    BY <1>0, <1>10 DEF TerminateBody, TypeOK
  <2>3. ASSUME NEW q \in Process, joined[q], ID[q] # daemonServer[structure[q]]
        PROVE  ID[q] # daemonServer'[structure[q]]
    <3>1. structure[q] \in 1..MaxStart
      BY <2>3, JoinedAlive
    <3>2. ID[q] # -1
      BY <1>i
    <3>3. QED
      BY <2>2, <2>3, <3>1, <3>2
  <2>4. QED
    BY <1>s, <2>1, <2>3, OwnerStep
<1>11. QED
  BY <1>1, <1>2, <1>3, <1>4, <1>5, <1>6, <1>7, <1>8, <1>9, <1>10 DEF Notable

LEMMA NextOwner ==
  ASSUME IdentityInv, OwnerInv, [Next]_vars PROVE OwnerInv'
<1>1. ThreadInv
  BY DEF IdentityInv
<1>2. CASE Age \/ UNCHANGED vars
  <2>1. UNCHANGED <<daemonServer, joined, ID, structure, thread, pc>>
    BY <1>2 DEF Age, vars, hostVars, mappingVars, processVars
  <2>2. QED
    BY <2>1 DEF OwnerInv, NoDaemonRuns
<1>3. QED
  BY <1>1, <1>2, StepKinds, QuietOwner, NotableOwner

\* A server that daemonServer names has a daemon thread, unless SIGINT stopped
\* its sleep and the process is leaving: a monitor never replaces its own
\* (must_start_daemon), and a daemon returns only when another server owns it.
THEOREM OwnerKeepsDaemon == Spec => []OwnerHasDaemon
<1>1. Init => OwnerInv
  BY DEF Init, OwnerInv
<1>2. OwnerInv => OwnerHasDaemon
  BY DEF OwnerInv, OwnerHasDaemon, NoDaemonRuns
<1>3. QED
  BY <1>1, <1>2, InitIdentity, NextIdentity, NextOwner, PTL DEF Spec

-----------------------------------------------------------------------------
(* Only a process that has mapped a file runs a daemon.                    *)

DaemonsMapped ==
  \A p \in Process : \A d \in Daemon : structure[p] = 0 => pc[p][d] = "off"

LEMMA DaemonsStayMapped ==
  ASSUME IdentityInv, DaemonsMapped, [Next]_vars PROVE DaemonsMapped'
<1>. USE Threads, ThreadsAreDistinct
<1>0. TypeOK /\ ThreadInv
  BY DEF IdentityInv, ThreadInv
<1>1. CASE Age \/ UNCHANGED vars
  BY <1>1 DEF Age, vars, processVars, DaemonsMapped
<1>2. ASSUME NEW p \in Process, Quiet(p) \/ Notable(p),
             structure'[p] # 0 \/ \A d \in Daemon : pc'[p][d] = "off"
      PROVE  DaemonsMapped'
  BY <1>0, <1>2, OthersSame DEF SameServer, DaemonsMapped
<1>3. ASSUME NEW p \in Process, Quiet(p) PROVE DaemonsMapped'
  <2>1. \A d \in Daemon : ~Starts(p, d)
    BY DEF Starts
  <2>2. \A d \in Daemon : pc[p][d] = "off" => ~Moves(p, d)
    BY DEF Moves, Edge
  <2>3. \A d \in Daemon : pc[p][d] = "off" => pc'[p][d] = "off"
    BY <1>3, <2>1, <2>2 DEF Quiet
  <2>4. UNCHANGED structure
    BY <1>3 DEF Quiet, processVars
  <2>5. QED
    BY <1>2, <1>3, <2>3, <2>4 DEF DaemonsMapped
<1>4. ASSUME NEW p \in Process, Notable(p) PROVE DaemonsMapped'
  <2>1. CASE Boot(p)
    <3>1. UNCHANGED structure /\ \A d \in Daemon : pc'[p][d] = pc[p][d]
      BY <1>0, <2>1 DEF Boot, Goto, TypeOK
    <3>2. QED
      BY <1>2, <1>4, <3>1 DEF DaemonsMapped
  <2>2. CASE InitCreate(p) \/ InitCreateFails(p)
    <3>1. MakeFile(p)
      BY <2>2 DEF InitCreate, InitCreateFails
    <3>2. structure'[p] = serial[p] /\ pc[p]["monitor"] \in OpenLabel
      BY <1>0, <3>1 DEF MakeFile, TypeOK, OpenLabel
    <3>3. QED
      BY <1>2, <1>4, <3>2, SerialIsFresh
  <2>3. CASE InitOpen(p) \/ InitOpenFails(p)
    <3>1. structure'[p] = fileName /\ fileName # 0
      BY <1>0, <2>3 DEF InitOpen, InitOpenFails, TypeOK
    <3>2. QED
      BY <1>2, <1>4, <3>1
  <2>4. CASE InitNoDaemon(p) \/ FailDelete(p) \/ Gone(p)
    BY <1>0, <1>2, <1>4, <2>4, ExitNoServer
       DEF InitNoDaemon, FailDelete, Gone, Exit
  <2>5. CASE MonitorTakeOver(p)
    <3>1. structure[p] \in 1..MaxStart /\ UNCHANGED structure
      BY <2>5, RoundJoined, JoinedAlive DEF MonitorTakeOver
    <3>2. QED
      BY <1>2, <1>4, <3>1
  <2>6. CASE \E d \in Daemon : DaemonUpdate(p, d)
    <3>1. structure[p] # 0 /\ UNCHANGED structure
      BY <2>6 DEF DaemonUpdate, Step, processVars, DaemonsMapped
    <3>2. QED
      BY <1>2, <1>4, <3>1
  <2>7. CASE \E t \in Thread : TerminateBody(p, t)
    BY <1>2, <1>4, <2>7 DEF TerminateBody
  <2>8. QED
    BY <1>4, <2>1, <2>2, <2>3, <2>4, <2>5, <2>6, <2>7 DEF Notable
<1>5. QED
  BY <1>0, <1>1, <1>3, <1>4, StepKinds

\* A daemon that checks the mapping works for a server that is counted.
LEMMA DaemonJoined ==
  ASSUME AloneInv, DaemonsMapped, NEW p \in Process, NEW d \in Daemon,
         pc[p][d] \in {"d_map", "d_body", "d_unmap", "d_unactive"}
  PROVE  joined[p]
<1>1. structure[p] # 0 /\ d \in Thread \ {"monitor"}
  BY Threads, ThreadsAreDistinct DEF DaemonsMapped
<1>2. pc[p]["monitor"] \notin UndoLabel
  BY <1>1 DEF AloneInv, EarlyAlone
<1>3. QED
  BY <1>1, <1>2, ActiveJoined DEF AloneInv, ActiveLabel, LeftLabel

-----------------------------------------------------------------------------
(* Refinement: the processes implement DaemonOwnership.                    *)

GroupInv == OneInv /\ DaemonsMapped

\* The server daemonServer names, as a set with one element at most.
Named ==
  {p \in Members : fileName # 0 /\ structure[p] = fileName
                                /\ ID[p] = daemonServer[fileName]}

\* What the abstract variable late is.
GroupLate == fileName # 0 /\ late[fileName]

OwnerOf(named) == IF named = {} THEN None ELSE CHOOSE p \in named : TRUE

LEMMA OwnerNamed == Owner = OwnerOf(Named) /\ Owner' = OwnerOf(Named')
BY DEF Owner, Named, OwnerOf

LEMMA OwnerOfOne ==
  /\ OwnerOf({}) = None
  /\ \A p : OwnerOf({p}) = p
BY DEF OwnerOf

LEMMA GroupFacts ==
  ASSUME GroupInv
  PROVE  /\ IdentityInv /\ OneMapping /\ TypeOK /\ AloneInv /\ DistinctIDs
         /\ ThreadInv /\ CountInv
BY DEF GroupInv, OneInv, CountInv, AloneInv, IdentityInv, ThreadInv

\* Nobody or one member is named.
LEMMA OneIsNamed ==
  ASSUME GroupInv
  PROVE  Named = {} \/ \E p \in Members : Named = {p} /\ Owner = p
<1>1. \A p, q \in Named : p = q
  BY GroupFacts DEF Named, Members, DistinctIDs
<1>2. ASSUME NEW p \in Named PROVE Named = {p} /\ p \in Members
  BY <1>1 DEF Named
<1>3. QED
  BY <1>2, OwnerNamed, OwnerOfOne

LEMMA MembersShare ==
  ASSUME GroupInv, NEW p \in Members
  PROVE  /\ fileName \in 1..MaxStart /\ structure[p] = fileName /\ Alive(p)
         /\ p \in Process /\ joined[p]
BY GroupFacts, JoinedAlive DEF Members, OneMapping

\* A step that moves neither servers nor the mapping.
LEMMA GroupStutters ==
  ASSUME UNCHANGED <<fileName, daemonServer, late, joined, structure, ID>>
  PROVE  UNCHANGED Ownership!ownershipVars
<1>1. UNCHANGED <<Members, Owner>>
  BY DEF Members, Owner
<1>2. QED
  BY <1>1 DEF Ownership!ownershipVars

\* The first server, and the file of one that could not start its daemon.
LEMMA CreateFounds ==
  ASSUME GroupInv, NEW p \in Process, InitCreate(p) PROVE Ownership!Found(p)
<1>0. TypeOK /\ IdentityInv
  BY GroupFacts
<1>1. pc[p]["monitor"] \in OpenLabel /\ fileName = 0
  BY DEF InitCreate, MakeFile, OpenLabel
<1>2. PICK f \in 1..MaxStart : f = serial[p]
  BY <1>0, <1>1, SerialIsFresh
<1>3. /\ joined' = [joined EXCEPT ![p] = TRUE]
      /\ structure' = [structure EXCEPT ![p] = f]
      /\ UNCHANGED ID /\ fileName' = f /\ f # 0
      /\ daemonServer' = [daemonServer EXCEPT ![f] = 0]
      /\ late' = [late EXCEPT ![f] = TRUE]
  BY <1>2 DEF InitCreate, MakeFile, NewMapping
<1>4. Members = {} /\ ID[p] = 0
  BY <1>0, <1>1, MembersShare DEF IdentityInv, Reset
<1>5. Members' = {p}
  BY <1>0, <1>3, <1>4 DEF Members, TypeOK
<1>6. Named' = {p}
  BY <1>0, <1>3, <1>4, <1>5 DEF Named, TypeOK
<1>7. Owner' = p
  BY <1>6, OwnerNamed, OwnerOfOne
<1>8. (fileName # 0 /\ late[fileName])' = TRUE
  BY <1>0, <1>3 DEF TypeOK
<1>9. QED
  BY <1>4, <1>5, <1>7, <1>8 DEF Ownership!Found

LEMMA NoDaemonAges ==
  ASSUME GroupInv, NEW p \in Process, InitNoDaemon(p) PROVE Ownership!Age
<1>0. TypeOK /\ IdentityInv
  BY GroupFacts
<1>1. pc[p]["monitor"] \in OpenLabel /\ fileName = 0
  BY DEF InitNoDaemon, OpenLabel
<1>2. PICK f \in 1..MaxStart : f = serial[p]
  BY <1>0, <1>1, SerialIsFresh
<1>3. /\ fileName' = f /\ late' = [late EXCEPT ![f] = TRUE] /\ ExitProcess(p)
  BY <1>2 DEF InitNoDaemon, NewMapping
<1>4. Members = {} /\ Members' = {}
  <2>1. Members = {}
    BY <1>1, MembersShare
  <2>2. Members' \subseteq Members
    BY <1>0, <1>3 DEF Members, ExitProcess, TypeOK
  <2>3. QED
    BY <2>1, <2>2
<1>5. Named = {} /\ Named' = {}
  BY <1>4 DEF Named
<1>6. Owner' = Owner
  BY <1>5, OwnerNamed
<1>7. (fileName # 0 /\ late[fileName])' = TRUE
  BY <1>0, <1>3 DEF TypeOK
<1>8. QED
  BY <1>1, <1>4, <1>6, <1>7 DEF Ownership!Age

LEMMA OpenJoins ==
  ASSUME GroupInv, NEW p \in Process, InitOpen(p) PROVE Ownership!Join(p)
<1>0. TypeOK /\ IdentityInv
  BY GroupFacts
<1>1. pc[p]["monitor"] \in OpenLabel /\ fileName # 0
  BY DEF InitOpen, Step, OpenLabel
<1>2. PICK f \in 1..MaxStart : f = fileName
  BY <1>0, <1>1 DEF TypeOK
<1>3. /\ joined' = [joined EXCEPT ![p] = TRUE]
      /\ structure' = [structure EXCEPT ![p] = f]
      /\ ID' = [ID EXCEPT ![p] = idCounter'[f]] /\ fileName' = f
      /\ idCounter' = [idCounter EXCEPT ![f] = @ + 1]
      /\ UNCHANGED daemonServer
      /\ late' = [late EXCEPT ![f] = FALSE]
  BY <1>2 DEF InitOpen, Enrol
<1>4. p \notin Members
  BY <1>0, <1>1, OpenerIsNew DEF Members
<1>5. Members' = Members \cup {p}
  BY <1>0, <1>3 DEF Members, TypeOK
<1>6. ID'[p] # daemonServer[f]
  <2>1. daemonServer[f] <= idCounter[f]
    BY <1>0 DEF IdentityInv, Drawn
  <2>2. daemonServer[f] \in Int /\ idCounter[f] \in Nat
    BY <1>0, MappingTypes
  <2>3. ID'[p] = idCounter[f] + 1
    BY <1>0, <1>3 DEF TypeOK
  <2>4. QED
    BY <2>1, <2>2, <2>3
<1>7. Named' = Named
  <2>1. \A q \in Members : structure'[q] = structure[q] /\ ID'[q] = ID[q]
    BY <1>0, <1>3, <1>4 DEF Members, TypeOK
  <2>2. QED
    BY <1>2, <1>3, <1>5, <1>6, <2>1 DEF Named
<1>8. Owner' = Owner
  BY <1>7, OwnerNamed
<1>9. (fileName # 0 /\ late[fileName])' = FALSE
  BY <1>0, <1>3 DEF TypeOK
<1>10. QED
  BY <1>4, <1>5, <1>8, <1>9 DEF Ownership!Join

LEMMA FailVisits ==
  ASSUME GroupInv, NEW p \in Process, InitOpenFails(p)
  PROVE  Ownership!Visit \/ UNCHANGED Ownership!ownershipVars
<1>0. TypeOK /\ IdentityInv
  BY GroupFacts
<1>1. pc[p]["monitor"] \in OpenLabel /\ fileName # 0
  BY DEF InitOpenFails, Step, OpenLabel
<1>2. /\ UNCHANGED <<fileName, daemonServer, joined, ID>>
      /\ \A q \in Process \ {p} : structure'[q] = structure[q]
      /\ late' = [late EXCEPT ![fileName] = FALSE] \/ UNCHANGED late
  BY <1>0 DEF InitOpenFails, Enrol, mappingVars, TypeOK
<1>3. p \notin Members
  BY <1>0, <1>1, OpenerIsNew DEF Members
<1>4. Members' = Members
  BY <1>2 DEF Members
<1>5. Named' = Named
  <2>1. \A q \in Members : structure'[q] = structure[q]
    BY <1>2, <1>3 DEF Members
  <2>2. QED
    BY <1>2, <1>4, <2>1 DEF Named
<1>6. Owner' = Owner
  BY <1>5, OwnerNamed
<1>7. CASE UNCHANGED late
  BY <1>2, <1>4, <1>6, <1>7 DEF Ownership!ownershipVars
<1>8. CASE late' = [late EXCEPT ![fileName] = FALSE]
  <2>1. (fileName # 0 /\ late[fileName])' = FALSE
    BY <1>0, <1>1, <1>2, <1>8 DEF TypeOK
  <2>2. QED
    BY <1>4, <1>6, <2>1 DEF Ownership!Visit
<1>9. QED
  BY <1>2, <1>7, <1>8

\* A server that is gone, in a step that leaves the mapping alone.
LEMMA GoneLeaves ==
  ASSUME GroupInv, NEW p \in Process, Gone(p)
  PROVE  Ownership!Leave(p) \/ UNCHANGED Ownership!ownershipVars
<1>0. TypeOK /\ IdentityInv
  BY GroupFacts
<1>1. /\ UNCHANGED <<fileName, daemonServer, late>>
      /\ \A q \in Process \ {p} : /\ joined'[q] = joined[q] /\ ID'[q] = ID[q]
                                  /\ structure'[q] = structure[q]
      /\ ~joined'[p]
  BY <1>0 DEF Gone, Exit, ExitProcess, hostVars, mappingVars, TypeOK
<1>2. Members' = Members \ {p}
  BY <1>1 DEF Members
<1>3. Named' = Named \ {p}
  BY <1>1, <1>2 DEF Named, Members
<1>4. (fileName # 0 /\ late[fileName])' = (fileName # 0 /\ late[fileName])
  BY <1>1
<1>5. CASE p \notin Members
  <2>1. Named' = Named /\ Members' = Members
    BY <1>2, <1>3, <1>5 DEF Named
  <2>2. QED
    BY <1>4, <2>1, OwnerNamed DEF Ownership!ownershipVars
<1>6. CASE p \in Members
  <2>1. Owner' = IF Owner = p THEN None ELSE Owner
    <3>1. CASE Named = {}
      BY <1>3, <3>1, OwnerNamed, OwnerOfOne
    <3>2. CASE \E q \in Members : Named = {q} /\ Owner = q
      BY <1>3, <3>2, OwnerNamed, OwnerOfOne
    <3>3. QED
      BY <3>1, <3>2, OneIsNamed
  <2>2. QED
    BY <1>2, <1>4, <1>6, <2>1 DEF Ownership!Leave
<1>7. QED
  BY <1>5, <1>6

LEMMA TakesOver ==
  ASSUME GroupInv, NEW p \in Process, MonitorTakeOver(p)
  PROVE  Ownership!TakeOver(p)
<1>0. TypeOK /\ IdentityInv /\ DistinctIDs
  BY GroupFacts
<1>1. p \in Members
  BY <1>0, RoundJoined DEF MonitorTakeOver, Members
<1>2. PICK f \in 1..MaxStart : f = fileName /\ structure[p] = f /\ f # 0
  BY <1>1, MembersShare
<1>3. /\ UNCHANGED <<fileName, late, joined, structure, ID>>
      /\ daemonServer' = [daemonServer EXCEPT ![f] = ID[p]]
  BY <1>2 DEF MonitorTakeOver
<1>4. Members' = Members
  BY <1>3 DEF Members
<1>5. Named' = {p}
  <2>1. daemonServer'[f] = ID[p]
    BY <1>0, <1>3 DEF TypeOK
  <2>2. \A q \in Members : structure[q] = f
    BY <1>2, MembersShare
  <2>3. \A q \in Members : ID[q] = ID[p] => q = p
    BY <1>0, <1>1, <1>2, <2>2 DEF Members, DistinctIDs
  <2>4. QED
    BY <1>1, <1>2, <1>3, <1>4, <2>1, <2>2, <2>3 DEF Named
<1>6. Owner' = p
  BY <1>5, OwnerNamed, OwnerOfOne
<1>7. Owner # p /\ (Owner = None \/ late[f])
  <2>1. ID[p] # -1
    <3>1. ID[p] \in Nat
      BY <1>0, <1>1, MappingTypes DEF Members
    <3>2. QED
      BY <3>1
  <2>2. CASE daemonServer[f] = -1
    <3>1. \A q \in Members : ID[q] # -1
      <4>1. \A q \in Members : ID[q] \in Nat
        BY <1>0, MappingTypes DEF Members
      <4>2. QED
        BY <4>1
    <3>2. Named = {}
      BY <1>2, <2>2, <3>1 DEF Named
    <3>3. QED
      BY <1>1, <3>2, OwnerNamed, OwnerOfOne, NoneIsNoProcess DEF Members
  <2>3. CASE ID[p] # daemonServer[f] /\ late[f]
    <3>1. p \notin Named
      BY <1>2, <2>3 DEF Named
    <3>2. Owner # p
      <4>1. Owner = None \/ Owner \in Named
        BY OneIsNamed, OwnerNamed, OwnerOfOne
      <4>2. QED
        BY <1>1, <3>1, <4>1, NoneIsNoProcess DEF Members
    <3>3. QED
      BY <2>3, <3>2
  <2>4. QED
    BY <1>2, <2>2, <2>3 DEF MonitorTakeOver, MustTakeOver
<1>8. (fileName # 0 /\ late[fileName])' = (fileName # 0 /\ late[fileName])
  BY <1>3
<1>9. QED
  BY <1>1, <1>2, <1>4, <1>6, <1>7, <1>8 DEF Ownership!TakeOver

LEMMA OwnerUpdates ==
  ASSUME GroupInv, NEW p \in Process, NEW d \in Daemon, DaemonUpdate(p, d)
  PROVE  Ownership!Update
<1>0. TypeOK /\ IdentityInv /\ DistinctIDs /\ AloneInv
  BY GroupFacts
<1>1. p \in Members
  BY <1>0, DaemonJoined DEF DaemonUpdate, Step, Members, GroupInv
<1>2. PICK f \in 1..MaxStart : f = fileName /\ structure[p] = f /\ f # 0
  BY <1>1, MembersShare
<1>3. /\ UNCHANGED <<fileName, daemonServer, joined, structure, ID>>
      /\ late' = [late EXCEPT ![f] = FALSE] /\ ID[p] = daemonServer[f]
  BY <1>2 DEF DaemonUpdate, processVars
<1>4. p \in Named
  BY <1>1, <1>2, <1>3 DEF Named
<1>5. Owner \in Members
  BY <1>4, OneIsNamed
<1>6. UNCHANGED <<Members, Owner>>
  BY <1>3 DEF Members, Owner
<1>7. (fileName # 0 /\ late[fileName])' = FALSE
  BY <1>0, <1>2, <1>3 DEF TypeOK
<1>8. QED
  BY <1>5, <1>6, <1>7 DEF Ownership!Update

LEMMA BodyLeaves ==
  ASSUME GroupInv, GroupInv', NEW p \in Process, NEW t \in Thread,
         TerminateBody(p, t)
  PROVE  Ownership!Leave(p)
<1>0. TypeOK /\ IdentityInv /\ AloneInv
  BY GroupFacts
<1>1. p \in Members
  BY <1>0, LeaverJoined DEF Members
<1>2. PICK f \in 1..MaxStart : f = fileName /\ structure[p] = f /\ f # 0
  BY <1>1, MembersShare
<1>3. /\ UNCHANGED <<structure, ID, late>>
      /\ joined' = [joined EXCEPT ![p] = FALSE]
      /\ daemonServer' = [daemonServer EXCEPT ![f] = IF @ = ID[p] THEN -1 ELSE @]
      /\ fileName' \in {0, f}
  BY <1>2 DEF TerminateBody
<1>4. Members' = Members \ {p}
  BY <1>0, <1>3 DEF Members, TypeOK
<1>5. CASE fileName' = f
  <2>1. daemonServer'[f] = IF daemonServer[f] = ID[p] THEN -1 ELSE daemonServer[f]
    BY <1>0, <1>3 DEF TypeOK
  <2>2. \A q \in Members : ID[q] # -1
    <3>1. \A q \in Members : ID[q] \in Nat
      BY <1>0, MappingTypes DEF Members
    <3>2. QED
      BY <3>1
  <2>3. Named' = Named \ {p}
    <3>1. CASE daemonServer[f] = ID[p]
      <4>1. Named = {p}
        BY <1>1, <1>2, <3>1, OneIsNamed DEF Named
      <4>2. Named' = {}
        BY <1>3, <1>4, <1>5, <2>1, <2>2, <3>1 DEF Named
      <4>3. QED
        BY <4>1, <4>2
    <3>2. CASE daemonServer[f] # ID[p]
      BY <1>2, <1>3, <1>4, <1>5, <2>1, <3>2 DEF Named
    <3>3. QED
      BY <3>1, <3>2
  <2>4. Owner' = IF Owner = p THEN None ELSE Owner
    <3>1. CASE Named = {}
      BY <2>3, <3>1, OwnerNamed, OwnerOfOne
    <3>2. CASE \E q \in Members : Named = {q} /\ Owner = q
      BY <2>3, <3>2, OwnerNamed, OwnerOfOne
    <3>3. QED
      BY <3>1, <3>2, OneIsNamed
  <2>5. (fileName # 0 /\ late[fileName])' = (fileName # 0 /\ late[fileName])
    BY <1>2, <1>3, <1>5
  <2>6. QED
    BY <1>1, <1>4, <2>4, <2>5 DEF Ownership!Leave
<1>6. CASE fileName' = 0
  <2>1. Members' = {}
    <3>1. \A q \in Members' : fileName' \in 1..MaxStart
      <4>1. IdentityInv' /\ OneMapping'
        BY DEF GroupInv, OneInv, CountInv, AloneInv
      <4>2. \A q \in Process : joined'[q] => structure'[q] \in 1..MaxStart
        <5>1. \A q \in Process : structure'[q] \in 0..MaxStart
          BY <4>1 DEF IdentityInv, ThreadInv, TypeOK
        <5>2. \A q \in Process : joined'[q] => structure'[q] # 0
          BY <4>1 DEF IdentityInv, Reset, Mapped
        <5>3. QED
          BY <5>1, <5>2, MaxStartIsNat
      <4>3. QED
        BY <4>1, <4>2 DEF Members, OneMapping
    <3>2. QED
      BY <1>6, <3>1
  <2>2. Owner' = None
    <3>1. Named' = {}
      BY <2>1 DEF Named
    <3>2. QED
      BY <3>1, OwnerNamed, OwnerOfOne
  <2>3. Owner = p \/ Owner = None
    <3>1. Members = {p}
      BY <1>1, <1>4, <2>1
    <3>2. QED
      BY <3>1, OneIsNamed, OwnerNamed, OwnerOfOne
  <2>4. (fileName # 0 /\ late[fileName])' = FALSE
    BY <1>6
  <2>5. QED
    BY <1>1, <1>4, <2>1, <2>2, <2>3, <2>4 DEF Ownership!Leave
<1>7. QED
  BY <1>3, <1>5, <1>6

LEMMA GroupAges == ASSUME GroupInv, Age PROVE Ownership!Age
<1>0. TypeOK
  BY GroupFacts
<1>1. PICK f \in 1..MaxStart : f = fileName /\ f # 0 /\ ~late[f]
  BY <1>0 DEF Age, TypeOK
<1>2. /\ UNCHANGED <<fileName, daemonServer, joined, structure, ID>>
      /\ late' = [late EXCEPT ![f] = TRUE]
  BY <1>1 DEF Age, processVars
<1>3. UNCHANGED <<Members, Owner>>
  BY <1>2 DEF Members, Owner
<1>4. (fileName # 0 /\ late[fileName])' = TRUE
  BY <1>0, <1>1, <1>2 DEF TypeOK
<1>5. QED
  BY <1>1, <1>3, <1>4 DEF Ownership!Age

\* Every step of the processes is a step of the group, or leaves it alone.
LEMMA GroupSteps ==
  ASSUME "vanish" \notin Faults, GroupInv, GroupInv', [Next]_vars
  PROVE  [Ownership!Next]_(Ownership!ownershipVars)
<1>1. ThreadInv /\ AloneInv
  BY GroupFacts
<1>2. CASE UNCHANGED vars
  BY <1>2, GroupStutters DEF vars, hostVars, mappingVars, processVars
<1>3. CASE Age
  BY <1>3, GroupAges DEF Ownership!Next
<1>4. ASSUME NEW p \in Process, Quiet(p) \/ Boot(p)
      PROVE  UNCHANGED Ownership!ownershipVars
  BY <1>4, GroupStutters DEF Quiet, Boot, mappingVars, processVars
<1>5. ASSUME NEW p \in Process, Notable(p)
      PROVE  [Ownership!Next]_(Ownership!ownershipVars)
  <2>1. CASE InitCreateFails(p) \/ FailDelete(p)
    BY <1>1, <2>1 DEF InitCreateFails, FailDelete, AloneInv, EarlyAlone, FailedLabel
  <2>2. CASE InitCreate(p) \/ InitOpen(p) \/ InitNoDaemon(p) \/ MonitorTakeOver(p)
    BY <2>2, CreateFounds, OpenJoins, NoDaemonAges, TakesOver DEF Ownership!Next
  <2>3. CASE InitOpenFails(p) \/ Gone(p)
    BY <2>3, FailVisits, GoneLeaves DEF Ownership!Next
  <2>4. CASE \E d \in Daemon : DaemonUpdate(p, d)
    BY <2>4, OwnerUpdates DEF Ownership!Next
  <2>5. CASE \E t \in Thread : TerminateBody(p, t)
    BY <2>5, BodyLeaves DEF Ownership!Next
  <2>6. QED
    BY <1>4, <1>5, <2>1, <2>2, <2>3, <2>4, <2>5 DEF Notable
<1>6. QED
  BY <1>1, <1>2, <1>3, <1>4, <1>5, StepKinds

LEMMA GroupStarts == Init => Ownership!Init
<1>. SUFFICES ASSUME Init PROVE Ownership!Init
  OBVIOUS
<1>1. Members = {} /\ Named = {} /\ fileName = 0
  BY DEF Init, Members, Named
<1>2. Owner = None
  BY <1>1, OwnerNamed, OwnerOfOne
<1>3. QED
  BY <1>1, <1>2 DEF Ownership!Init

LEMMA NextGroup ==
  ASSUME UndoneInPeace, "vanish" \notin Faults, GroupInv, [Next]_vars
  PROVE  GroupInv'
<1>1. OneInv' /\ IdentityInv
  BY NextOne, GroupFacts DEF GroupInv
<1>2. QED
  BY <1>1, DaemonsStayMapped DEF GroupInv

LEMMA InitGroup == Init => GroupInv
BY InitOne DEF Init, GroupInv, DaemonsMapped, Thread

\* The processes, with their locks, IDs and counters, implement the ownership of
\* one daemon by a group of servers: whoever joins, leaves, dies or is slow, the
\* daemon changes hands only when its owner left or the mapping is late, and only
\* its owner refreshes the mapping (server_monitor.c, server_commons.c). No first
\* server undoes its start, and no SIGINT meets the undoing of another's.
THEOREM OwnershipIsImplemented ==
  ASSUME UndoneInPeace, "vanish" \notin Faults
  PROVE  Spec => ImplementsOwnership
<1>1. GroupInv /\ [Next]_vars => GroupInv'
  BY NextGroup
<1>2. GroupInv /\ GroupInv' /\ [Next]_vars =>
        [Ownership!Next]_(Ownership!ownershipVars)
  BY GroupSteps
<1>3. QED
  BY <1>1, <1>2, InitGroup, GroupStarts, PTL
     DEF Spec, ImplementsOwnership, Ownership!OwnershipSpec

-----------------------------------------------------------------------------
(* A daemon that was replaced never updates the mapping.                   *)

\* A daemon that has not been told to quit, and one past its first update.
ServingLabel == {"d_new", "d_idle", "d_map", "d_body", "d_unmap", "d_unactive"}

FreshLabel == {"d_idle", "d_unmap", "d_unactive"}

\* The server owns the daemon and the mapping is up to date.
OwnsFresh(p) ==
  ID[p] = daemonServer[structure[p]] /\ ~late[structure[p]]

NewestServes ==
  \A p \in Process : \A d \in Daemon : pc[p][d] \in ServingLabel => d = thread[p]

ServesFresh ==
  \A p \in Process : \A d \in Daemon :
    joined[p] /\ pc[p][d] \in FreshLabel => OwnsFresh(p)

NoneIsNew ==
  \A p \in Process : \A d \in Daemon :
    pc[p]["monitor"] \in {"m_map", "m_body"} => pc[p][d] # "d_new"

ServingInv == GroupInv /\ NewestServes /\ ServesFresh /\ NoneIsNew

LEMMA ServingStep ==
  ASSUME ServingInv, GroupInv', NEW p \in Process, Quiet(p) \/ Notable(p),
         \A q \in Process \ {p} : joined[q] /\ OwnsFresh(q) => OwnsFresh(q)',
         \A d \in Daemon :
           /\ pc'[p][d] \in ServingLabel => d = thread'[p]
           /\ joined'[p] /\ pc'[p][d] \in FreshLabel => OwnsFresh(p)'
           /\ pc'[p]["monitor"] \in {"m_map", "m_body"} => pc'[p][d] # "d_new"
  PROVE  ServingInv'
<1>1. \A q \in Process \ {p} : SameServer(q)
  BY GroupFacts, OthersSame DEF ServingInv
<1>2. NewestServes' /\ NoneIsNew'
  BY <1>1 DEF ServingInv, NewestServes, NoneIsNew, SameServer
<1>3. ServesFresh'
  BY <1>1 DEF ServingInv, ServesFresh, SameServer
<1>4. QED
  BY <1>2, <1>3 DEF ServingInv

LEMMA QuietServing ==
  ASSUME "slow" \notin Faults, ServingInv, GroupInv', NEW p \in Process, Quiet(p)
  PROVE  ServingInv'
<1>. USE Threads, ThreadsAreDistinct
<1>1. UNCHANGED <<daemonServer, late, joined, ID, structure, thread>>
  BY DEF Quiet, mappingVars, processVars
<1>2. \A q \in Process : OwnsFresh(q) => OwnsFresh(q)'
  BY <1>1 DEF OwnsFresh
<1>3. ASSUME NEW d \in Daemon
      PROVE  /\ pc'[p][d] \in ServingLabel => pc[p][d] \in ServingLabel
             /\ pc'[p][d] \in FreshLabel => pc[p][d] \in FreshLabel
             /\ pc'[p][d] = "d_new" => pc[p][d] = "d_new"
  <2>1. ~Starts(p, d)
    BY DEF Starts
  <2>2. CASE Moves(p, d)
    BY <2>2 DEF Moves, Edge, ServingLabel, FreshLabel
  <2>3. QED
    BY <2>1, <2>2 DEF Quiet
<1>4. pc'[p]["monitor"] \in {"m_map", "m_body"} =>
        \A d \in Daemon : pc[p][d] # "d_new"
  <2>1. ~Starts(p, "monitor")
    BY DEF Starts
  <2>2. CASE Moves(p, "monitor") /\ pc'[p]["monitor"] \in {"m_map", "m_body"}
    <3>1. pc[p]["monitor"] \in {"m_idle", "m_map"}
      BY <2>2 DEF Moves, Edge
    <3>2. CASE pc[p]["monitor"] = "m_idle"
      BY <2>2, <3>2 DEF Moves, Edge
    <3>3. CASE pc[p]["monitor"] = "m_map"
      BY <3>3 DEF ServingInv, NoneIsNew
    <3>4. QED
      BY <3>1, <3>2, <3>3
  <2>3. QED
    BY <2>1, <2>2 DEF Quiet, ServingInv, NoneIsNew
<1>5. QED
  BY <1>1, <1>2, <1>3, <1>4, ServingStep DEF ServingInv, NewestServes, ServesFresh

\* A process that has not opened the mapping has no daemon.
LEMMA OpenerHasNone ==
  ASSUME GroupInv, NEW p \in Process, NEW d \in Daemon,
         pc[p]["monitor"] \in OpenLabel \/ ~Alive(p)
  PROVE  pc[p][d] = "off"
BY GroupFacts DEF GroupInv, DaemonsMapped, IdentityInv, Reset

\* A server must not take over while a daemon of some server is up to date.
LEMMA FreshKeepsOwner ==
  ASSUME ServingInv, NEW p \in Process, MonitorTakeOver(p),
         NEW q \in Process, joined[q]
  PROVE  ~OwnsFresh(q)
<1>1. joined[p] /\ structure[p] = structure[q]
  BY GroupFacts, RoundJoined, MembersShare
     DEF ServingInv, MonitorTakeOver, Members
<1>2. ID[q] # -1
  <2>1. ID[q] \in Nat
    BY GroupFacts, MappingTypes DEF ServingInv
  <2>2. QED
    BY <2>1
<1>3. QED
  BY <1>1, <1>2 DEF MonitorTakeOver, MustTakeOver, OwnsFresh

LEMMA TakeOverServing ==
  ASSUME ServingInv, GroupInv', NEW p \in Process, MonitorTakeOver(p)
  PROVE  ServingInv'
<1>. USE Threads, ThreadsAreDistinct
<1>0. TypeOK /\ IdentityInv /\ ThreadInv
  BY GroupFacts DEF ServingInv
<1>1. joined[p] /\ pc[p]["monitor"] = "m_body"
  BY <1>0, RoundJoined DEF MonitorTakeOver
<1>2. ASSUME NEW d \in Daemon PROVE pc[p][d] \notin ServingLabel
  <2>1. pc[p][d] \notin ActiveLabel
    BY <1>0, <1>1 DEF ThreadInv, HoldsActive, ActiveLabel
  <2>2. pc[p][d] # "d_new"
    BY <1>1 DEF ServingInv, NoneIsNew
  <2>3. pc[p][d] # "d_idle"
    BY <1>1, FreshKeepsOwner DEF ServingInv, ServesFresh, FreshLabel
  <2>4. QED
    BY <2>1, <2>2, <2>3 DEF ServingLabel, ActiveLabel
<1>3. PICK d \in Daemon, next \in {"m_unmap", "t_body"} :
        /\ thread' = [thread EXCEPT ![p] = d]
        /\ pc' = [pc EXCEPT ![p] = [@ EXCEPT !["monitor"] = next, ![d] = "d_new"]]
  BY DEF MonitorTakeOver, FreeDaemon, AfterRound
<1>4. /\ thread'[p] = d /\ pc'[p]["monitor"] = next /\ pc'[p][d] = "d_new"
      /\ \A e \in Daemon \ {d} : pc'[p][e] = pc[p][e]
  BY <1>0, <1>3 DEF TypeOK
<1>5. \A e \in Daemon :
        /\ pc'[p][e] \in ServingLabel => e = thread'[p]
        /\ pc'[p][e] \notin FreshLabel
        /\ pc'[p]["monitor"] \notin {"m_map", "m_body"}
  BY <1>2, <1>4 DEF FreshLabel, ServingLabel
<1>6. QED
  BY <1>5, FreshKeepsOwner, ServingStep DEF Notable

LEMMA UpdateServing ==
  ASSUME ServingInv, GroupInv', NEW p \in Process, NEW d \in Daemon,
         DaemonUpdate(p, d)
  PROVE  ServingInv'
<1>. USE Threads, ThreadsAreDistinct
<1>0. TypeOK /\ AloneInv
  BY GroupFacts DEF ServingInv
<1>1. joined[p] /\ structure[p] \in 1..MaxStart
  BY <1>0, DaemonJoined, MembersShare
     DEF DaemonUpdate, Step, ServingInv, GroupInv, Members
<1>2. /\ UNCHANGED <<daemonServer, joined, ID, structure, thread>>
      /\ \A f \in 1..MaxStart : late'[f] = (f # structure[p] /\ late[f])
      /\ ID[p] = daemonServer[structure[p]]
  BY <1>0, <1>1 DEF DaemonUpdate, processVars, TypeOK
<1>3. /\ \A t \in Thread \ {d} : pc'[p][t] = pc[p][t]
      /\ pc[p][d] = "d_body" /\ pc'[p][d] = "d_unmap"
  BY <1>0, StepChanges DEF DaemonUpdate
<1>4. OwnsFresh(p)'
  BY <1>1, <1>2 DEF OwnsFresh
<1>5. \A q \in Process \ {p} : joined[q] /\ OwnsFresh(q) => OwnsFresh(q)'
  BY <1>2, MembersShare DEF OwnsFresh, ServingInv, Members
<1>6. \A e \in Daemon :
        /\ pc'[p][e] \in ServingLabel => e = thread'[p]
        /\ pc'[p]["monitor"] \in {"m_map", "m_body"} => pc'[p][e] # "d_new"
  BY <1>2, <1>3 DEF ServingInv, NewestServes, NoneIsNew, ServingLabel
<1>7. QED
  BY <1>4, <1>5, <1>6, ServingStep DEF Notable

LEMMA TerminateServing ==
  ASSUME ServingInv, GroupInv', NEW p \in Process, NEW t \in Thread,
         TerminateBody(p, t)
  PROVE  ServingInv'
<1>. USE Threads, ThreadsAreDistinct
<1>0. TypeOK /\ AloneInv /\ IdentityInv /\ DistinctIDs
  BY GroupFacts DEF ServingInv
<1>1. joined[p] /\ ~joined'[p] /\ UNCHANGED <<late, ID, structure, thread>>
  BY <1>0, LeaverJoined DEF TerminateBody, TypeOK
<1>2. \A f \in 1..MaxStart :
        daemonServer'[f] = IF f = structure[p] /\ daemonServer[f] = ID[p]
                             THEN -1 ELSE daemonServer[f]
  BY <1>0 DEF TerminateBody, TypeOK
<1>3. ASSUME NEW q \in Process \ {p}, joined[q], OwnsFresh(q)
      PROVE  OwnsFresh(q)'
  <2>1. structure[q] \in 1..MaxStart
    BY <1>0, <1>3, JoinedAlive
  <2>2. structure[q] = structure[p] => ID[q] # ID[p]
    BY <1>0, <1>1, <1>3 DEF DistinctIDs
  <2>3. QED
    BY <1>1, <1>2, <1>3, <2>1, <2>2 DEF OwnsFresh
<1>4. \A d \in Thread : \/ pc'[p][d] = pc[p][d]
                        \/ pc'[p][d] = "t_release"
                        \/ d = "tcp"
  BY <1>0 DEF TerminateBody, TypeOK
<1>5. \A d \in Daemon :
        /\ pc'[p][d] \in ServingLabel => d = thread'[p]
        /\ pc'[p]["monitor"] \in {"m_map", "m_body"} => pc'[p][d] # "d_new"
  BY <1>1, <1>4 DEF ServingInv, NewestServes, NoneIsNew, ServingLabel
<1>6. QED
  BY <1>1, <1>3, <1>5, ServingStep DEF Notable

LEMMA NotableServing ==
  ASSUME "vanish" \notin Faults, ServingInv, GroupInv', NEW p \in Process,
         Notable(p)
  PROVE  ServingInv'
<1>. USE Threads, ThreadsAreDistinct
<1>0. TypeOK /\ AloneInv /\ IdentityInv /\ GroupInv
  BY GroupFacts DEF ServingInv
<1>1. CASE Boot(p)
  <2>1. /\ UNCHANGED <<daemonServer, late, ID, structure, joined>>
        /\ pc'[p]["monitor"] = "init_map"
        /\ \A d \in Daemon : pc'[p][d] = pc[p][d]
    BY <1>0, <1>1 DEF Boot, Goto, mappingVars, TypeOK
  <2>2. \A d \in Daemon : pc'[p][d] = "off"
    BY <1>0, <1>1, <2>1, OpenerHasNone DEF Boot
  <2>3. QED
    BY <2>1, <2>2, ServingStep DEF Notable, OwnsFresh, ServingLabel, FreshLabel
<1>2. CASE InitCreate(p) \/ InitNoDaemon(p)
  <2>1. NewMapping(p) /\ pc[p]["monitor"] \in OpenLabel
    BY <1>2 DEF InitCreate, InitNoDaemon, MakeFile, OpenLabel
  <2>2. ASSUME NEW q \in Process \ {p}, joined[q], OwnsFresh(q)
        PROVE  OwnsFresh(q)'
    <3>1. SameServer(q) /\ structure[q] \in 1..MaxStart \ {serial[p]}
      BY <1>0, <1>2, <2>1, <2>2, OthersSame, JoinedAlive, SerialIsFresh DEF Notable
    <3>2. \A f \in 1..MaxStart \ {serial[p]} :
            daemonServer'[f] = daemonServer[f] /\ late'[f] = late[f]
      BY <1>0, <2>1 DEF NewMapping, TypeOK
    <3>3. QED
      BY <2>2, <3>1, <3>2 DEF OwnsFresh, SameServer
  <2>3. \A d \in Daemon : pc[p][d] = "off"
    BY <1>0, <2>1, OpenerHasNone
  <2>4. CASE InitCreate(p)
    <3>1. PICK d \in Daemon :
            /\ thread' = [thread EXCEPT ![p] = d]
            /\ pc' = [pc EXCEPT ![p] = [@ EXCEPT !["monitor"] = "init_release",
                                                 ![d] = "d_new"]]
      BY <2>4 DEF InitCreate, FreeDaemon
    <3>2. /\ thread'[p] = d /\ pc'[p]["monitor"] = "init_release"
          /\ pc'[p][d] = "d_new"
          /\ \A e \in Daemon \ {d} : pc'[p][e] = pc[p][e]
      BY <1>0, <3>1 DEF TypeOK
    <3>3. \A e \in Daemon :
            /\ pc'[p][e] \in ServingLabel => e = thread'[p]
            /\ pc'[p][e] \notin FreshLabel
      BY <2>3, <3>2 DEF ServingLabel, FreshLabel
    <3>4. QED
      BY <2>2, <2>4, <3>2, <3>3, ServingStep DEF Notable
  <2>5. CASE InitNoDaemon(p)
    <3>1. \A t \in Thread : pc'[p][t] = "off"
      BY <1>0, <2>5, ExitNoServer DEF InitNoDaemon
    <3>2. QED
      BY <2>2, <2>5, <3>1, ServingStep DEF Notable, ServingLabel, FreshLabel
  <2>6. QED
    BY <1>2, <2>4, <2>5
<1>3. CASE InitOpen(p) \/ InitOpenFails(p)
  <2>1. /\ fileName \in 1..MaxStart /\ UNCHANGED daemonServer
        /\ late' = [late EXCEPT ![fileName] = FALSE] \/ UNCHANGED late
        /\ pc[p]["monitor"] \in OpenLabel
    BY <1>0, <1>3
       DEF InitOpen, InitOpenFails, Enrol, mappingVars, Step, OpenLabel, TypeOK
  <2>2. ASSUME NEW q \in Process \ {p}, joined[q], OwnsFresh(q)
        PROVE  OwnsFresh(q)'
    <3>1. SameServer(q) /\ structure[q] \in 1..MaxStart
      BY <1>0, <1>3, <2>2, OthersSame, JoinedAlive DEF Notable
    <3>2. \A f \in 1..MaxStart : late'[f] = TRUE => late[f] = TRUE
      BY <1>0, <2>1 DEF TypeOK
    <3>3. late'[structure[q]] \in BOOLEAN /\ late[structure[q]] \in BOOLEAN
      BY <1>0, <2>1, <3>1 DEF TypeOK
    <3>4. QED
      BY <2>1, <2>2, <3>1, <3>2, <3>3 DEF OwnsFresh, SameServer
  <2>3. \A d \in Daemon : pc'[p][d] = "off"
    <3>1. \A t \in Thread \ {"monitor"} : pc'[p][t] = pc[p][t]
      BY <1>0, <1>3 DEF InitOpen, InitOpenFails, Step, Goto, TypeOK
    <3>2. QED
      BY <1>0, <2>1, <3>1, OpenerHasNone
  <2>4. QED
    BY <1>3, <2>2, <2>3, ServingStep DEF Notable, ServingLabel, FreshLabel
<1>4. CASE InitCreateFails(p)
  BY <1>4 DEF InitCreateFails
<1>5. CASE FailDelete(p) \/ Gone(p)
  <2>1. ExitProcess(p) /\ UNCHANGED <<daemonServer, late>>
    BY <1>5 DEF FailDelete, Gone, Exit, hostVars, mappingVars
  <2>2. \A t \in Thread : pc'[p][t] = "off"
    BY <1>0, <2>1, ExitNoServer
  <2>3. \A q \in Process \ {p} : joined[q] /\ OwnsFresh(q) => OwnsFresh(q)'
    BY <1>0, <1>5, <2>1, OthersSame DEF Notable, SameServer, OwnsFresh
  <2>4. QED
    BY <1>5, <2>2, <2>3, ServingStep DEF Notable, ServingLabel, FreshLabel
<1>6. QED
  BY <1>1, <1>2, <1>3, <1>4, <1>5, TakeOverServing, UpdateServing,
     TerminateServing DEF Notable

\* Time passes.
LEMMA AgeServing ==
  ASSUME "slow" \notin Faults, ServingInv, GroupInv', Age PROVE ServingInv'
<1>0. TypeOK
  BY GroupFacts DEF ServingInv
<1>1. UNCHANGED <<daemonServer, joined, ID, structure, thread, pc>>
  BY DEF Age, processVars
<1>2. ASSUME NEW p \in Process, NEW d \in Daemon, joined[p],
             pc[p][d] \in FreshLabel
      PROVE  OwnsFresh(p)'
  <2>1. OwnsFresh(p) /\ d = thread[p]
    BY <1>2 DEF ServingInv, ServesFresh, NewestServes, FreshLabel, ServingLabel
  <2>2. structure[p] = fileName
    BY <1>2, MembersShare DEF ServingInv, Members
  <2>3. thread[p] # None /\ pc[p][thread[p]] # "off"
    BY <1>2, <2>1, ThreadsAreDistinct, Threads DEF FreshLabel
  <2>4. DaemonRuns(fileName)
    BY <1>2, <2>1, <2>2, <2>3 DEF DaemonRuns, OwnsFresh
  <2>5. QED
    BY <2>4 DEF Age
<1>3. NewestServes' /\ NoneIsNew'
  BY <1>1 DEF ServingInv, NewestServes, NoneIsNew
<1>4. ServesFresh'
  BY <1>1, <1>2 DEF ServesFresh
<1>5. QED
  BY <1>3, <1>4 DEF ServingInv

LEMMA NextServing ==
  ASSUME UndoneInPeace, "vanish" \notin Faults, "slow" \notin Faults,
         ServingInv, [Next]_vars
  PROVE  ServingInv'
<1>1. GroupInv' /\ ThreadInv
  BY NextGroup, GroupFacts DEF ServingInv
<1>2. CASE UNCHANGED vars
  <2>1. UNCHANGED <<daemonServer, late, joined, ID, structure, thread, pc>>
    BY <1>2 DEF vars, hostVars, mappingVars, processVars
  <2>2. QED
    BY <1>1, <2>1 DEF ServingInv, NewestServes, NoneIsNew, ServesFresh, OwnsFresh
<1>3. QED
  BY <1>1, <1>2, StepKinds, QuietServing, NotableServing, AgeServing

\* Only the daemon a process created last updates the mapping (do_work, against
\* must_start_daemon), when no daemon that is alive is late, no first server undoes
\* its start and no SIGINT meets the undoing of another's: a server that has
\* updated the mapping once keeps the daemon, so nobody replaces its thread.
THEOREM OnlyNewestUpdates ==
  ASSUME UndoneInPeace, "vanish" \notin Faults, "slow" \notin Faults
  PROVE  Spec => []ReplacedDaemonQuits
<1>1. Init => ServingInv
  BY InitGroup, Threads
     DEF Init, ServingInv, NewestServes, ServesFresh, NoneIsNew, ServingLabel,
         FreshLabel
<1>2. ServingInv => ReplacedDaemonQuits
  BY DEF ServingInv, NewestServes, ReplacedDaemonQuits, ServingLabel
<1>3. QED
  BY <1>1, <1>2, NextServing, PTL DEF Spec
=============================================================================
