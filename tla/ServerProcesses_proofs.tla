----------------------- MODULE ServerProcesses_proofs -----------------------
(***************************************************************************)
(* ServerProcesses, proved for any number of processes, handlers, daemons  *)
(* and starts: types, mutual exclusion in the mapping, and what a process  *)
(* knows of the mapping it shares: the fields of its server agree with     *)
(* where its threads are, and the IDs of servers that share a file differ. *)
(*                                                                         *)
(* The second half and DaemonOwnership_proofs share one lemma, StepKinds:  *)
(* a step is a Quiet one, of the threads of one process, or one of the     *)
(* actions that change the mapping or what the process knows of it.        *)
(***************************************************************************)
EXTENDS ServerProcesses, FiniteSetTheorems, TLAPS

-----------------------------------------------------------------------------
(* Type correctness.                                                       *)

\* The initial state has the right types.
LEMMA InitType == Init => TypeOK
BY MaxStartIsNat DEF Init, TypeOK, Label

LEMMA TakeActiveType ==
  ASSUME TypeOK, NEW p \in Process, NEW t \in Thread, NEW from \in Label,
         NEW to \in Label, TakeActive(p, t, from, to)
  PROVE  TypeOK'
BY DEF TypeOK, TakeActive, Step, Goto, hostVars, mappingVars, processVars

LEMMA DropActiveType ==
  ASSUME TypeOK, NEW p \in Process, NEW t \in Thread, NEW from \in Label,
         NEW to \in Label, DropActive(p, t, from, to)
  PROVE  TypeOK'
BY DEF TypeOK, DropActive, Step, Goto, hostVars, mappingVars, processVars

LEMMA SemPostType ==
  ASSUME TypeOK, NEW p \in Process, NEW t \in Thread, NEW from \in Label,
         NEW to \in Label, SemPost(p, t, from, to)
  PROVE  TypeOK'
<1>1. semValue' \in [1..MaxStart -> Nat]
  <2>1. CASE mapLock[p] \in 1..MaxStart
    <3>1. semValue[mapLock[p]] + 1 \in Nat
      BY <2>1 DEF TypeOK, SemPost
    <3>2. QED
      BY <2>1, <3>1 DEF TypeOK, SemPost
  <2>2. CASE mapLock[p] \notin 1..MaxStart
    BY <2>2 DEF TypeOK, SemPost
  <2>3. QED
    BY <2>1, <2>2
<1>2. pc' \in [Process -> [Thread -> Label]]
  BY DEF TypeOK, SemPost, Step, Goto
<1>3. QED
  BY <1>1, <1>2 DEF TypeOK, SemPost, mappingVars, processVars

LEMMA SemWaitType ==
  ASSUME TypeOK, NEW p \in Process, NEW t \in Thread, NEW from \in Label,
         NEW to \in Label, SemWait(p, t, from, to)
  PROVE  TypeOK'
<1>1. semValue' \in [1..MaxStart -> Nat]
  <2>1. CASE mapLock[p] \in 1..MaxStart
    <3>1. semValue[mapLock[p]] - 1 \in Nat
      BY <2>1 DEF TypeOK, SemWait
    <3>2. QED
      BY <2>1, <3>1 DEF TypeOK, SemWait
  <2>2. CASE mapLock[p] \notin 1..MaxStart
    BY <2>2 DEF TypeOK, SemWait
  <2>3. QED
    BY <2>1, <2>2
<1>2. pc' \in [Process -> [Thread -> Label]]
  BY DEF TypeOK, SemWait, Step, Goto
<1>3. QED
  BY <1>1, <1>2 DEF TypeOK, SemWait, mappingVars, processVars

LEMMA TakeCrType ==
  ASSUME TypeOK, NEW p \in Process, NEW t \in Thread, NEW from \in Label,
         NEW to \in Label, TakeCr(p, t, from, to)
  PROVE  TypeOK'
BY DEF TypeOK, TakeCr, Step, Goto, hostVars, mappingVars, processVars

LEMMA DropCrType ==
  ASSUME TypeOK, NEW p \in Process, NEW t \in Thread, NEW from \in Label,
         NEW to \in Label, DropCr(p, t, from, to)
  PROVE  TypeOK'
BY DEF TypeOK, DropCr, Step, Goto, hostVars, mappingVars, processVars

LEMMA LocalType ==
  ASSUME TypeOK, NEW p \in Process, NEW t \in Thread, NEW from \in Label,
         NEW to \in Label, Local(p, t, from, to)
  PROVE  TypeOK'
BY DEF TypeOK, Local, Step, Goto, hostVars, mappingVars, processVars

LEMMA OffIsLabel == "off" \in Label
BY DEF Label

\* Whatever a process does to the shared objects when it goes, it keeps their
\* types, and the rest of its own state is reset.
HostTypeOK ==
  /\ semName \in 0..MaxStart /\ semValue \in [1..MaxStart -> Nat]
  /\ fileName \in 0..MaxStart
  /\ serverCounter \in [1..MaxStart -> Int]
  /\ idCounter \in [1..MaxStart -> Nat]
  /\ daemonServer \in [1..MaxStart -> Int]
  /\ late \in [1..MaxStart -> BOOLEAN]

LEMMA ExitType ==
  ASSUME TypeOK, NEW p \in Process, ExitProcess(p), HostTypeOK'
  PROVE  TypeOK'
<1>1. pc' \in [Process -> [Thread -> Label]]
  BY OffIsLabel DEF TypeOK, ExitProcess
<1>2. /\ serial' \in [Process -> 0..MaxStart]
      /\ mapLock' \in [Process -> 0..MaxStart]
      /\ structure' \in [Process -> 0..MaxStart]
  BY MaxStartIsNat DEF TypeOK, ExitProcess
<1>3. /\ ID' \in [Process -> Nat]
      /\ thread' \in [Process -> Daemon \cup {None}]
      /\ joined' \in [Process -> BOOLEAN]
      /\ activeLock' \in [Process -> Thread \cup {None}]
      /\ crLock' \in [Process -> Thread \cup {None}]
      /\ starts' \in 0..MaxStart
  BY DEF TypeOK, ExitProcess
<1>4. QED
  BY <1>1, <1>2, <1>3 DEF TypeOK, HostTypeOK

\* The labels the program uses are labels.
LEMMA Labels ==
  /\ "init_map" \in Label /\ "init_body" \in Label
  /\ "init_release" \in Label /\ "fail_release" \in Label
  /\ "fail_unlink" \in Label /\ "fail_delete" \in Label
  /\ "abort_release" \in Label /\ "abort_exit" \in Label
  /\ "startup" \in Label /\ "spin" \in Label /\ "m_idle" \in Label
  /\ "m_map" \in Label /\ "m_body" \in Label /\ "m_unmap" \in Label
  /\ "m_unactive" \in Label /\ "m_cr" \in Label /\ "m_send" \in Label
  /\ "accept" \in Label /\ "h_cr" \in Label /\ "h_command" \in Label
  /\ "h_active" \in Label /\ "h_map" \in Label /\ "h_body" \in Label
  /\ "h_unmap" \in Label /\ "h_unactive" \in Label /\ "h_reply" \in Label
  /\ "d_new" \in Label /\ "d_idle" \in Label /\ "d_map" \in Label
  /\ "d_body" \in Label /\ "d_unmap" \in Label /\ "d_unactive" \in Label
  /\ "dq_unmap" \in Label /\ "dq_unactive" \in Label
  /\ "t_active" \in Label /\ "t_map" \in Label /\ "t_body" \in Label
  /\ "t_release" \in Label /\ "t_exit" \in Label /\ "off" \in Label
BY DEF Label, Inside, MapWait

\* The threads of a process, by role.
LEMMA Threads ==
  /\ {"monitor", "tcp", "ctrlc"} \subseteq Thread
  /\ Handler \subseteq Thread /\ Daemon \subseteq Thread
BY DEF Thread

\* Starting a process keeps the types.
LEMMA BootType == ASSUME TypeOK, NEW p \in Process, Boot(p) PROVE TypeOK'
<1>1. starts + 1 \in 0..MaxStart /\ starts + 1 \in 1..MaxStart
  BY MaxStartIsNat DEF TypeOK, Boot
<1>2. pc' \in [Process -> [Thread -> Label]]
  BY Labels, Threads DEF TypeOK, Boot, Goto
<1>3. semName' \in 0..MaxStart /\ semValue' \in [1..MaxStart -> Nat]
  BY <1>1 DEF TypeOK, Boot
<1>4. starts' \in 0..MaxStart /\ serial' \in [Process -> 0..MaxStart]
  BY <1>1 DEF TypeOK, Boot
<1>5. mapLock' \in [Process -> 0..MaxStart]
  BY <1>3 DEF TypeOK, Boot
<1>6. QED
  BY <1>2, <1>3, <1>4, <1>5 DEF TypeOK, Boot, mappingVars

LEMMA NewMappingType ==
  ASSUME TypeOK, NEW p \in Process, NewMapping(p)
  PROVE  /\ fileName' \in 0..MaxStart
         /\ serverCounter' \in [1..MaxStart -> Int]
         /\ idCounter' \in [1..MaxStart -> Nat]
         /\ daemonServer' \in [1..MaxStart -> Int]
         /\ late' \in [1..MaxStart -> BOOLEAN]
<1>. 0 \in Int /\ 1 \in Int
  OBVIOUS
<1>1. fileName' \in 0..MaxStart
  BY DEF TypeOK, NewMapping
<1>2. serverCounter' \in [1..MaxStart -> Int]
  BY Zenon DEF TypeOK, NewMapping
<1>3. idCounter' \in [1..MaxStart -> Nat]
  BY DEF TypeOK, NewMapping
<1>4. daemonServer' \in [1..MaxStart -> Int]
  BY Zenon DEF TypeOK, NewMapping
<1>5. late' \in [1..MaxStart -> BOOLEAN]
  BY DEF TypeOK, NewMapping
<1>6. QED
  BY <1>1, <1>2, <1>3, <1>4, <1>5

LEMMA EnrolType ==
  ASSUME TypeOK, Enrol, fileName # 0
  PROVE  /\ serverCounter' \in [1..MaxStart -> Int]
         /\ idCounter' \in [1..MaxStart -> Nat]
         /\ daemonServer' \in [1..MaxStart -> Int]
         /\ late' \in [1..MaxStart -> BOOLEAN]
<1>1. fileName \in 1..MaxStart
  BY DEF TypeOK
<1>2. serverCounter[fileName] \in Int /\ idCounter[fileName] \in Nat
  BY <1>1 DEF TypeOK
<1>3. serverCounter[fileName] + 1 \in Int /\ idCounter[fileName] + 1 \in Nat
  BY <1>2
<1>4. /\ serverCounter' \in [1..MaxStart -> Int]
      /\ idCounter' \in [1..MaxStart -> Nat]
  BY <1>3, Zenon DEF TypeOK, Enrol
<1>5. daemonServer' \in [1..MaxStart -> Int] /\ late' \in [1..MaxStart -> BOOLEAN]
  BY DEF TypeOK, Enrol
<1>6. QED
  BY <1>4, <1>5

LEMMA InitialiseType ==
  ASSUME TypeOK, NEW p \in Process, Initialise(p) PROVE TypeOK'
<1>. USE Labels, Threads
<1>1. CASE SemWait(p, "monitor", "init_map", "init_body")
  BY <1>1, SemWaitType
<1>2. CASE InitCreate(p)
  <2>1. PICK d \in Daemon :
          /\ thread' = [thread EXCEPT ![p] = d]
          /\ pc' = [pc EXCEPT ![p] = [@ EXCEPT !["monitor"] = "init_release",
                                               ![d] = "d_new"]]
    BY <1>2 DEF InitCreate, FreeDaemon
  <2>2. /\ thread' \in [Process -> Daemon \cup {None}]
        /\ pc' \in [Process -> [Thread -> Label]]
    BY <2>1 DEF TypeOK
  <2>3. NewMapping(p)
    BY <1>2 DEF InitCreate, MakeFile
  <2>4. QED
    BY <1>2, <2>2, <2>3, NewMappingType DEF InitCreate, MakeFile, TypeOK
<1>3. CASE InitOpen(p)
  <2>1. fileName \in 1..MaxStart
    BY <1>3 DEF InitOpen, TypeOK
  <2>2. idCounter' \in [1..MaxStart -> Nat]
    BY <1>3, EnrolType DEF InitOpen
  <2>3. ID' \in [Process -> Nat] /\ structure' \in [Process -> 0..MaxStart]
    BY <1>3, <2>1, <2>2 DEF InitOpen, TypeOK
  <2>4. pc' \in [Process -> [Thread -> Label]]
    BY <1>3 DEF InitOpen, Step, Goto, TypeOK
  <2>5. QED
    BY <1>3, <2>3, <2>4, EnrolType DEF InitOpen, TypeOK
<1>4. CASE SemPost(p, "monitor", "init_release", "startup")
  BY <1>4, SemPostType
<1>5. CASE Startup(p)
  <2>1. CASE Local(p, "monitor", "startup", "t_active")
    BY <2>1, LocalType
  <2>2. CASE /\ pc' = [pc EXCEPT ![p] = [@ EXCEPT !["monitor"] = "m_idle",
                                                  !["tcp"] = "accept"]]
             /\ UNCHANGED <<starts, hostVars, processVars, activeLock, crLock>>
    BY <2>2 DEF TypeOK, hostVars, mappingVars, processVars
  <2>3. QED
    BY <1>5, <2>1, <2>2 DEF Startup
<1>6. CASE FailRelease(p)
  BY <1>6, SemPostType DEF FailRelease
<1>7. CASE FailUnlink(p)
  <2>1. pc' \in [Process -> [Thread -> Label]]
    BY <1>7 DEF FailUnlink, Step, Goto, TypeOK
  <2>2. semName' \in 0..MaxStart
    BY <1>7, MaxStartIsNat DEF FailUnlink
  <2>3. QED
    BY <1>7, <2>1, <2>2 DEF FailUnlink, TypeOK, mappingVars, processVars
<1>8. CASE FailDelete(p)
  <2>1. HostTypeOK'
    BY <1>8, MaxStartIsNat DEF FailDelete, TypeOK, HostTypeOK, mappingVars
  <2>2. QED
    BY <1>8, <2>1, ExitType DEF FailDelete
<1>9. CASE AbortRelease(p)
  BY <1>9, SemPostType DEF AbortRelease
<1>10. CASE AbortExit(p)
  <2>1. HostTypeOK'
    BY <1>10 DEF AbortExit, Exit, TypeOK, HostTypeOK, hostVars, mappingVars
  <2>2. QED
    BY <1>10, <2>1, ExitType DEF AbortExit, Exit
<1>11. QED
  BY <1>1, <1>2, <1>3, <1>4, <1>5, <1>6, <1>7, <1>8, <1>9, <1>10 DEF Initialise

\* exit(0), or a death that changes nothing outside the process.
LEMMA PlainExitType ==
  ASSUME TypeOK, NEW p \in Process, Exit(p) PROVE TypeOK'
<1>1. HostTypeOK'
  BY DEF Exit, TypeOK, HostTypeOK, hostVars, mappingVars
<1>2. QED
  BY <1>1, ExitType DEF Exit

LEMMA InitialiseFailsType ==
  ASSUME TypeOK, NEW p \in Process, InitialiseFails(p) PROVE TypeOK'
<1>. USE Labels, Threads
<1>1. CASE InitCreateFails(p)
  <2>1. pc' \in [Process -> [Thread -> Label]]
    BY <1>1 DEF InitCreateFails, Goto, TypeOK
  <2>2. NewMapping(p) /\ structure' \in [Process -> 0..MaxStart]
    BY <1>1 DEF InitCreateFails, MakeFile, TypeOK
  <2>3. QED
    BY <1>1, <2>1, <2>2, NewMappingType DEF InitCreateFails, MakeFile, TypeOK
<1>2. CASE InitNoDaemon(p)
  <2>1. NewMapping(p)
    BY <1>2 DEF InitNoDaemon
  <2>2. HostTypeOK'
    BY <1>2, <2>1, NewMappingType DEF InitNoDaemon, TypeOK, HostTypeOK
  <2>3. QED
    BY <1>2, <2>2, ExitType DEF InitNoDaemon
<1>3. CASE InitOpenFails(p)
  <2>1. pc' \in [Process -> [Thread -> Label]]
    BY <1>3 DEF InitOpenFails, Step, Goto, TypeOK
  <2>2. structure' \in [Process -> 0..MaxStart]
    BY <1>3 DEF InitOpenFails, TypeOK
  <2>3. CASE Enrol
    BY <1>3, <2>1, <2>2, <2>3, EnrolType DEF InitOpenFails, TypeOK
  <2>4. CASE UNCHANGED mappingVars
    BY <1>3, <2>1, <2>2, <2>4 DEF InitOpenFails, TypeOK, mappingVars
  <2>5. QED
    BY <1>3, <2>3, <2>4 DEF InitOpenFails
<1>4. QED
  BY <1>1, <1>2, <1>3 DEF InitialiseFails

LEMMA MonitorType == ASSUME TypeOK, NEW p \in Process, Monitor(p) PROVE TypeOK'
<1>. USE Labels, Threads
<1>1. CASE MonitorWake(p)
  BY <1>1, TakeActiveType DEF MonitorWake
<1>2. CASE SemWait(p, "monitor", "m_map", "m_body")
  BY <1>2, SemWaitType
<1>3. CASE MonitorRound(p)
  BY <1>3, LocalType DEF MonitorRound, AfterRound
<1>4. CASE MonitorTakeOver(p)
  <2>1. PICK d \in Daemon, next \in Label :
          /\ thread' = [thread EXCEPT ![p] = d]
          /\ pc' = [pc EXCEPT ![p] = [@ EXCEPT !["monitor"] = next,
                                               ![d] = "d_new"]]
    BY <1>4 DEF MonitorTakeOver, FreeDaemon, AfterRound
  <2>2. /\ thread' \in [Process -> Daemon \cup {None}]
        /\ pc' \in [Process -> [Thread -> Label]]
    BY <2>1 DEF TypeOK
  <2>3. ID[p] \in Int
    BY DEF TypeOK
  <2>4. daemonServer' \in [1..MaxStart -> Int]
    BY <1>4, <2>3, Zenon DEF MonitorTakeOver, TypeOK
  <2>5. QED
    BY <1>4, <2>2, <2>4 DEF MonitorTakeOver, TypeOK
<1>5. CASE SemPost(p, "monitor", "m_unmap", "m_unactive")
  BY <1>5, SemPostType
<1>6. CASE DropActive(p, "monitor", "m_unactive", "m_cr")
  BY <1>6, DropActiveType
<1>7. CASE TakeCr(p, "monitor", "m_cr", "m_send")
  BY <1>7, TakeCrType
<1>8. CASE MonitorSent(p)
  <2>1. CASE DropCr(p, "monitor", "m_send", "m_idle")
    BY <2>1, DropCrType
  <2>2. CASE Local(p, "monitor", "m_send", "t_active")
    BY <2>2, LocalType
  <2>3. QED
    BY <1>8, <2>1, <2>2 DEF MonitorSent
<1>9. QED
  BY <1>1, <1>2, <1>3, <1>4, <1>5, <1>6, <1>7, <1>8 DEF Monitor

LEMMA DaemonType ==
  ASSUME TypeOK, NEW p \in Process, NEW d \in Daemon, DaemonThread(p, d)
  PROVE  TypeOK'
<1>. USE Labels, Threads
<1>1. CASE \E from \in {"d_new", "d_idle"} : TakeActive(p, d, from, "d_map")
  BY <1>1, TakeActiveType
<1>2. CASE SemWait(p, d, "d_map", "d_body")
  BY <1>2, SemWaitType
<1>3. CASE DaemonUpdate(p, d)
  <2>1. pc' \in [Process -> [Thread -> Label]]
    BY <1>3 DEF DaemonUpdate, Step, Goto, TypeOK
  <2>2. late' \in [1..MaxStart -> BOOLEAN]
    BY <1>3 DEF DaemonUpdate, TypeOK
  <2>3. QED
    BY <1>3, <2>1, <2>2 DEF DaemonUpdate, TypeOK, processVars
<1>4. CASE DaemonQuits(p, d)
  BY <1>4, LocalType DEF DaemonQuits
<1>5. CASE \/ SemPost(p, d, "d_unmap", "d_unactive")
           \/ SemPost(p, d, "dq_unmap", "dq_unactive")
  BY <1>5, SemPostType
<1>6. CASE \/ DropActive(p, d, "d_unactive", "d_idle")
           \/ DropActive(p, d, "dq_unactive", "off")
  BY <1>6, DropActiveType
<1>7. QED
  BY <1>1, <1>2, <1>3, <1>4, <1>5, <1>6 DEF DaemonThread

LEMMA HandlerType ==
  ASSUME TypeOK, NEW p \in Process, NEW h \in Handler, HandlerThread(p, h)
  PROVE  TypeOK'
<1>. USE Labels, Threads
<1>1. CASE TakeCr(p, h, "h_cr", "h_command")
  BY <1>1, TakeCrType
<1>2. CASE Command(p, h)
  <2>1. PICK next \in {"h_reply", "h_active"} : Local(p, h, "h_command", next)
    BY <1>2 DEF Command
  <2>2. QED
    BY <2>1, LocalType
<1>9. CASE Local(p, h, "h_body", "h_unmap")
  BY <1>9, LocalType
<1>3. CASE TakeActive(p, h, "h_active", "h_map")
  BY <1>3, TakeActiveType
<1>4. CASE SemWait(p, h, "h_map", "h_body")
  BY <1>4, SemWaitType
<1>5. CASE SemPost(p, h, "h_unmap", "h_unactive")
  BY <1>5, SemPostType
<1>6. CASE DropActive(p, h, "h_unactive", "h_reply")
  BY <1>6, DropActiveType
<1>7. CASE Reply(p, h)
  BY <1>7, DropCrType, LocalType DEF Reply
<1>8. QED
  BY <1>1, <1>2, <1>3, <1>4, <1>5, <1>6, <1>7, <1>9 DEF HandlerThread

LEMMA TerminateType ==
  ASSUME TypeOK, NEW p \in Process, NEW t \in Thread, Terminate(p, t)
  PROVE  TypeOK'
<1>. USE Labels, Threads
<1>1. CASE TakeActive(p, t, "t_active", "t_map")
  BY <1>1, TakeActiveType
<1>2. CASE SemWait(p, t, "t_map", "t_body")
  BY <1>2, SemWaitType
<1>3. CASE TerminateCrashes(p, t) \/ TerminateExit(p, t)
  BY <1>3, PlainExitType DEF TerminateCrashes, TerminateExit
<1>4. CASE TerminateBody(p, t)
  <2>1. pc' \in [Process -> [Thread -> Label]]
    BY <1>4 DEF TerminateBody, TypeOK
  <2>2. structure[p] \in 1..MaxStart
    BY <1>4 DEF TerminateBody, TypeOK
  <2>3. serverCounter[structure[p]] \in Int /\ daemonServer[structure[p]] \in Int
    BY <2>2 DEF TypeOK
  <2>4. serverCounter[structure[p]] - 1 \in Int /\ -1 \in Int
    BY <2>3
  <2>5. /\ serverCounter' \in [1..MaxStart -> Int]
        /\ daemonServer' \in [1..MaxStart -> Int]
    BY <1>4, <2>3, <2>4, Zenon DEF TerminateBody, TypeOK
  <2>6. fileName' \in 0..MaxStart /\ joined' \in [Process -> BOOLEAN]
    BY <1>4, MaxStartIsNat DEF TerminateBody, TypeOK
  <2>7. QED
    BY <1>4, <2>1, <2>5, <2>6 DEF TerminateBody, TypeOK
<1>5. CASE SemPost(p, t, "t_release", "t_exit")
  BY <1>5, SemPostType
<1>6. QED
  BY <1>1, <1>2, <1>3, <1>4, <1>5 DEF Terminate

LEMMA SignalType == ASSUME TypeOK, NEW p \in Process, Signal(p) PROVE TypeOK'
<1>. USE Labels, Threads
<1>1. PICK t \in SignalTarget : SignalResumes(p, t) \/ SignalInterruptsWait(p, t)
  BY DEF Signal
<1>2. t \in Thread
  BY SignalTargets
<1>3. ASSUME NEW label \in Label, CtrlcThread(p, t, label),
             UNCHANGED <<starts, hostVars, processVars, activeLock, crLock>>
      PROVE  TypeOK'
  <2>1. pc' \in [Process -> [Thread -> Label]]
    BY <1>3 DEF CtrlcThread, TypeOK
  <2>2. QED
    BY <1>3, <2>1 DEF TypeOK, hostVars, mappingVars, processVars
<1>4. CASE SignalResumes(p, t)
  <2>1. pc[p][t] \in Label
    BY <1>2 DEF TypeOK
  <2>2. QED
    BY <1>3, <1>4, <2>1 DEF SignalResumes
<1>5. CASE SignalInterruptsWait(p, t)
  BY <1>3, <1>5, PlainExitType DEF SignalInterruptsWait
<1>6. QED
  BY <1>1, <1>4, <1>5

\* Every step keeps the types.
LEMMA NextType == ASSUME TypeOK, [Next]_vars PROVE TypeOK'
<1>. USE Labels, Threads
<1>1. ASSUME NEW p \in Process, ProcessStep(p) PROVE TypeOK'
  BY <1>1, InitialiseType, MonitorType, DaemonType, HandlerType, TerminateType
     DEF ProcessStep
<1>2. ASSUME NEW p \in Process, Environment(p) PROVE TypeOK'
  <2>1. CASE Boot(p)
    BY <2>1, BootType
  <2>2. CASE InitialiseFails(p)
    BY <2>2, InitialiseFailsType
  <2>3. CASE MonitorGivesUp(p) \/ AcceptFails(p)
    BY <2>3, LocalType DEF MonitorGivesUp, AcceptFails
  <2>4. CASE \E d \in Daemon : DaemonUpdateFails(p, d)
    BY <2>4, LocalType DEF DaemonUpdateFails
  <2>5. CASE \E h \in Handler : Request(p, h)
    <3>1. PICK h \in Handler, next \in Label : Local(p, h, "off", next)
      BY <2>5 DEF Request
    <3>2. QED
      BY <3>1, LocalType
  <2>6. CASE Signal(p)
    BY <2>6, SignalType
  <2>7. CASE Kill(p)
    BY <2>7, PlainExitType DEF Kill
  <2>8. QED
    BY <1>2, <2>1, <2>2, <2>3, <2>4, <2>5, <2>6, <2>7 DEF Environment
<1>3. CASE Age
  <2>1. late' \in [1..MaxStart -> BOOLEAN]
    BY <1>3 DEF Age, TypeOK
  <2>2. QED
    BY <1>3, <2>1 DEF Age, TypeOK, processVars
<1>4. CASE UNCHANGED vars
  BY <1>4 DEF vars, TypeOK, hostVars, mappingVars, processVars
<1>5. QED
  BY <1>1, <1>2, <1>3, <1>4 DEF Next, Finished

\* Type correctness of the server processes.
THEOREM TypeCorrect == Spec => []TypeOK
BY InitType, NextType, PTL DEF Spec

-----------------------------------------------------------------------------
(***************************************************************************)
(* Mutual exclusion in the mapping.                                        *)
(*                                                                         *)
(* The one thing that breaks it is a second signal: sem_wait of the thread *)
(* that terminates the server fails with EINTR, and cs1_terminate_server   *)
(* goes on.  The proofs assume that no signal comes, or that nothing but a *)
(* signal makes a thread that receives signals terminate the server.       *)
(***************************************************************************)
Interrupts == Faults \cap {"ctrlc", "early_ctrlc"}

SignalsOrFailures == Interrupts = {} \/ Faults \cap {"tcp", "error"} = {}

-----------------------------------------------------------------------------
(* The inductive invariant.                                                *)

\* Threads run in live processes only, and a live process opened a semaphore.
ThreadsAlive ==
  \A p \in Process : \A t \in Thread : pc[p][t] # "off" => Alive(p)

SemaphoreOpen ==
  /\ semName <= starts
  /\ \A p \in Process : Alive(p) => mapLock[p] \in 1..starts

\* The value of a semaphore is 0 or 1, and 0 while a thread is inside.
SemaphoreBinary ==
  /\ \A g \in 1..MaxStart : semValue[g] <= 1
  /\ \A p \in Process : \A t \in Thread :
       InMapping(p, t) => semValue[mapLock[p]] = 0

\* The labels of initialize_server and of a sleeping daemon have their thread.
Roles ==
  \A p \in Process :
    /\ pc[p]["monitor"] # "d_idle"
    /\ \A t \in Thread \ {"monitor"} :
         pc[p][t] \notin {"init_body", "init_release", "fail_release",
                          "abort_release"}

\* No thread that a signal may interrupt waits to terminate the server.
NotInterrupted ==
  Interrupts # {} =>
    \A p \in Process : \A t \in SignalTarget :
      pc[p][t] \notin {"t_active", "t_map"}

MutexInv ==
  /\ TypeOK /\ ThreadsAlive /\ SemaphoreOpen /\ SemaphoreBinary
  /\ Roles /\ NotInterrupted /\ SemaphoreMutex

-----------------------------------------------------------------------------
(* Mutual exclusion.                                                       *)

Terminating == {"t_active", "t_map"}

MonitorInit == {"init_body", "init_release", "fail_release", "abort_release"}

\* What a step of thread t to label to must respect, wherever it comes from.
RoleAllows(t, to) ==
  /\ t = "monitor" => to \notin {"off", "d_idle"}
  /\ to \in MonitorInit => t = "monitor"
  /\ t \in SignalTarget /\ to \in Terminating => Interrupts = {}

\* The initial state satisfies the invariant.
LEMMA InitMutex == Init => MutexInv
<1>. SUFFICES ASSUME Init PROVE MutexInv
  OBVIOUS
<1>1. \A p \in Process : \A t \in Thread : pc[p][t] = "off"
  BY DEF Init
<1>2. ThreadsAlive /\ SemaphoreMutex
  BY <1>1 DEF ThreadsAlive, SemaphoreMutex, InMapping, Inside
<1>3. SemaphoreOpen
  BY <1>1, Threads, MaxStartIsNat DEF Init, SemaphoreOpen, Alive
<1>4. SemaphoreBinary
  BY <1>1 DEF Init, SemaphoreBinary, InMapping, Inside
<1>5. Roles
  BY <1>1, Threads DEF Roles
<1>6. NotInterrupted
  BY <1>1, SignalTargets, Threads DEF NotInterrupted
<1>7. QED
  BY <1>2, <1>3, <1>4, <1>5, <1>6, InitType DEF MutexInv

\* A process may change its labels as long as nobody comes inside by it.
LEMMA QuietMutex ==
  ASSUME MutexInv, TypeOK', NEW p \in Process,
         UNCHANGED <<starts, semName, semValue, mapLock>>,
         Alive(p), Alive(p)',
         \A q \in Process \ {p} : pc'[q] = pc[q],
         \A t \in Thread :
           \/ pc'[p][t] = pc[p][t]
           \/ /\ RoleAllows(t, pc'[p][t])
              /\ pc'[p][t] \in Inside => pc[p][t] \in Inside
  PROVE  MutexInv'
<1>1. ThreadsAlive'
  BY DEF MutexInv, ThreadsAlive, Alive
<1>2. SemaphoreOpen'
  BY DEF MutexInv, SemaphoreOpen, Alive
<1>3. \A q \in Process : \A t \in Thread : InMapping(q, t)' => InMapping(q, t)
  BY DEF InMapping
<1>4. SemaphoreBinary' /\ SemaphoreMutex'
  BY <1>3 DEF MutexInv, SemaphoreBinary, SemaphoreMutex
<1>5. Roles'
  BY Threads DEF MutexInv, Roles, RoleAllows, MonitorInit
<1>6. NotInterrupted'
  BY SignalTargets, Threads
     DEF MutexInv, NotInterrupted, RoleAllows, Interrupts, Terminating
<1>7. QED
  BY <1>1, <1>2, <1>4, <1>5, <1>6 DEF MutexInv

\* A step of one thread changes the label of that thread only.
LEMMA StepChanges ==
  ASSUME TypeOK, NEW p \in Process, NEW t \in Thread, NEW from, NEW to,
         Step(p, t, from, to)
  PROVE  /\ \A q \in Process \ {p} : pc'[q] = pc[q]
         /\ \A u \in Thread \ {t} : pc'[p][u] = pc[p][u]
         /\ pc[p][t] = from /\ pc'[p][t] = to
BY DEF TypeOK, Step, Goto

\* A step of one thread that leaves the semaphores alone.
LEMMA MoveMutex ==
  ASSUME MutexInv, TypeOK', NEW p \in Process, NEW t \in Thread,
         NEW from, NEW to, Step(p, t, from, to),
         UNCHANGED <<starts, semName, semValue, mapLock>>,
         Alive(p), RoleAllows(t, to), to \in Inside => from \in Inside
  PROVE  MutexInv'
<1>1. /\ \A q \in Process \ {p} : pc'[q] = pc[q]
      /\ \A u \in Thread \ {t} : pc'[p][u] = pc[p][u]
      /\ pc[p][t] = from /\ pc'[p][t] = to
  BY StepChanges DEF MutexInv
<1>2. Alive(p)'
  BY <1>1, Threads DEF Alive, RoleAllows
<1>3. QED
  BY <1>1, <1>2, QuietMutex

\* sem_wait lets one thread inside, and only when nobody is.
LEMMA WaitMutex ==
  ASSUME MutexInv, TypeOK', NEW p \in Process, NEW t \in Thread,
         NEW from, NEW to, SemWait(p, t, from, to),
         Alive(p), RoleAllows(t, to)
  PROVE  MutexInv'
<1>. DEFINE g == mapLock[p]
<1>1. /\ \A q \in Process \ {p} : pc'[q] = pc[q]
      /\ \A u \in Thread \ {t} : pc'[p][u] = pc[p][u]
      /\ pc[p][t] = from /\ pc'[p][t] = to
  BY StepChanges DEF MutexInv, SemWait
<1>2. Alive(p)'
  BY <1>1, Threads DEF Alive, RoleAllows
<1>3. UNCHANGED <<starts, semName, mapLock>>
  BY DEF SemWait, processVars
<1>4. g \in 1..starts /\ g \in 1..MaxStart
  BY DEF MutexInv, SemaphoreOpen, TypeOK
<1>5. semValue[g] = 1 /\ semValue'[g] = 0
  <2>1. semValue[g] \in Nat /\ semValue[g] <= 1
    BY <1>4 DEF MutexInv, SemaphoreBinary, TypeOK
  <2>2. semValue[g] > 0 /\ semValue'[g] = semValue[g] - 1
    BY <1>4 DEF SemWait, MutexInv, TypeOK
  <2>3. QED
    BY <2>1, <2>2
<1>6. \A h \in 1..MaxStart : h # g => semValue'[h] = semValue[h]
  BY DEF MutexInv, TypeOK, SemWait
<1>7. \A q \in Process, u \in Thread : InMapping(q, u) => mapLock[q] # g
  BY <1>5 DEF MutexInv, SemaphoreBinary
<1>8. \A q \in Process, u \in Thread :
        InMapping(q, u)' => InMapping(q, u) \/ (q = p /\ u = t)
  BY <1>1 DEF InMapping
<1>9. \A q \in Process, u \in Thread : InMapping(q, u) => mapLock[q] \in 1..MaxStart
  <2>1. \A q \in Process, u \in Thread : InMapping(q, u) => Alive(q)
    BY DEF MutexInv, ThreadsAlive, InMapping, Inside
  <2>2. QED
    BY <2>1 DEF MutexInv, SemaphoreOpen, TypeOK
<1>10. SemaphoreBinary'
  <2>1. \A h \in 1..MaxStart : semValue'[h] <= 1
    BY <1>5, <1>6 DEF MutexInv, SemaphoreBinary
  <2>2. \A q \in Process, u \in Thread : InMapping(q, u)' => semValue'[mapLock[q]] = 0
    BY <1>5, <1>6, <1>7, <1>8, <1>9 DEF MutexInv, SemaphoreBinary
  <2>3. QED
    BY <1>3, <2>1, <2>2 DEF SemaphoreBinary
<1>11. SemaphoreMutex'
  BY <1>3, <1>7, <1>8 DEF MutexInv, SemaphoreMutex
<1>12. ThreadsAlive' /\ SemaphoreOpen'
  BY <1>1, <1>2, <1>3 DEF MutexInv, ThreadsAlive, SemaphoreOpen, Alive
<1>13. Roles'
  BY <1>1, Threads DEF MutexInv, Roles, RoleAllows, MonitorInit
<1>14. NotInterrupted'
  BY <1>1, SignalTargets, Threads
     DEF MutexInv, NotInterrupted, RoleAllows, Interrupts, Terminating
<1>15. QED
  BY <1>10, <1>11, <1>12, <1>13, <1>14 DEF MutexInv

\* sem_post comes from the one thread that is inside.
LEMMA PostMutex ==
  ASSUME MutexInv, TypeOK', NEW p \in Process, NEW t \in Thread,
         NEW from, NEW to, SemPost(p, t, from, to),
         RoleAllows(t, to), from \in Inside, to \notin Inside
  PROVE  MutexInv'
<1>. DEFINE g == mapLock[p]
<1>1. /\ \A q \in Process \ {p} : pc'[q] = pc[q]
      /\ \A u \in Thread \ {t} : pc'[p][u] = pc[p][u]
      /\ pc[p][t] = from /\ pc'[p][t] = to
  BY StepChanges DEF MutexInv, SemPost
<1>2. Alive(p) /\ Alive(p)'
  <2>1. Alive(p)
    BY <1>1 DEF MutexInv, ThreadsAlive, Inside
  <2>2. QED
    BY <1>1, <2>1, Threads DEF Alive, RoleAllows
<1>3. UNCHANGED <<starts, semName, mapLock>>
  BY DEF SemPost, processVars
<1>4. g \in 1..starts /\ g \in 1..MaxStart
  BY <1>2 DEF MutexInv, SemaphoreOpen, TypeOK
<1>5. InMapping(p, t)
  BY <1>1 DEF InMapping
<1>6. semValue[g] = 0 /\ semValue'[g] = 1
  BY <1>4, <1>5 DEF MutexInv, SemaphoreBinary, TypeOK, SemPost
<1>7. \A h \in 1..MaxStart : h # g => semValue'[h] = semValue[h]
  BY DEF MutexInv, TypeOK, SemPost
<1>8. \A q \in Process, u \in Thread :
        InMapping(q, u)' => InMapping(q, u) /\ ~(q = p /\ u = t)
  BY <1>1 DEF InMapping
<1>9. \A q \in Process, u \in Thread :
        InMapping(q, u)' => mapLock[q] \in 1..MaxStart /\ mapLock[q] # g
  <2>1. \A q \in Process, u \in Thread : InMapping(q, u) => Alive(q)
    BY DEF MutexInv, ThreadsAlive, InMapping, Inside
  <2>2. \A q \in Process, u \in Thread : InMapping(q, u)' => mapLock[q] # g
    BY <1>5, <1>8 DEF MutexInv, SemaphoreMutex
  <2>3. \A q \in Process, u \in Thread : InMapping(q, u) => mapLock[q] \in 1..MaxStart
    BY <2>1 DEF MutexInv, SemaphoreOpen, TypeOK
  <2>4. QED
    BY <1>8, <2>2, <2>3
<1>10. SemaphoreBinary'
  <2>1. \A h \in 1..MaxStart : semValue'[h] <= 1
    BY <1>6, <1>7 DEF MutexInv, SemaphoreBinary
  <2>2. \A q \in Process, u \in Thread : InMapping(q, u)' => semValue'[mapLock[q]] = 0
    BY <1>7, <1>8, <1>9 DEF MutexInv, SemaphoreBinary
  <2>3. QED
    BY <1>3, <2>1, <2>2 DEF SemaphoreBinary
<1>11. SemaphoreMutex'
  BY <1>3, <1>8 DEF MutexInv, SemaphoreMutex
<1>12. ThreadsAlive' /\ SemaphoreOpen'
  BY <1>1, <1>2, <1>3 DEF MutexInv, ThreadsAlive, SemaphoreOpen, Alive
<1>13. Roles'
  BY <1>1, Threads DEF MutexInv, Roles, RoleAllows, MonitorInit
<1>14. NotInterrupted'
  BY <1>1, SignalTargets, Threads
     DEF MutexInv, NotInterrupted, RoleAllows, Interrupts, Terminating
<1>15. QED
  BY <1>10, <1>11, <1>12, <1>13, <1>14 DEF MutexInv

\* A process that goes leaves the semaphore as it is.
LEMMA ExitMutex ==
  ASSUME MutexInv, TypeOK', NEW p \in Process, ExitProcess(p),
         semValue' = semValue, semName' <= starts
  PROVE  MutexInv'
<1>1. /\ \A q \in Process \ {p} : pc'[q] = pc[q] /\ mapLock'[q] = mapLock[q]
      /\ \A t \in Thread : pc'[p][t] = "off"
      /\ starts' = starts
  BY DEF MutexInv, TypeOK, ExitProcess
<1>2. \A q \in Process, u \in Thread : InMapping(q, u)' => q # p /\ InMapping(q, u)
  BY <1>1 DEF InMapping, Inside
<1>3. ThreadsAlive' /\ SemaphoreOpen'
  BY <1>1, Threads DEF MutexInv, ThreadsAlive, SemaphoreOpen, Alive
<1>4. SemaphoreBinary'
  BY <1>1, <1>2 DEF MutexInv, SemaphoreBinary
<1>5. SemaphoreMutex'
  BY <1>1, <1>2 DEF MutexInv, SemaphoreMutex
<1>6. Roles'
  BY <1>1, Threads DEF MutexInv, Roles
<1>7. NotInterrupted'
  BY <1>1, SignalTargets, Threads DEF MutexInv, NotInterrupted, Interrupts
<1>8. QED
  BY <1>3, <1>4, <1>5, <1>6, <1>7 DEF MutexInv

\* sem_open makes a semaphore nobody else can have, or opens the present one.
LEMMA BootMutex ==
  ASSUME MutexInv, TypeOK', NEW p \in Process, Boot(p) PROVE MutexInv'
<1>1. /\ \A q \in Process \ {p} : pc'[q] = pc[q] /\ mapLock'[q] = mapLock[q]
      /\ \A t \in Thread \ {"monitor"} : pc'[p][t] = pc[p][t]
      /\ pc'[p]["monitor"] = "init_map"
      /\ starts' = starts + 1 /\ mapLock'[p] = semName'
  BY Threads DEF MutexInv, TypeOK, Boot, Goto
<1>2. \A t \in Thread : pc[p][t] = "off"
  BY DEF MutexInv, ThreadsAlive, Boot
<1>3. \A q \in Process, u \in Thread : InMapping(q, u)' => q # p /\ InMapping(q, u)
  BY <1>1, <1>2 DEF InMapping, Inside
<1>4. semName' \in 1..starts'
  BY <1>1 DEF MutexInv, TypeOK, SemaphoreOpen, Boot
<1>5. ThreadsAlive' /\ SemaphoreOpen'
  <2>1. ThreadsAlive'
    BY <1>1, <1>2 DEF MutexInv, ThreadsAlive, Alive
  <2>2. \A q \in Process \ {p} : Alive(q)' => mapLock'[q] \in 1..starts'
    <3>1. starts \in Nat /\ starts' \in Nat /\ starts <= starts'
      BY <1>1, MaxStartIsNat DEF MutexInv, TypeOK
    <3>2. \A q \in Process \ {p} : Alive(q)' => mapLock[q] \in 1..starts
      BY <1>1 DEF MutexInv, SemaphoreOpen, Alive
    <3>3. QED
      BY <1>1, <3>1, <3>2
  <2>3. QED
    BY <1>1, <1>4, <2>1, <2>2 DEF SemaphoreOpen
<1>6. \A q \in Process, u \in Thread :
        InMapping(q, u)' => mapLock[q] \in 1..starts
  BY <1>3 DEF MutexInv, ThreadsAlive, SemaphoreOpen, InMapping, Inside
<1>7. /\ \A h \in 1..starts : semValue'[h] = semValue[h]
      /\ \A h \in 1..MaxStart : semValue'[h] <= 1
  <2>1. starts \in 0..MaxStart /\ semValue \in [1..MaxStart -> Nat]
    BY DEF MutexInv, TypeOK
  <2>2. semValue' = semValue \/ semValue' = [semValue EXCEPT ![starts + 1] = 1]
    BY DEF Boot
  <2>3. \A h \in 1..MaxStart : semValue[h] <= 1
    BY DEF MutexInv, SemaphoreBinary
  <2>4. QED
    BY <2>1, <2>2, <2>3, MaxStartIsNat
<1>8. SemaphoreBinary'
  BY <1>1, <1>3, <1>6, <1>7 DEF MutexInv, SemaphoreBinary
<1>9. SemaphoreMutex'
  BY <1>1, <1>3 DEF MutexInv, SemaphoreMutex
<1>10. Roles'
  BY <1>1 DEF MutexInv, Roles
<1>11. NotInterrupted'
  BY <1>1, SignalTargets, Threads DEF MutexInv, NotInterrupted, Interrupts
<1>12. QED
  BY <1>5, <1>8, <1>9, <1>10, <1>11 DEF MutexInv

LEMMA Running ==
  ASSUME MutexInv, NEW p \in Process, NEW t \in Thread, pc[p][t] # "off"
  PROVE  Alive(p)
BY DEF MutexInv, ThreadsAlive

\* The steps of the locks inside a process leave the semaphores alone.
LEMMA LockStepMutex ==
  ASSUME MutexInv, TypeOK', NEW p \in Process, NEW t \in Thread,
         NEW from, NEW to,
         \/ TakeActive(p, t, from, to) \/ DropActive(p, t, from, to)
         \/ TakeCr(p, t, from, to) \/ DropCr(p, t, from, to)
         \/ Local(p, t, from, to),
         Alive(p), RoleAllows(t, to), to \in Inside => from \in Inside
  PROVE  MutexInv'
<1>1. Step(p, t, from, to) /\ UNCHANGED <<starts, semName, semValue, mapLock>>
  BY DEF TakeActive, DropActive, TakeCr, DropCr, Local, hostVars, processVars
<1>2. QED
  BY <1>1, MoveMutex

\* Two threads of one process change their labels together.
LEMMA StartThreadMutex ==
  ASSUME MutexInv, TypeOK', NEW p \in Process, NEW t \in Thread,
         NEW from, NEW to, NEW fresh,
         UNCHANGED <<starts, semName, semValue, mapLock>>,
         pc[p]["monitor"] = from, from # "off",
         pc' = [pc EXCEPT ![p] = [@ EXCEPT !["monitor"] = to, ![t] = fresh]],
         RoleAllows("monitor", to), RoleAllows(t, fresh), t # "monitor",
         to \in Inside => from \in Inside, fresh \notin Inside
  PROVE  MutexInv'
<1>1. /\ \A q \in Process \ {p} : pc'[q] = pc[q]
      /\ \A u \in Thread \ {t, "monitor"} : pc'[p][u] = pc[p][u]
      /\ pc'[p]["monitor"] = to /\ pc'[p][t] = fresh
  BY Threads DEF MutexInv, TypeOK
<1>2. Alive(p) /\ Alive(p)'
  BY <1>1, Threads DEF Alive, RoleAllows
<1>3. QED
  BY <1>1, <1>2, Threads, QuietMutex

LEMMA InitialiseMutex ==
  ASSUME SignalsOrFailures, MutexInv, TypeOK', NEW p \in Process, Initialise(p)
  PROVE  MutexInv'
<1>. USE Threads
<1>1. CASE SemWait(p, "monitor", "init_map", "init_body")
  <2>1. Alive(p)
    BY <1>1 DEF SemWait, Step, Alive
  <2>2. RoleAllows("monitor", "init_body")
    BY DEF RoleAllows, Terminating
  <2>3. QED
    BY <1>1, <2>1, <2>2, WaitMutex
<1>2. CASE InitCreate(p)
  <2>1. PICK d \in Daemon :
          pc' = [pc EXCEPT ![p] = [@ EXCEPT !["monitor"] = "init_release",
                                            ![d] = "d_new"]]
    BY <1>2 DEF InitCreate, FreeDaemon
  <2>2. RoleAllows("monitor", "init_release") /\ RoleAllows(d, "d_new")
    BY ThreadsAreDistinct DEF RoleAllows, Terminating, MonitorInit
  <2>3. d # "monitor"
    BY ThreadsAreDistinct
  <2>4. /\ UNCHANGED <<starts, semName, semValue, mapLock>>
        /\ pc[p]["monitor"] = "init_body"
    BY <1>2 DEF InitCreate, MakeFile
  <2>5. QED
    BY <2>1, <2>2, <2>3, <2>4, StartThreadMutex DEF Inside
<1>3. CASE InitOpen(p)
  <2>1. Alive(p) /\ RoleAllows("monitor", "init_release")
    BY <1>3 DEF InitOpen, Step, Alive, RoleAllows, Terminating
  <2>2. /\ Step(p, "monitor", "init_body", "init_release")
        /\ UNCHANGED <<starts, semName, semValue, mapLock>>
    BY <1>3 DEF InitOpen
  <2>3. QED
    BY <2>1, <2>2, MoveMutex DEF Inside
<1>4. CASE SemPost(p, "monitor", "init_release", "startup")
  BY <1>4, PostMutex DEF RoleAllows, Terminating, MonitorInit, Inside
<1>5. CASE Startup(p)
  <2>1. CASE "tcp" \in Faults /\ Local(p, "monitor", "startup", "t_active")
    <3>1. Interrupts = {}
      BY <2>1 DEF SignalsOrFailures
    <3>2. RoleAllows("monitor", "t_active") /\ Alive(p)
      BY <2>1, <3>1 DEF RoleAllows, MonitorInit, Local, Step, Alive
    <3>3. QED
      BY <2>1, <3>2, LockStepMutex DEF Inside
  <2>2. CASE /\ pc[p]["monitor"] = "startup"
             /\ pc' = [pc EXCEPT ![p] = [@ EXCEPT !["monitor"] = "m_idle",
                                                  !["tcp"] = "accept"]]
             /\ UNCHANGED <<starts, hostVars, processVars, activeLock, crLock>>
    <3>1. RoleAllows("monitor", "m_idle") /\ RoleAllows("tcp", "accept")
      BY DEF RoleAllows, MonitorInit, Terminating
    <3>2. UNCHANGED <<starts, semName, semValue, mapLock>>
      BY <2>2 DEF hostVars, processVars
    <3>3. "m_idle" \notin Inside /\ "accept" \notin Inside
      BY DEF Inside
    <3>4. QED
      BY <2>2, <3>1, <3>2, <3>3, StartThreadMutex
  <2>3. QED
    BY <1>5, <2>1, <2>2 DEF Startup
<1>6. CASE FailRelease(p)
  BY <1>6, PostMutex DEF FailRelease, RoleAllows, Terminating, MonitorInit, Inside
<1>7. CASE FailUnlink(p)
  <2>1. Alive(p)
    BY <1>7 DEF FailUnlink, Step, Alive
  <2>2. /\ \A q \in Process \ {p} : pc'[q] = pc[q]
        /\ \A u \in Thread \ {"monitor"} : pc'[p][u] = pc[p][u]
        /\ pc'[p]["monitor"] = "fail_delete" /\ semName' = 0
        /\ UNCHANGED <<starts, semValue, mapLock>>
    BY <1>7, StepChanges DEF FailUnlink, MutexInv, processVars
  <2>3. \A q \in Process, u \in Thread : InMapping(q, u)' => InMapping(q, u)
    BY <2>2 DEF InMapping, Inside
  <2>4. ThreadsAlive' /\ SemaphoreOpen'
    <3>1. ThreadsAlive'
      BY <2>1, <2>2 DEF MutexInv, ThreadsAlive, Alive
    <3>2. semName' <= starts'
      BY <2>2 DEF MutexInv, TypeOK
    <3>3. \A q \in Process : Alive(q)' => mapLock'[q] \in 1..starts'
      BY <2>1, <2>2 DEF MutexInv, SemaphoreOpen, Alive
    <3>4. QED
      BY <3>1, <3>2, <3>3 DEF SemaphoreOpen
  <2>5. SemaphoreBinary' /\ SemaphoreMutex'
    BY <2>2, <2>3 DEF MutexInv, SemaphoreBinary, SemaphoreMutex
  <2>6. Roles' /\ NotInterrupted'
    BY <2>2, SignalTargets DEF MutexInv, Roles, NotInterrupted, Interrupts
  <2>7. QED
    BY <2>4, <2>5, <2>6 DEF MutexInv
<1>8. CASE FailDelete(p)
  BY <1>8, ExitMutex DEF FailDelete, MutexInv, SemaphoreOpen
<1>9. CASE AbortRelease(p)
  BY <1>9, PostMutex DEF AbortRelease, RoleAllows, Terminating, MonitorInit, Inside
<1>10. CASE AbortExit(p)
  BY <1>10, ExitMutex DEF AbortExit, Exit, hostVars, MutexInv, SemaphoreOpen
<1>11. QED
  BY <1>1, <1>2, <1>3, <1>4, <1>5, <1>6, <1>7, <1>8, <1>9, <1>10 DEF Initialise

LEMMA InitialiseFailsMutex ==
  ASSUME MutexInv, TypeOK', NEW p \in Process, InitialiseFails(p)
  PROVE  MutexInv'
<1>. USE Threads
<1>1. CASE InitCreateFails(p)
  <2>1. /\ Step(p, "monitor", "init_body", "fail_release")
        /\ UNCHANGED <<starts, semName, semValue, mapLock>>
    BY <1>1 DEF InitCreateFails, MakeFile, Step
  <2>2. Alive(p) /\ RoleAllows("monitor", "fail_release")
    BY <2>1 DEF Step, Alive, RoleAllows, Terminating
  <2>3. QED
    BY <2>1, <2>2, MoveMutex DEF Inside
<1>2. CASE InitNoDaemon(p)
  BY <1>2, ExitMutex DEF InitNoDaemon, MutexInv, SemaphoreOpen
<1>3. CASE InitOpenFails(p)
  <2>1. /\ Step(p, "monitor", "init_body", "abort_release")
        /\ UNCHANGED <<starts, semName, semValue, mapLock>>
    BY <1>3 DEF InitOpenFails
  <2>2. Alive(p) /\ RoleAllows("monitor", "abort_release")
    BY <2>1 DEF Step, Alive, RoleAllows, Terminating
  <2>3. QED
    BY <2>1, <2>2, MoveMutex DEF Inside
<1>4. QED
  BY <1>1, <1>2, <1>3 DEF InitialiseFails

LEMMA MonitorMutex ==
  ASSUME SignalsOrFailures, MutexInv, TypeOK', NEW p \in Process, Monitor(p)
  PROVE  MutexInv'
<1>. USE Threads
<1>1. CASE MonitorWake(p)
  <2>1. TakeActive(p, "monitor", "m_idle", "m_map") /\ Alive(p)
    BY <1>1 DEF MonitorWake, TakeActive, Step, Alive
  <2>2. RoleAllows("monitor", "m_map") /\ "m_map" \notin Inside
    BY DEF RoleAllows, Terminating, MonitorInit, Inside
  <2>3. QED
    BY <2>1, <2>2, LockStepMutex
<1>2. CASE SemWait(p, "monitor", "m_map", "m_body")
  BY <1>2, WaitMutex DEF SemWait, Step, Alive, RoleAllows, Terminating, MonitorInit
<1>3. CASE MonitorRound(p)
  <2>1. PICK next \in {"m_unmap", "t_body"} : Local(p, "monitor", "m_body", next)
    BY <1>3 DEF MonitorRound, AfterRound
  <2>2. Alive(p) /\ RoleAllows("monitor", next)
    BY <2>1 DEF Local, Step, Alive, RoleAllows, Terminating, MonitorInit
  <2>3. QED
    BY <2>1, <2>2, LockStepMutex DEF Inside
<1>4. CASE MonitorTakeOver(p)
  <2>1. PICK d \in Daemon, next \in {"m_unmap", "t_body"} :
          pc' = [pc EXCEPT ![p] = [@ EXCEPT !["monitor"] = next, ![d] = "d_new"]]
    BY <1>4 DEF MonitorTakeOver, FreeDaemon, AfterRound
  <2>2. RoleAllows("monitor", next) /\ RoleAllows(d, "d_new") /\ d # "monitor"
    BY ThreadsAreDistinct DEF RoleAllows, Terminating, MonitorInit
  <2>3. /\ UNCHANGED <<starts, semName, semValue, mapLock>>
        /\ pc[p]["monitor"] = "m_body"
    BY <1>4 DEF MonitorTakeOver
  <2>4. QED
    BY <2>1, <2>2, <2>3, StartThreadMutex DEF Inside
<1>5. CASE SemPost(p, "monitor", "m_unmap", "m_unactive")
  BY <1>5, PostMutex DEF RoleAllows, Terminating, MonitorInit, Inside
<1>6. CASE \/ DropActive(p, "monitor", "m_unactive", "m_cr")
           \/ TakeCr(p, "monitor", "m_cr", "m_send")
           \/ DropCr(p, "monitor", "m_send", "m_idle")
  <2>1. Alive(p)
    BY <1>6 DEF DropActive, TakeCr, DropCr, Step, Alive
  <2>2. \A to \in {"m_cr", "m_send", "m_idle"} :
          RoleAllows("monitor", to) /\ to \notin Inside
    BY DEF RoleAllows, Terminating, MonitorInit, Inside
  <2>3. QED
    BY <1>6, <2>1, <2>2, LockStepMutex
<1>7. CASE "error" \in Faults /\ Local(p, "monitor", "m_send", "t_active")
  <2>1. Interrupts = {}
    BY <1>7 DEF SignalsOrFailures
  <2>2. RoleAllows("monitor", "t_active") /\ Alive(p)
    BY <1>7, <2>1 DEF RoleAllows, MonitorInit, Local, Step, Alive
  <2>3. QED
    BY <1>7, <2>2, LockStepMutex DEF Inside
<1>8. QED
  BY <1>1, <1>2, <1>3, <1>4, <1>5, <1>6, <1>7 DEF Monitor, MonitorSent

LEMMA DaemonMutex ==
  ASSUME MutexInv, TypeOK', NEW p \in Process, NEW d \in Daemon,
         DaemonThread(p, d)
  PROVE  MutexInv'
<1>. USE Threads
<1>1. \A to \in {"d_map", "d_body", "d_unmap", "d_unactive", "d_idle",
               "dq_unmap", "dq_unactive", "off"} : RoleAllows(d, to)
  BY ThreadsAreDistinct DEF RoleAllows, Terminating, MonitorInit
<1>2. pc[p][d] # "off" => Alive(p)
  BY Running
<1>3. CASE \E from \in {"d_new", "d_idle"} : TakeActive(p, d, from, "d_map")
  <2>1. PICK from \in {"d_new", "d_idle"} : TakeActive(p, d, from, "d_map")
    BY <1>3
  <2>2. Alive(p) /\ "d_map" \notin Inside
    BY <1>2, <2>1 DEF TakeActive, Step, Inside
  <2>3. QED
    BY <1>1, <2>1, <2>2, LockStepMutex
<1>4. CASE SemWait(p, d, "d_map", "d_body")
  BY <1>1, <1>2, <1>4, WaitMutex DEF SemWait, Step
<1>5. CASE DaemonUpdate(p, d) \/ DaemonQuits(p, d)
  <2>1. PICK to \in {"d_unmap", "dq_unmap"} :
          /\ Step(p, d, "d_body", to)
          /\ UNCHANGED <<starts, semName, semValue, mapLock>>
    BY <1>5 DEF DaemonUpdate, DaemonQuits, Local, hostVars, processVars
  <2>2. Alive(p)
    BY <1>2, <2>1 DEF Step
  <2>3. QED
    BY <1>1, <2>1, <2>2, MoveMutex DEF Inside
<1>6. CASE SemPost(p, d, "d_unmap", "d_unactive")
  BY <1>1, <1>6, PostMutex DEF Inside
<1>7. CASE SemPost(p, d, "dq_unmap", "dq_unactive")
  BY <1>1, <1>7, PostMutex DEF Inside
<1>8. CASE DropActive(p, d, "d_unactive", "d_idle")
  <2>1. Alive(p) /\ "d_idle" \notin Inside
    BY <1>2, <1>8 DEF DropActive, Step, Inside
  <2>2. QED
    BY <1>1, <1>8, <2>1, LockStepMutex
<1>9. CASE DropActive(p, d, "dq_unactive", "off")
  <2>1. Alive(p) /\ "off" \notin Inside
    BY <1>2, <1>9 DEF DropActive, Step, Inside
  <2>2. QED
    BY <1>1, <1>9, <2>1, LockStepMutex
<1>10. QED
  BY <1>3, <1>4, <1>5, <1>6, <1>7, <1>8, <1>9 DEF DaemonThread

\* A signal is not delivered to a handler, nor to the threads beside them.
LEMMA NotSignalled == \A t \in Handler \cup {"tcp", "ctrlc"} : t \notin SignalTarget
BY ThreadsAreDistinct, SignalTargets

LEMMA HandlerMutex ==
  ASSUME MutexInv, TypeOK', NEW p \in Process, NEW h \in Handler,
         HandlerThread(p, h)
  PROVE  MutexInv'
<1>. USE Threads
<1>1. \A to : to \notin MonitorInit => RoleAllows(h, to)
  BY ThreadsAreDistinct, NotSignalled DEF RoleAllows
<1>2. {"h_command", "h_reply", "h_active", "h_map", "h_body", "h_unmap",
       "h_unactive", "off", "t_active"} \cap MonitorInit = {}
  BY DEF MonitorInit
<1>3. pc[p][h] # "off" => Alive(p)
  BY Running
<1>4. CASE Command(p, h)
  <2>1. PICK next \in {"h_reply", "h_active"} : Local(p, h, "h_command", next)
    BY <1>4 DEF Command
  <2>2. Alive(p) /\ next \notin Inside
    BY <1>3, <2>1 DEF Local, Step, Inside
  <2>3. QED
    BY <1>1, <1>2, <2>1, <2>2, LockStepMutex
<1>5. CASE SemWait(p, h, "h_map", "h_body")
  BY <1>1, <1>2, <1>3, <1>5, WaitMutex DEF SemWait, Step
<1>6. CASE SemPost(p, h, "h_unmap", "h_unactive")
  BY <1>1, <1>2, <1>6, PostMutex DEF Inside
<1>7. CASE Local(p, h, "h_body", "h_unmap")
  <2>1. Alive(p)
    BY <1>3, <1>7 DEF Local, Step
  <2>2. QED
    BY <1>1, <1>2, <1>7, <2>1, LockStepMutex DEF Inside
<1>8. CASE \/ TakeCr(p, h, "h_cr", "h_command")
           \/ TakeActive(p, h, "h_active", "h_map")
           \/ DropActive(p, h, "h_unactive", "h_reply")
           \/ Reply(p, h)
  <2>1. Alive(p)
    BY <1>3, <1>8 DEF TakeCr, TakeActive, DropActive, DropCr, Reply, Local, Step
  <2>2. {"h_command", "h_map", "h_reply", "off", "t_active"} \cap Inside = {}
    BY DEF Inside
  <2>3. QED
    BY <1>1, <1>2, <1>8, <2>1, <2>2, LockStepMutex DEF Reply
<1>9. QED
  BY <1>4, <1>5, <1>6, <1>7, <1>8 DEF HandlerThread

LEMMA TerminateMutex ==
  ASSUME MutexInv, TypeOK', NEW p \in Process, NEW t \in Thread,
         Terminate(p, t)
  PROVE  MutexInv'
<1>. USE Threads
<1>1. /\ RoleAllows(t, "t_body") /\ RoleAllows(t, "t_release")
      /\ RoleAllows(t, "t_exit")
  BY DEF RoleAllows, Terminating, MonitorInit
<1>2. pc[p][t] # "off" => Alive(p)
  BY Running
<1>3. CASE TakeActive(p, t, "t_active", "t_map")
  <2>1. RoleAllows(t, "t_map")
    BY <1>3 DEF MutexInv, NotInterrupted, TakeActive, Step, RoleAllows,
                MonitorInit
  <2>2. Alive(p) /\ "t_map" \notin Inside
    BY <1>2, <1>3 DEF TakeActive, Step, Inside
  <2>3. QED
    BY <1>3, <2>1, <2>2, LockStepMutex
<1>4. CASE SemWait(p, t, "t_map", "t_body")
  BY <1>1, <1>2, <1>4, WaitMutex DEF SemWait, Step
<1>5. CASE TerminateCrashes(p, t) \/ TerminateExit(p, t)
  BY <1>5, ExitMutex
     DEF TerminateCrashes, TerminateExit, Exit, hostVars, MutexInv, SemaphoreOpen
<1>6. CASE TerminateBody(p, t)
  <2>1. /\ \A q \in Process \ {p} : pc'[q] = pc[q]
        /\ pc'[p][t] = "t_release" /\ pc[p][t] = "t_body"
        /\ \A u \in Thread \ {t} :
             pc'[p][u] = pc[p][u] \/ (u = "tcp" /\ pc'[p][u] = "off")
        /\ UNCHANGED <<starts, semName, semValue, mapLock>>
    BY <1>6 DEF TerminateBody, MutexInv, TypeOK
  <2>2. Alive(p)
    BY <1>2, <2>1
  <2>3. Alive(p)'
    BY <2>1, <2>2 DEF Alive
  <2>4. RoleAllows("tcp", "off") /\ "off" \notin Inside
    BY DEF RoleAllows, MonitorInit, Terminating, Inside
  <2>5. "t_body" \in Inside
    BY DEF Inside
  <2>6. QED
    BY <1>1, <2>1, <2>2, <2>3, <2>4, <2>5, QuietMutex
<1>7. CASE SemPost(p, t, "t_release", "t_exit")
  BY <1>1, <1>7, PostMutex DEF Inside
<1>8. QED
  BY <1>3, <1>4, <1>5, <1>6, <1>7 DEF Terminate

LEMMA SignalMutex ==
  ASSUME MutexInv, TypeOK', NEW p \in Process, Signal(p) PROVE MutexInv'
<1>. USE Threads
<1>1. PICK t \in SignalTarget : SignalResumes(p, t) \/ SignalInterruptsWait(p, t)
  BY DEF Signal
<1>2. t \in Thread /\ t # "ctrlc" /\ (t = "monitor" \/ t \in Daemon)
  BY SignalTargets, ThreadsAreDistinct
<1>3. Interrupts # {} /\ Alive(p)
  BY DEF Signal, Interrupts
<1>4. pc[p][t] \notin Terminating
  BY <1>1, <1>3 DEF MutexInv, NotInterrupted, Terminating
<1>5. CASE SignalResumes(p, t)
  <2>1. PICK label : /\ CtrlcThread(p, t, label)
                     /\ \/ label = pc[p][t]
                        \/ pc[p][t] = "m_idle" /\ label = "spin"
                        \/ pc[p][t] = "d_idle" /\ label = "off"
    BY <1>5 DEF SignalResumes
  <2>2. /\ \A q \in Process \ {p} : pc'[q] = pc[q]
        /\ pc'[p][t] = label
        /\ \A u \in Thread \ {t} :
             pc'[p][u] = pc[p][u] \/ (u = "ctrlc" /\ pc'[p][u] = "t_active")
    BY <1>2, <2>1 DEF CtrlcThread, MutexInv, TypeOK
  <2>3. UNCHANGED <<starts, semName, semValue, mapLock>>
    BY <1>5 DEF SignalResumes, hostVars, processVars
  <2>4. RoleAllows("ctrlc", "t_active") /\ "t_active" \notin Inside
    BY NotSignalled DEF RoleAllows, MonitorInit, Inside
  <2>5. \/ label = pc[p][t]
        \/ RoleAllows(t, label) /\ label \notin Inside
    <3>1. pc[p]["monitor"] # "d_idle"
      BY DEF MutexInv, Roles
    <3>2. QED
      BY <1>2, <2>1, <3>1 DEF RoleAllows, MonitorInit, Terminating, Inside
  <2>6. Alive(p)'
    BY <1>3, <2>2, <2>5 DEF Alive, RoleAllows
  <2>7. QED
    BY <1>3, <2>2, <2>3, <2>4, <2>5, <2>6, QuietMutex
<1>6. CASE SignalInterruptsWait(p, t)
  <2>1. Exit(p)
    BY <1>4, <1>6 DEF SignalInterruptsWait, Terminating
  <2>2. QED
    BY <2>1, ExitMutex DEF Exit, hostVars, MutexInv, SemaphoreOpen
<1>7. QED
  BY <1>1, <1>5, <1>6

LEMMA EnvironmentMutex ==
  ASSUME MutexInv, TypeOK', NEW p \in Process, Environment(p)
  PROVE  MutexInv'
<1>. USE Threads
<1>1. CASE Boot(p)
  BY <1>1, BootMutex
<1>2. CASE InitialiseFails(p)
  BY <1>2, InitialiseFailsMutex
<1>3. CASE MonitorGivesUp(p)
  <2>1. Local(p, "monitor", "m_body", "t_body") /\ Alive(p)
    BY <1>3 DEF MonitorGivesUp, Local, Step, Alive
  <2>2. QED
    BY <2>1, LockStepMutex DEF RoleAllows, Terminating, MonitorInit, Inside
<1>4. CASE AcceptFails(p)
  <2>1. Local(p, "tcp", "accept", "t_active") /\ Alive(p)
    BY <1>4, Running DEF AcceptFails, Local, Step
  <2>2. RoleAllows("tcp", "t_active") /\ "t_active" \notin Inside
    BY NotSignalled DEF RoleAllows, MonitorInit, Inside
  <2>3. QED
    BY <2>1, <2>2, LockStepMutex
<1>5. CASE \E d \in Daemon : DaemonUpdateFails(p, d)
  <2>1. PICK d \in Daemon : Local(p, d, "d_body", "t_body")
    BY <1>5 DEF DaemonUpdateFails
  <2>2. Alive(p)
    BY <2>1, Running DEF Local, Step
  <2>3. RoleAllows(d, "t_body") /\ "d_body" \in Inside
    BY DEF RoleAllows, MonitorInit, Terminating, Inside
  <2>4. QED
    BY <2>1, <2>2, <2>3, LockStepMutex
<1>6. CASE \E h \in Handler : Request(p, h)
  <2>1. PICK h \in Handler, next \in {"h_cr", "t_active"} :
          Local(p, h, "off", next)
    BY <1>6 DEF Request
  <2>2. Alive(p)
    BY <1>6, Running DEF Request
  <2>3. RoleAllows(h, next) /\ next \notin Inside
    BY ThreadsAreDistinct, NotSignalled DEF RoleAllows, MonitorInit, Inside
  <2>4. QED
    BY <2>1, <2>2, <2>3, LockStepMutex
<1>7. CASE Signal(p)
  BY <1>7, SignalMutex
<1>8. CASE Kill(p)
  BY <1>8, ExitMutex DEF Kill, Exit, hostVars, MutexInv, SemaphoreOpen
<1>9. QED
  BY <1>1, <1>2, <1>3, <1>4, <1>5, <1>6, <1>7, <1>8 DEF Environment

\* Every step keeps the invariant.
LEMMA NextMutex ==
  ASSUME SignalsOrFailures, MutexInv, [Next]_vars PROVE MutexInv'
<1>1. TypeOK'
  BY NextType DEF MutexInv
<1>2. ASSUME NEW p \in Process, ProcessStep(p) PROVE MutexInv'
  BY <1>1, <1>2, InitialiseMutex, MonitorMutex, DaemonMutex, HandlerMutex,
     TerminateMutex DEF ProcessStep
<1>3. ASSUME NEW p \in Process, Environment(p) PROVE MutexInv'
  BY <1>1, <1>3, EnvironmentMutex
<1>4. ASSUME UNCHANGED <<starts, semName, semValue, mapLock, pc>> PROVE MutexInv'
  <2>1. ThreadsAlive' /\ SemaphoreOpen' /\ Roles' /\ NotInterrupted'
    BY <1>4 DEF MutexInv, ThreadsAlive, SemaphoreOpen, Roles, NotInterrupted,
                Alive, Interrupts
  <2>2. SemaphoreBinary' /\ SemaphoreMutex'
    BY <1>4 DEF MutexInv, SemaphoreBinary, SemaphoreMutex, InMapping
  <2>3. QED
    BY <1>1, <2>1, <2>2 DEF MutexInv
<1>5. CASE Age
  BY <1>4, <1>5 DEF Age, processVars
<1>6. CASE UNCHANGED vars
  BY <1>4, <1>6 DEF vars, hostVars, processVars
<1>7. QED
  BY <1>2, <1>3, <1>5, <1>6 DEF Next, Finished

\* Threads that use one semaphore exclude each other (syncmapping_acquire and
\* syncmapping_release), whatever processes start, die, fail or undo.
THEOREM SemaphoreExclusion ==
  ASSUME SignalsOrFailures
  PROVE  Spec => []SemaphoreMutex
<1>1. Init => MutexInv
  BY InitMutex
<1>2. MutexInv /\ [Next]_vars => MutexInv'
  BY NextMutex
<1>3. MutexInv => SemaphoreMutex
  BY DEF MutexInv
<1>4. QED
  BY <1>1, <1>2, <1>3, PTL DEF Spec

-----------------------------------------------------------------------------
(* One semaphore for all, unless a first server undoes its creation.       *)

FailLabel == {"fail_release", "fail_unlink", "fail_delete"}

OneName ==
  \A p \in Process :
    /\ Alive(p) => mapLock[p] = semName
    /\ pc[p]["monitor"] \notin FailLabel

LEMMA QuietName ==
  ASSUME OneName, NEW p \in Process, UNCHANGED <<semName, mapLock>>, Alive(p),
         \A q \in Process \ {p} : pc'[q] = pc[q],
         pc'[p]["monitor"] \notin FailLabel
  PROVE  OneName'
BY DEF OneName, Alive

LEMMA StepName ==
  ASSUME MutexInv, OneName, NEW p \in Process, NEW t \in Thread,
         NEW from, NEW to, Step(p, t, from, to),
         UNCHANGED <<semName, mapLock>>, to \notin FailLabel,
         from # "off" \/ Alive(p)
  PROVE  OneName'
<1>1. /\ \A q \in Process \ {p} : pc'[q] = pc[q]
      /\ \A u \in Thread \ {t} : pc'[p][u] = pc[p][u]
      /\ pc[p][t] = from /\ pc'[p][t] = to
  BY StepChanges DEF MutexInv
<1>2. Alive(p) /\ pc'[p]["monitor"] \notin FailLabel
  BY <1>1, Running, Threads DEF OneName
<1>3. QED
  BY <1>1, <1>2, QuietName

LEMMA LockStepName ==
  ASSUME MutexInv, OneName, NEW p \in Process, NEW t \in Thread,
         NEW from, NEW to,
         \/ TakeActive(p, t, from, to) \/ DropActive(p, t, from, to)
         \/ TakeCr(p, t, from, to) \/ DropCr(p, t, from, to)
         \/ SemWait(p, t, from, to) \/ SemPost(p, t, from, to)
         \/ Local(p, t, from, to),
         to \notin FailLabel, from # "off" \/ Alive(p)
  PROVE  OneName'
<1>1. Step(p, t, from, to) /\ UNCHANGED <<semName, mapLock>>
  BY DEF TakeActive, DropActive, TakeCr, DropCr, SemWait, SemPost, Local,
         hostVars, processVars
<1>2. QED
  BY <1>1, StepName

LEMMA ExitName ==
  ASSUME MutexInv, OneName, NEW p \in Process, ExitProcess(p),
         semName' = semName
  PROVE  OneName'
<1>1. /\ \A q \in Process \ {p} : pc'[q] = pc[q] /\ mapLock'[q] = mapLock[q]
      /\ pc'[p]["monitor"] = "off"
  BY Threads DEF MutexInv, TypeOK, ExitProcess
<1>2. QED
  BY <1>1 DEF OneName, Alive, FailLabel

LEMMA InitialiseName ==
  ASSUME MutexInv, OneName, NEW p \in Process, Initialise(p) PROVE OneName'
<1>. USE Threads
<1>1. {"init_body", "init_release", "startup", "m_idle", "t_active",
       "abort_exit"} \cap FailLabel = {}
  BY DEF FailLabel
<1>2. CASE \/ SemWait(p, "monitor", "init_map", "init_body")
           \/ SemPost(p, "monitor", "init_release", "startup")
           \/ AbortRelease(p)
  BY <1>1, <1>2, LockStepName DEF AbortRelease
<1>3. CASE InitCreate(p)
  <2>1. pc'[p]["monitor"] \in {"init_release", "d_new"}
    BY <1>3 DEF InitCreate, FreeDaemon, MutexInv, TypeOK
  <2>2. /\ \A q \in Process \ {p} : pc'[q] = pc[q]
        /\ Alive(p) /\ UNCHANGED <<semName, mapLock>>
    BY <1>3 DEF InitCreate, MakeFile, Alive, MutexInv, TypeOK
  <2>3. QED
    BY <2>1, <2>2, QuietName DEF FailLabel
<1>4. CASE InitOpen(p)
  <2>1. /\ Step(p, "monitor", "init_body", "init_release")
        /\ UNCHANGED <<semName, mapLock>>
    BY <1>4 DEF InitOpen
  <2>2. QED
    BY <1>1, <2>1, StepName
<1>5. CASE Startup(p)
  <2>1. CASE Local(p, "monitor", "startup", "t_active")
    BY <1>1, <2>1, LockStepName
  <2>2. CASE /\ pc[p]["monitor"] = "startup"
             /\ pc' = [pc EXCEPT ![p] = [@ EXCEPT !["monitor"] = "m_idle",
                                                  !["tcp"] = "accept"]]
             /\ UNCHANGED <<starts, hostVars, processVars, activeLock, crLock>>
    <3>1. /\ pc'[p]["monitor"] = "m_idle"
          /\ \A q \in Process \ {p} : pc'[q] = pc[q]
          /\ Alive(p) /\ UNCHANGED <<semName, mapLock>>
      BY <2>2 DEF Alive, MutexInv, TypeOK, hostVars, processVars
    <3>2. QED
      BY <3>1, QuietName DEF FailLabel
  <2>3. QED
    BY <1>5, <2>1, <2>2 DEF Startup
<1>6. ~FailRelease(p) /\ ~FailUnlink(p) /\ ~FailDelete(p)
  BY DEF OneName, FailLabel, FailRelease, FailUnlink, FailDelete, SemPost, Step
<1>7. CASE AbortExit(p)
  BY <1>7, ExitName DEF AbortExit, Exit, hostVars
<1>8. QED
  BY <1>2, <1>3, <1>4, <1>5, <1>6, <1>7 DEF Initialise

LEMMA ThreadsName ==
  ASSUME MutexInv, OneName, NEW p \in Process, ProcessStep(p) PROVE OneName'
<1>. USE Threads
<1>1. CASE Initialise(p)
  BY <1>1, InitialiseName
<1>2. CASE Monitor(p)
  <2>1. CASE MonitorTakeOver(p)
    <3>1. pc'[p]["monitor"] \in {"m_unmap", "t_body", "d_new"}
      BY <2>1 DEF MonitorTakeOver, AfterRound, FreeDaemon, MutexInv, TypeOK
    <3>2. /\ \A q \in Process \ {p} : pc'[q] = pc[q]
          /\ Alive(p) /\ UNCHANGED <<semName, mapLock>>
      BY <2>1 DEF MonitorTakeOver, Alive, MutexInv, TypeOK
    <3>3. QED
      BY <3>1, <3>2, QuietName DEF FailLabel
  <2>2. CASE MonitorRound(p)
    <3>1. PICK next \in {"m_unmap", "t_body"} : Local(p, "monitor", "m_body", next)
      BY <2>2 DEF MonitorRound, AfterRound
    <3>2. QED
      BY <3>1, LockStepName DEF FailLabel
  <2>3. CASE MonitorWake(p) \/ MonitorSent(p)
    BY <2>3, LockStepName DEF MonitorWake, MonitorSent, FailLabel
  <2>4. CASE \/ SemWait(p, "monitor", "m_map", "m_body")
             \/ SemPost(p, "monitor", "m_unmap", "m_unactive")
             \/ DropActive(p, "monitor", "m_unactive", "m_cr")
             \/ TakeCr(p, "monitor", "m_cr", "m_send")
    BY <2>4, LockStepName DEF FailLabel
  <2>5. QED
    BY <1>2, <2>1, <2>2, <2>3, <2>4 DEF Monitor
<1>3. ASSUME NEW d \in Daemon, DaemonThread(p, d) PROVE OneName'
  <2>1. CASE \E from \in {"d_new", "d_idle"} : TakeActive(p, d, from, "d_map")
    BY <2>1, LockStepName DEF FailLabel
  <2>2. CASE DaemonUpdate(p, d)
    <3>1. Step(p, d, "d_body", "d_unmap") /\ UNCHANGED <<semName, mapLock>>
      BY <2>2 DEF DaemonUpdate, processVars
    <3>2. QED
      BY <3>1, StepName DEF FailLabel
  <2>3. CASE \/ DaemonQuits(p, d) \/ SemWait(p, d, "d_map", "d_body")
             \/ SemPost(p, d, "d_unmap", "d_unactive")
             \/ DropActive(p, d, "d_unactive", "d_idle")
             \/ SemPost(p, d, "dq_unmap", "dq_unactive")
             \/ DropActive(p, d, "dq_unactive", "off")
    BY <2>3, LockStepName DEF DaemonQuits, FailLabel
  <2>4. QED
    BY <1>3, <2>1, <2>2, <2>3 DEF DaemonThread
<1>4. ASSUME NEW h \in Handler, HandlerThread(p, h) PROVE OneName'
  <2>1. CASE Command(p, h)
    <3>1. PICK next \in {"h_reply", "h_active"} : Local(p, h, "h_command", next)
      BY <2>1 DEF Command
    <3>2. QED
      BY <3>1, LockStepName DEF FailLabel
  <2>2. CASE ~Command(p, h)
    BY <1>4, <2>2, LockStepName DEF HandlerThread, Reply, FailLabel
  <2>3. QED
    BY <2>1, <2>2
<1>5. ASSUME NEW t \in Thread, Terminate(p, t) PROVE OneName'
  <2>1. CASE TerminateCrashes(p, t) \/ TerminateExit(p, t)
    BY <2>1, ExitName DEF TerminateCrashes, TerminateExit, Exit, hostVars
  <2>2. CASE TerminateBody(p, t)
    <3>1. /\ \A q \in Process \ {p} : pc'[q] = pc[q]
          /\ UNCHANGED <<semName, mapLock>>
          /\ pc'[p]["monitor"] \in {"t_release", "off", pc[p]["monitor"]}
      BY <2>2 DEF TerminateBody, MutexInv, TypeOK
    <3>2. Alive(p)
      BY <2>2, Running DEF TerminateBody
    <3>3. QED
      BY <3>1, <3>2, QuietName DEF OneName, FailLabel
  <2>3. CASE \/ TakeActive(p, t, "t_active", "t_map")
             \/ SemWait(p, t, "t_map", "t_body")
             \/ SemPost(p, t, "t_release", "t_exit")
    BY <2>3, LockStepName DEF FailLabel
  <2>4. QED
    BY <1>5, <2>1, <2>2, <2>3 DEF Terminate
<1>6. QED
  BY <1>1, <1>2, <1>3, <1>4, <1>5 DEF ProcessStep

LEMMA EnvironmentName ==
  ASSUME "vanish" \notin Faults, MutexInv, OneName, NEW p \in Process,
         Environment(p)
  PROVE  OneName'
<1>. USE Threads
<1>1. CASE Boot(p)
  <2>1. /\ \A q \in Process \ {p} : pc'[q] = pc[q] /\ mapLock'[q] = mapLock[q]
        /\ pc'[p]["monitor"] = "init_map" /\ mapLock'[p] = semName'
    BY <1>1 DEF Boot, Goto, MutexInv, TypeOK
  <2>2. semName' = semName \/ \A q \in Process : ~Alive(q)
    <3>1. CASE semName = 0
      BY <3>1 DEF OneName, MutexInv, SemaphoreOpen
    <3>2. CASE semName # 0
      BY <1>1, <3>2 DEF Boot
    <3>3. QED
      BY <3>1, <3>2
  <2>3. QED
    BY <2>1, <2>2 DEF OneName, Alive, FailLabel
<1>2. CASE InitialiseFails(p)
  <2>1. CASE InitNoDaemon(p)
    BY <2>1, ExitName DEF InitNoDaemon
  <2>2. CASE InitOpenFails(p)
    <3>1. /\ Step(p, "monitor", "init_body", "abort_release")
          /\ UNCHANGED <<semName, mapLock>>
      BY <2>2 DEF InitOpenFails
    <3>2. QED
      BY <3>1, StepName DEF FailLabel
  <2>3. QED
    BY <1>2, <2>1, <2>2 DEF InitialiseFails, InitCreateFails
<1>3. CASE \/ MonitorGivesUp(p) \/ AcceptFails(p)
           \/ \E d \in Daemon : DaemonUpdateFails(p, d)
  BY <1>3, LockStepName
     DEF MonitorGivesUp, AcceptFails, DaemonUpdateFails, FailLabel
<1>4. CASE \E h \in Handler : Request(p, h)
  <2>1. PICK h \in Handler, next \in {"h_cr", "t_active"} :
          Local(p, h, "off", next)
    BY <1>4 DEF Request
  <2>2. Alive(p)
    BY <1>4, Running DEF Request
  <2>3. QED
    BY <2>1, <2>2, LockStepName DEF FailLabel
<1>5. CASE Signal(p)
  <2>1. PICK t \in SignalTarget : SignalResumes(p, t) \/ SignalInterruptsWait(p, t)
    BY <1>5 DEF Signal
  <2>2. ASSUME NEW label, label \notin FailLabel \/ label = pc[p][t],
               CtrlcThread(p, t, label), UNCHANGED <<semName, mapLock>>
        PROVE  OneName'
    <3>1. /\ \A q \in Process \ {p} : pc'[q] = pc[q]
          /\ \/ pc'[p]["monitor"] \in {"t_active", pc[p]["monitor"]}
             \/ t = "monitor" /\ pc'[p]["monitor"] = label
      BY <2>2 DEF CtrlcThread, MutexInv, TypeOK
    <3>2. pc'[p]["monitor"] \notin FailLabel
      BY <2>2, <3>1 DEF OneName, FailLabel
    <3>3. QED
      BY <1>5, <2>2, <3>1, <3>2, QuietName DEF Signal
  <2>3. CASE SignalResumes(p, t)
    BY <2>2, <2>3 DEF SignalResumes, hostVars, processVars, FailLabel
  <2>4. CASE SignalInterruptsWait(p, t)
    BY <2>2, <2>4, ExitName
       DEF SignalInterruptsWait, Exit, hostVars, processVars, FailLabel
  <2>5. QED
    BY <2>1, <2>3, <2>4
<1>6. CASE Kill(p)
  BY <1>6, ExitName DEF Kill, Exit, hostVars
<1>7. QED
  BY <1>1, <1>2, <1>3, <1>4, <1>5, <1>6 DEF Environment

LEMMA InitName == Init => OneName
BY Threads DEF Init, OneName, Alive, FailLabel

LEMMA NextName ==
  ASSUME "vanish" \notin Faults, MutexInv, OneName, [Next]_vars PROVE OneName'
<1>1. CASE Age \/ UNCHANGED vars
  <2>1. UNCHANGED <<semName, mapLock, pc>>
    BY <1>1 DEF Age, vars, hostVars, processVars
  <2>2. QED
    BY <2>1 DEF OneName, Alive
<1>2. QED
  BY <1>1, ThreadsName, EnvironmentName DEF Next, Finished

\* The mapping is used by one thread of the host at a time when no first server
\* undoes what it created, and signals do not come together with failures.
THEOREM MappingExclusion ==
  ASSUME SignalsOrFailures, "vanish" \notin Faults
  PROVE  Spec => []MappingMutex
<1>1. Init => MutexInv /\ OneName
  BY InitName, InitMutex
<1>2. MutexInv /\ OneName /\ [Next]_vars => (MutexInv /\ OneName)'
  BY NextName, NextMutex
<1>3. MutexInv /\ OneName => MappingMutex
  BY DEF MutexInv, SemaphoreMutex, ThreadsAlive, OneName, MappingMutex,
         InMapping, Inside
<1>4. QED
  BY <1>1, <1>2, <1>3, PTL DEF Spec

-----------------------------------------------------------------------------
(* The threads of a process.                                               *)

TerminateLabel == {"t_active", "t_map", "t_body", "t_release", "t_exit"}

OpenLabel == {"init_map", "init_body"}

UndoLabel == {"fail_release", "fail_unlink", "fail_delete",
              "abort_release", "abort_exit"}

\* The labels of each thread beside those of terminate_server.
RoleLabel(t) ==
  CASE t = "monitor" ->
         OpenLabel \cup UndoLabel \cup
         {"off", "init_release", "startup", "spin", "m_idle", "m_map", "m_body",
          "m_unmap", "m_unactive", "m_cr", "m_send"}
    [] t = "tcp" -> {"off", "accept"}
    [] t \in Handler ->
         {"off", "h_cr", "h_command", "h_active", "h_map", "h_body", "h_unmap",
          "h_unactive", "h_reply"}
    [] t \in Daemon ->
         {"off", "d_new", "d_idle", "d_map", "d_body", "d_unmap", "d_unactive",
          "dq_unmap", "dq_unactive"}
    [] OTHER -> {"off"}

ThreadRoles ==
  \A p \in Process : \A t \in Thread : pc[p][t] \in RoleLabel(t) \cup TerminateLabel

\* A thread that uses the mapping, or has left it for good, holds activeLock.
ActiveLabel ==
  {"m_map", "m_body", "m_unmap", "m_unactive",
   "d_map", "d_body", "d_unmap", "d_unactive", "dq_unmap", "dq_unactive",
   "h_map", "h_body", "h_unmap", "h_unactive",
   "t_map", "t_body", "t_release", "t_exit"}

HoldsActive ==
  \A p \in Process : \A t \in Thread :
    pc[p][t] \in ActiveLabel => activeLock[p] = t

\* Nothing is served before initialize_server has succeeded.
EarlyLabel == OpenLabel \cup UndoLabel \cup {"off", "init_release", "startup"}

ServesLater ==
  \A p \in Process :
    pc[p]["monitor"] \in EarlyLabel =>
      \A t \in Handler \cup {"tcp"} : pc[p][t] = "off"

ThreadInv ==
  /\ TypeOK /\ ThreadsAlive /\ SemaphoreOpen /\ ThreadRoles /\ HoldsActive
  /\ ServesLater

-----------------------------------------------------------------------------
(* The kinds of step.                                                      *)

\* How the labels of a thread follow each other in the steps that change
\* nothing but labels and locks.
Edge(from, to) ==
  \/ from = "init_map" /\ to = "init_body"
  \/ from = "init_release" /\ to = "startup"
  \/ from = "fail_release" /\ to = "fail_unlink"
  \/ from = "fail_unlink" /\ to = "fail_delete"
  \/ from = "abort_release" /\ to = "abort_exit"
  \/ from = "startup" /\ to \in {"m_idle", "t_active"}
  \/ from = "m_idle" /\ to \in {"m_map", "spin"}
  \/ from = "m_map" /\ to = "m_body"
  \/ from = "m_body" /\ to \in {"m_unmap", "t_body"}
  \/ from = "m_unmap" /\ to = "m_unactive"
  \/ from = "m_unactive" /\ to = "m_cr"
  \/ from = "m_cr" /\ to = "m_send"
  \/ from = "m_send" /\ to \in {"m_idle", "t_active"}
  \/ from = "d_new" /\ to = "d_map"
  \/ from = "d_idle" /\ to \in {"d_map", "off"}
  \/ from = "d_map" /\ to = "d_body"
  \/ from = "d_body" /\ to \in {"dq_unmap", "t_body"}
  \/ from = "d_unmap" /\ to = "d_unactive"
  \/ from = "d_unactive" /\ to = "d_idle"
  \/ from = "dq_unmap" /\ to = "dq_unactive"
  \/ from = "dq_unactive" /\ to = "off"
  \/ from = "accept" /\ to = "t_active"
  \/ from = "h_cr" /\ to = "h_command"
  \/ from = "h_command" /\ to \in {"h_reply", "h_active"}
  \/ from = "h_active" /\ to = "h_map"
  \/ from = "h_map" /\ to = "h_body"
  \/ from = "h_body" /\ to = "h_unmap"
  \/ from = "h_unmap" /\ to = "h_unactive"
  \/ from = "h_unactive" /\ to = "h_reply"
  \/ from = "h_reply" /\ to \in {"off", "t_active"}
  \/ from = "t_active" /\ to = "t_map"
  \/ from = "t_map" /\ to = "t_body"
  \/ from = "t_release" /\ to = "t_exit"

\* What starts a thread in a live process, beside the daemons.
Starts(p, t) ==
  /\ pc[p][t] = "off"
  /\ \/ t = "tcp" /\ pc'[p][t] = "accept" /\ pc'[p]["monitor"] = "m_idle"
     \/ t \in Handler /\ pc'[p][t] \in {"h_cr", "t_active"}
                      /\ pc[p]["tcp"] = "accept"
     \/ t = "ctrlc" /\ pc'[p][t] = "t_active"
          /\ (IF Initialised(p) THEN "ctrlc" ELSE "early_ctrlc") \in Faults

Moves(p, t) ==
  /\ Edge(pc[p][t], pc'[p][t])
  /\ pc'[p][t] \in RoleLabel(t) \cup TerminateLabel
  /\ pc'[p][t] = "dq_unmap" => ID[p] # daemonServer[structure[p]]
  /\ pc[p][t] = "d_idle" /\ pc'[p][t] = "off" =>
       pc'[p]["ctrlc"] # "off" /\ Interrupts # {}
  /\ pc[p][t] = "m_idle" /\ pc'[p][t] = "m_map" /\ "slow" \notin Faults =>
       \A d \in Daemon : pc[p][d] # "d_new"

\* Threads of p move, start and take or release locks.
Quiet(p) ==
  /\ Alive(p)
  /\ UNCHANGED <<starts, fileName, mappingVars, processVars>>
  /\ \A q \in Process \ {p} : pc'[q] = pc[q] /\ activeLock'[q] = activeLock[q]
  /\ \A t \in Thread : pc'[p][t] = pc[p][t] \/ Starts(p, t) \/ Moves(p, t)
  /\ \A t \in Thread : pc'[p][t] \in ActiveLabel => activeLock'[p] = t
  /\ semName' \in {semName, 0}
  /\ \A g \in 1..MaxStart \ {mapLock[p]} : semValue'[g] = semValue[g]
  /\ \/ UNCHANGED semValue /\ \A t \in Thread : InMapping(p, t) => InMapping(p, t)'
     \/ semValue'[mapLock[p]] > 0
     \/ \E t \in Thread : InMapping(p, t)'

\* The process ends and the host does not notice.
Gone(p) ==
  /\ Exit(p)
  /\ \/ pc[p]["monitor"] = "abort_exit"
     \/ \E t \in Thread : pc[p][t] = "t_exit"
     \/ \E t \in Thread : pc[p][t] = "t_body" /\ structure[p] = 0
     \/ Faults \cap {"ctrlc", "early_ctrlc", "kill"} # {}
     \/ "kill_idle" \in Faults /\ \A t \in Thread : ~InMapping(p, t)

Notable(p) ==
  \/ Boot(p) \/ InitCreate(p) \/ InitCreateFails(p) \/ InitNoDaemon(p)
  \/ InitOpen(p) \/ InitOpenFails(p) \/ FailDelete(p) \/ Gone(p)
  \/ MonitorTakeOver(p) \/ (\E d \in Daemon : DaemonUpdate(p, d))
  \/ \E t \in Thread : TerminateBody(p, t)

-----------------------------------------------------------------------------
(* Every step is of one of the kinds.                                      *)

\* A step of thread t between two labels, other than the sleep a signal ends.
Passes(p, t, from, to) ==
  /\ Edge(from, to) /\ to \in RoleLabel(t) \cup TerminateLabel
  /\ from = "d_idle" => to # "off"
  /\ to = "dq_unmap" => ID[p] # daemonServer[structure[p]]
  /\ from = "m_idle" /\ to = "m_map" /\ "slow" \notin Faults =>
       \A d \in Daemon : pc[p][d] # "d_new"

\* The threads of a live process that a step of t leaves where they were.
LEMMA OneMoves ==
  ASSUME ThreadInv, NEW p \in Process, NEW t \in Thread, NEW from, NEW to,
         Step(p, t, from, to), Passes(p, t, from, to)
  PROVE  /\ Alive(p)
         /\ \A q \in Process \ {p} : pc'[q] = pc[q]
         /\ \A u \in Thread \ {t} : pc'[p][u] = pc[p][u]
         /\ pc[p][t] = from /\ pc'[p][t] = to
         /\ \A u \in Thread : pc'[p][u] = pc[p][u] \/ Moves(p, u)
<1>1. /\ \A q \in Process \ {p} : pc'[q] = pc[q]
      /\ \A u \in Thread \ {t} : pc'[p][u] = pc[p][u]
      /\ pc[p][t] = from /\ pc'[p][t] = to
  BY StepChanges DEF ThreadInv
<1>2. Alive(p)
  <2>1. from # "off"
    BY DEF Passes, Edge
  <2>2. QED
    BY <1>1, <2>1 DEF ThreadInv, ThreadsAlive
<1>3. Moves(p, t)
  BY <1>1 DEF Passes, Moves
<1>4. QED
  BY <1>1, <1>2, <1>3

LEMMA QuietTake ==
  ASSUME ThreadInv, NEW p \in Process, NEW t \in Thread, NEW from, NEW to,
         TakeActive(p, t, from, to), Passes(p, t, from, to),
         from \notin Inside
  PROVE  Quiet(p)
<1>1. Step(p, t, from, to)
  BY DEF TakeActive
<1>2. /\ \A q \in Process \ {p} : activeLock'[q] = activeLock[q]
      /\ activeLock'[p] = t
  BY DEF TakeActive, ThreadInv, TypeOK
<1>3. \A u \in Thread : pc[p][u] \notin ActiveLabel
  BY ThreadsAreDistinct DEF TakeActive, ThreadInv, HoldsActive
<1>4. \A u \in Thread : pc'[p][u] \in ActiveLabel => activeLock'[p] = u
  BY <1>1, <1>2, <1>3, OneMoves
<1>5. \A u \in Thread : InMapping(p, u) => InMapping(p, u)'
  BY <1>1, OneMoves DEF InMapping
<1>6. UNCHANGED <<starts, fileName, mappingVars, processVars, semName, semValue>>
  BY DEF TakeActive, hostVars
<1>7. QED
  BY <1>1, <1>2, <1>4, <1>5, <1>6, OneMoves DEF Quiet
\* A step that leaves activeLock where it is.
LEMMA HoldsOn ==
  ASSUME ThreadInv, NEW p \in Process, NEW t \in Thread, NEW from, NEW to,
         Step(p, t, from, to), Passes(p, t, from, to), UNCHANGED activeLock,
         to \in ActiveLabel => from \in ActiveLabel
  PROVE  \A u \in Thread : pc'[p][u] \in ActiveLabel => activeLock'[p] = u
<1>1. \A u \in Thread : pc'[p][u] \in ActiveLabel => pc[p][u] \in ActiveLabel
  BY OneMoves
<1>2. QED
  BY <1>1 DEF ThreadInv, HoldsActive

LEMMA QuietDrop ==
  ASSUME ThreadInv, NEW p \in Process, NEW t \in Thread, NEW from, NEW to,
         DropActive(p, t, from, to), Passes(p, t, from, to),
         from \in ActiveLabel \ Inside, to \notin ActiveLabel
  PROVE  Quiet(p)
<1>1. Step(p, t, from, to)
  BY DEF DropActive
<1>2. \A q \in Process \ {p} : activeLock'[q] = activeLock[q]
  BY DEF DropActive, ThreadInv, TypeOK
<1>3. \A u \in Thread \ {t} : pc[p][u] \notin ActiveLabel
  BY <1>1, OneMoves DEF ThreadInv, HoldsActive
<1>4. \A u \in Thread : pc'[p][u] \notin ActiveLabel
  BY <1>1, <1>3, OneMoves
<1>5. \A u \in Thread : InMapping(p, u) => InMapping(p, u)'
  BY <1>1, OneMoves DEF InMapping
<1>6. UNCHANGED <<starts, fileName, mappingVars, processVars, semName, semValue>>
  BY DEF DropActive, hostVars
<1>7. QED
  BY <1>1, <1>2, <1>4, <1>5, <1>6, OneMoves DEF Quiet

LEMMA QuietLocal ==
  ASSUME ThreadInv, NEW p \in Process, NEW t \in Thread, NEW from, NEW to,
         \/ TakeCr(p, t, from, to) \/ DropCr(p, t, from, to)
         \/ Local(p, t, from, to),
         Passes(p, t, from, to),
         from \in Inside => to \in Inside,
         to \in ActiveLabel => from \in ActiveLabel
  PROVE  Quiet(p)
<1>1. Step(p, t, from, to) /\ UNCHANGED activeLock
  BY DEF TakeCr, DropCr, Local
<1>2. \A u \in Thread : InMapping(p, u) => InMapping(p, u)'
  BY <1>1, OneMoves DEF InMapping
<1>3. UNCHANGED <<starts, fileName, mappingVars, processVars, semName, semValue>>
  BY DEF TakeCr, DropCr, Local, hostVars
<1>4. QED
  BY <1>1, <1>2, <1>3, OneMoves, HoldsOn DEF Quiet

LEMMA QuietWait ==
  ASSUME ThreadInv, NEW p \in Process, NEW t \in Thread, NEW from, NEW to,
         SemWait(p, t, from, to), Passes(p, t, from, to), to \in Inside,
         to \in ActiveLabel => from \in ActiveLabel
  PROVE  Quiet(p)
<1>1. Step(p, t, from, to) /\ UNCHANGED activeLock
  BY DEF SemWait
<1>2. InMapping(p, t)'
  BY <1>1, OneMoves DEF InMapping
<1>3. /\ UNCHANGED <<starts, fileName, mappingVars, processVars, semName>>
      /\ \A g \in 1..MaxStart \ {mapLock[p]} : semValue'[g] = semValue[g]
  BY DEF SemWait, ThreadInv, TypeOK
<1>4. QED
  BY <1>1, <1>2, <1>3, OneMoves, HoldsOn DEF Quiet

LEMMA QuietPost ==
  ASSUME ThreadInv, NEW p \in Process, NEW t \in Thread, NEW from, NEW to,
         SemPost(p, t, from, to), Passes(p, t, from, to),
         to \in ActiveLabel => from \in ActiveLabel
  PROVE  Quiet(p)
<1>1. Step(p, t, from, to) /\ UNCHANGED activeLock
  BY DEF SemPost
<1>2. semValue'[mapLock[p]] > 0
  <2>1. mapLock[p] \in 1..MaxStart
    BY <1>1, OneMoves DEF ThreadInv, SemaphoreOpen, TypeOK
  <2>2. QED
    BY <2>1 DEF SemPost, ThreadInv, TypeOK
<1>3. /\ UNCHANGED <<starts, fileName, mappingVars, processVars, semName>>
      /\ \A g \in 1..MaxStart \ {mapLock[p]} : semValue'[g] = semValue[g]
  BY DEF SemPost, ThreadInv, TypeOK
<1>4. QED
  BY <1>1, <1>2, <1>3, OneMoves, HoldsOn DEF Quiet

\* The labels of each role.
LEMMA RoleLabels ==
  /\ RoleLabel("monitor") =
       OpenLabel \cup UndoLabel \cup
       {"off", "init_release", "startup", "spin", "m_idle", "m_map", "m_body",
        "m_unmap", "m_unactive", "m_cr", "m_send"}
  /\ RoleLabel("tcp") = {"off", "accept"}
  /\ RoleLabel("ctrlc") = {"off"}
  /\ \A h \in Handler : RoleLabel(h) =
       {"off", "h_cr", "h_command", "h_active", "h_map", "h_body", "h_unmap",
        "h_unactive", "h_reply"}
  /\ \A d \in Daemon : RoleLabel(d) =
       {"off", "d_new", "d_idle", "d_map", "d_body", "d_unmap", "d_unactive",
        "dq_unmap", "dq_unactive"}
<1>1. \A h \in Handler : h # "monitor" /\ h # "tcp" /\ h \notin Daemon
  BY ThreadsAreDistinct
<1>2. \A d \in Daemon : d # "monitor" /\ d # "tcp" /\ d \notin Handler
  BY ThreadsAreDistinct
<1>3. "ctrlc" \notin Handler /\ "ctrlc" \notin Daemon
  BY ThreadsAreDistinct
<1>4. QED
  BY <1>1, <1>2, <1>3 DEF RoleLabel

LEMMA InitialiseKind ==
  ASSUME ThreadInv, NEW p \in Process, Initialise(p)
  PROVE  Quiet(p) \/ Notable(p)
<1>. USE Threads, RoleLabels
<1>1. CASE SemWait(p, "monitor", "init_map", "init_body")
  BY <1>1, QuietWait DEF Passes, Edge, Inside, OpenLabel, ActiveLabel
<1>2. CASE InitCreate(p) \/ InitOpen(p) \/ FailDelete(p)
  BY <1>2 DEF Notable
<1>3. CASE SemPost(p, "monitor", "init_release", "startup")
  BY <1>3, QuietPost DEF Passes, Edge, ActiveLabel
<1>4. CASE Startup(p)
  <2>1. CASE Local(p, "monitor", "startup", "t_active")
    BY <2>1, QuietLocal DEF Passes, Edge, Inside, ActiveLabel, TerminateLabel
  <2>2. CASE /\ pc[p]["monitor"] = "startup"
             /\ pc' = [pc EXCEPT ![p] = [@ EXCEPT !["monitor"] = "m_idle",
                                                  !["tcp"] = "accept"]]
             /\ UNCHANGED <<starts, hostVars, processVars, activeLock, crLock>>
    <3>1. /\ \A q \in Process \ {p} : pc'[q] = pc[q]
          /\ \A u \in Thread \ {"monitor", "tcp"} : pc'[p][u] = pc[p][u]
          /\ pc'[p]["monitor"] = "m_idle" /\ pc'[p]["tcp"] = "accept"
      BY <2>2 DEF ThreadInv, TypeOK
    <3>2. pc[p]["tcp"] = "off"
      BY <2>2 DEF ThreadInv, ServesLater, EarlyLabel
    <3>3. Starts(p, "tcp") /\ Alive(p)
      BY <2>2, <3>1, <3>2 DEF Starts, Alive
    <3>4. Moves(p, "monitor")
      BY <2>2, <3>1, ThreadsAreDistinct DEF Moves, Edge
    <3>5. UNCHANGED <<starts, fileName, mappingVars, processVars, semName,
                      semValue, activeLock>>
      BY <2>2 DEF hostVars
    <3>6. \A u \in Thread : pc'[p][u] \in ActiveLabel => pc[p][u] \in ActiveLabel
      BY <3>1 DEF ActiveLabel
    <3>7. \A u \in Thread : pc'[p][u] \in ActiveLabel => activeLock'[p] = u
      BY <3>5, <3>6 DEF ThreadInv, HoldsActive
    <3>8. \A u \in Thread : InMapping(p, u) => InMapping(p, u)'
      BY <2>2, <3>1, <3>2 DEF InMapping, Inside
    <3>9. QED
      BY <3>1, <3>3, <3>4, <3>5, <3>7, <3>8 DEF Quiet
  <2>3. QED
    BY <1>4, <2>1, <2>2 DEF Startup
<1>5. CASE FailRelease(p) \/ AbortRelease(p)
  BY <1>5, QuietPost
     DEF FailRelease, AbortRelease, Passes, Edge, ActiveLabel, UndoLabel
<1>6. CASE FailUnlink(p)
  <2>1. /\ Step(p, "monitor", "fail_unlink", "fail_delete")
        /\ Passes(p, "monitor", "fail_unlink", "fail_delete")
        /\ UNCHANGED activeLock
    BY <1>6 DEF FailUnlink, Passes, Edge, UndoLabel
  <2>2. \A u \in Thread : InMapping(p, u) => InMapping(p, u)'
    BY <2>1, OneMoves DEF InMapping, Inside
  <2>3. /\ UNCHANGED <<starts, fileName, mappingVars, processVars, semValue>>
        /\ semName' = 0
    BY <1>6 DEF FailUnlink
  <2>4. QED
    BY <2>1, <2>2, <2>3, OneMoves, HoldsOn DEF Quiet, ActiveLabel
<1>7. CASE AbortExit(p)
  BY <1>7 DEF AbortExit, Notable, Gone
<1>8. QED
  BY <1>1, <1>2, <1>3, <1>4, <1>5, <1>6, <1>7 DEF Initialise

LEMMA MonitorKind ==
  ASSUME ThreadInv, NEW p \in Process, Monitor(p) PROVE Quiet(p) \/ Notable(p)
<1>. USE Threads, RoleLabels
<1>1. CASE MonitorWake(p)
  <2>1. Passes(p, "monitor", "m_idle", "m_map")
    BY <1>1 DEF MonitorWake, Passes, Edge
  <2>2. QED
    BY <1>1, <2>1, QuietTake DEF MonitorWake, Inside
<1>2. CASE SemWait(p, "monitor", "m_map", "m_body")
  BY <1>2, QuietWait DEF Passes, Edge, Inside, ActiveLabel
<1>3. CASE MonitorRound(p)
  <2>1. PICK next \in {"m_unmap", "t_body"} : Local(p, "monitor", "m_body", next)
    BY <1>3 DEF MonitorRound, AfterRound
  <2>2. Passes(p, "monitor", "m_body", next)
    BY DEF Passes, Edge, TerminateLabel
  <2>3. QED
    BY <2>1, <2>2, QuietLocal DEF Inside, ActiveLabel
<1>4. CASE MonitorTakeOver(p)
  BY <1>4 DEF Notable
<1>5. CASE SemPost(p, "monitor", "m_unmap", "m_unactive")
  BY <1>5, QuietPost DEF Passes, Edge, ActiveLabel
<1>6. CASE DropActive(p, "monitor", "m_unactive", "m_cr")
  BY <1>6, QuietDrop DEF Passes, Edge, ActiveLabel, Inside
<1>7. CASE TakeCr(p, "monitor", "m_cr", "m_send")
  BY <1>7, QuietLocal DEF Passes, Edge, ActiveLabel, Inside
<1>8. CASE MonitorSent(p)
  BY <1>8, QuietLocal DEF MonitorSent, Passes, Edge, ActiveLabel, Inside,
                          TerminateLabel
<1>9. QED
  BY <1>1, <1>2, <1>3, <1>4, <1>5, <1>6, <1>7, <1>8 DEF Monitor

LEMMA DaemonKind ==
  ASSUME ThreadInv, NEW p \in Process, NEW d \in Daemon, DaemonThread(p, d)
  PROVE  Quiet(p) \/ Notable(p)
<1>. USE Threads, RoleLabels
<1>1. CASE \E from \in {"d_new", "d_idle"} : TakeActive(p, d, from, "d_map")
  BY <1>1, QuietTake DEF Passes, Edge, Inside
<1>2. CASE SemWait(p, d, "d_map", "d_body")
  BY <1>2, QuietWait DEF Passes, Edge, Inside, ActiveLabel
<1>3. CASE DaemonUpdate(p, d)
  BY <1>3 DEF Notable
<1>4. CASE DaemonQuits(p, d)
  <2>1. Passes(p, d, "d_body", "dq_unmap") /\ Local(p, d, "d_body", "dq_unmap")
    BY <1>4 DEF DaemonQuits, Passes, Edge
  <2>2. QED
    BY <2>1, QuietLocal DEF Inside, ActiveLabel
<1>5. CASE \/ SemPost(p, d, "d_unmap", "d_unactive")
           \/ SemPost(p, d, "dq_unmap", "dq_unactive")
  BY <1>5, QuietPost DEF Passes, Edge, ActiveLabel
<1>6. CASE \/ DropActive(p, d, "d_unactive", "d_idle")
           \/ DropActive(p, d, "dq_unactive", "off")
  BY <1>6, QuietDrop DEF Passes, Edge, ActiveLabel, Inside
<1>7. QED
  BY <1>1, <1>2, <1>3, <1>4, <1>5, <1>6 DEF DaemonThread

LEMMA HandlerKind ==
  ASSUME ThreadInv, NEW p \in Process, NEW h \in Handler, HandlerThread(p, h)
  PROVE  Quiet(p)
<1>. USE Threads, RoleLabels
<1>1. CASE TakeCr(p, h, "h_cr", "h_command") \/ Reply(p, h)
  BY <1>1, QuietLocal DEF Reply, Passes, Edge, Inside, ActiveLabel, TerminateLabel
<1>2. CASE Command(p, h)
  <2>1. PICK next \in {"h_reply", "h_active"} : Local(p, h, "h_command", next)
    BY <1>2 DEF Command
  <2>2. QED
    BY <2>1, QuietLocal DEF Passes, Edge, Inside, ActiveLabel
<1>3. CASE TakeActive(p, h, "h_active", "h_map")
  BY <1>3, QuietTake DEF Passes, Edge, Inside
<1>4. CASE SemWait(p, h, "h_map", "h_body")
  BY <1>4, QuietWait DEF Passes, Edge, Inside, ActiveLabel
<1>5. CASE Local(p, h, "h_body", "h_unmap")
  BY <1>5, QuietLocal DEF Passes, Edge, Inside, ActiveLabel
<1>6. CASE SemPost(p, h, "h_unmap", "h_unactive")
  BY <1>6, QuietPost DEF Passes, Edge, ActiveLabel
<1>7. CASE DropActive(p, h, "h_unactive", "h_reply")
  BY <1>7, QuietDrop DEF Passes, Edge, ActiveLabel, Inside
<1>8. QED
  BY <1>1, <1>2, <1>3, <1>4, <1>5, <1>6, <1>7 DEF HandlerThread

LEMMA TerminateKind ==
  ASSUME ThreadInv, NEW p \in Process, NEW t \in Thread, Terminate(p, t)
  PROVE  Quiet(p) \/ Notable(p)
<1>1. CASE TakeActive(p, t, "t_active", "t_map")
  BY <1>1, QuietTake DEF Passes, Edge, Inside, TerminateLabel
<1>2. CASE SemWait(p, t, "t_map", "t_body")
  BY <1>2, QuietWait DEF Passes, Edge, Inside, ActiveLabel, TerminateLabel
<1>3. CASE TerminateCrashes(p, t) \/ TerminateExit(p, t)
  BY <1>3 DEF TerminateCrashes, TerminateExit, Notable, Gone
<1>4. CASE TerminateBody(p, t)
  BY <1>4 DEF Notable
<1>5. CASE SemPost(p, t, "t_release", "t_exit")
  BY <1>5, QuietPost DEF Passes, Edge, ActiveLabel, TerminateLabel
<1>6. QED
  BY <1>1, <1>2, <1>3, <1>4, <1>5 DEF Terminate

LEMMA SignalKind ==
  ASSUME ThreadInv, NEW p \in Process, Signal(p) PROVE Quiet(p) \/ Notable(p)
<1>. USE Threads, RoleLabels
<1>1. PICK t \in SignalTarget :
        pc[p][t] # "off" /\ (SignalResumes(p, t) \/ SignalInterruptsWait(p, t))
  BY DEF Signal
<1>2. /\ t \in Thread /\ t # "ctrlc" /\ t # "tcp" /\ t \notin Handler
      /\ t = "monitor" \/ t \in Daemon
  BY SignalTargets, ThreadsAreDistinct
<1>3. Interrupts # {} /\ Faults \cap {"ctrlc", "early_ctrlc", "kill"} # {}
  BY DEF Signal, Interrupts
<1>4. ASSUME NEW label, CtrlcThread(p, t, label),
             \/ label = pc[p][t]
             \/ pc[p][t] = "m_idle" /\ label = "spin"
             \/ pc[p][t] = "d_idle" /\ label = "off"
             \/ pc[p][t] = "t_map" /\ label = "t_body",
             UNCHANGED <<starts, hostVars, processVars, activeLock, crLock>>
      PROVE  Quiet(p)
  <2>1. /\ \A q \in Process \ {p} : pc'[q] = pc[q]
        /\ \A u \in Thread \ {t, "ctrlc"} : pc'[p][u] = pc[p][u]
        /\ pc'[p][t] = label
        /\ pc'[p]["ctrlc"] = IF pc[p]["ctrlc"] = "off" THEN "t_active"
                                                       ELSE pc[p]["ctrlc"]
    BY <1>2, <1>4 DEF CtrlcThread, ThreadInv, TypeOK
  <2>2. Alive(p)
    BY DEF Signal
  <2>3. pc[p]["ctrlc"] = "off" => Starts(p, "ctrlc")
    BY <2>1, ThreadsAreDistinct DEF Starts, Signal
  <2>4. label = pc[p][t] \/ Moves(p, t)
    <3>1. t = "monitor" => pc[p][t] # "d_idle"
      <4>1. pc[p]["monitor"] \in RoleLabel("monitor") \cup TerminateLabel
        BY DEF ThreadInv, ThreadRoles
      <4>2. "d_idle" \notin RoleLabel("monitor") \cup TerminateLabel
        BY DEF RoleLabel, TerminateLabel, OpenLabel, UndoLabel
      <4>3. QED
        BY <4>1, <4>2
    <3>2. t \in Daemon => pc[p][t] # "m_idle"
      <4>1. t \in Daemon => pc[p][t] \in RoleLabel(t) \cup TerminateLabel
        BY <1>2 DEF ThreadInv, ThreadRoles
      <4>2. t \in Daemon => "m_idle" \notin RoleLabel(t) \cup TerminateLabel
        BY DEF TerminateLabel
      <4>3. QED
        BY <4>1, <4>2
    <3>3. label # pc[p][t] => label \in RoleLabel(t) \cup TerminateLabel
      BY <1>2, <1>4, <3>1, <3>2 DEF TerminateLabel
    <3>4. pc'[p]["ctrlc"] # "off"
      BY <2>1
    <3>5. label # pc[p][t] => Edge(pc[p][t], label)
      BY <1>4 DEF Edge
    <3>6. QED
      BY <1>3, <1>4, <2>1, <3>3, <3>4, <3>5 DEF Moves
  <2>5. /\ UNCHANGED <<starts, fileName, mappingVars, processVars, semName,
                       semValue, activeLock>>
    BY <1>4 DEF hostVars
  <2>6. \A u \in Thread : pc'[p][u] \in ActiveLabel => pc[p][u] \in ActiveLabel
    BY <1>4, <2>1 DEF ActiveLabel
  <2>7. \A u \in Thread : pc'[p][u] \in ActiveLabel => activeLock'[p] = u
    BY <2>5, <2>6 DEF ThreadInv, HoldsActive
  <2>8. \A u \in Thread : InMapping(p, u) => InMapping(p, u)'
    BY <1>4, <2>1 DEF InMapping, Inside
  <2>9. \A u \in Thread : pc'[p][u] = pc[p][u] \/ Starts(p, u) \/ Moves(p, u)
    BY <2>1, <2>3, <2>4
  <2>10. QED
    BY <2>1, <2>2, <2>5, <2>7, <2>8, <2>9 DEF Quiet
<1>5. CASE SignalResumes(p, t)
  BY <1>4, <1>5 DEF SignalResumes
<1>6. CASE SignalInterruptsWait(p, t)
  <2>1. CASE Exit(p)
    BY <1>3, <2>1 DEF Gone, Notable
  <2>2. QED
    BY <1>4, <1>6, <2>1 DEF SignalInterruptsWait
<1>7. QED
  BY <1>1, <1>5, <1>6

LEMMA EnvironmentKind ==
  ASSUME ThreadInv, NEW p \in Process, Environment(p)
  PROVE  Quiet(p) \/ Notable(p)
<1>. USE Threads, RoleLabels
<1>1. CASE Boot(p) \/ InitialiseFails(p)
  BY <1>1 DEF InitialiseFails, Notable
<1>2. CASE MonitorGivesUp(p)
  BY <1>2, QuietLocal
     DEF MonitorGivesUp, Passes, Edge, Inside, ActiveLabel, TerminateLabel
<1>3. CASE AcceptFails(p)
  BY <1>3, QuietLocal
     DEF AcceptFails, Passes, Edge, Inside, ActiveLabel, TerminateLabel
<1>4. CASE \E d \in Daemon : DaemonUpdateFails(p, d)
  BY <1>4, QuietLocal
     DEF DaemonUpdateFails, Passes, Edge, Inside, ActiveLabel, TerminateLabel
<1>5. CASE \E h \in Handler : Request(p, h)
  <2>1. PICK h \in Handler, next \in {"h_cr", "t_active"} :
          Local(p, h, "off", next)
    BY <1>5 DEF Request
  <2>2. /\ \A q \in Process \ {p} : pc'[q] = pc[q]
        /\ \A u \in Thread \ {h} : pc'[p][u] = pc[p][u]
        /\ pc[p][h] = "off" /\ pc'[p][h] = next
    BY <2>1, StepChanges DEF Local, ThreadInv
  <2>3. pc[p]["tcp"] = "accept" /\ Alive(p)
    BY <1>5 DEF Request, ThreadInv, ThreadsAlive
  <2>4. Starts(p, h)
    BY <2>2, <2>3 DEF Starts
  <2>5. /\ UNCHANGED <<starts, fileName, mappingVars, processVars, semName,
                       semValue, activeLock>>
    BY <2>1 DEF Local, hostVars
  <2>6. \A u \in Thread : pc'[p][u] \in ActiveLabel => pc[p][u] \in ActiveLabel
    BY <2>2 DEF ActiveLabel
  <2>7. \A u \in Thread : pc'[p][u] \in ActiveLabel => activeLock'[p] = u
    BY <2>5, <2>6 DEF ThreadInv, HoldsActive
  <2>8. \A u \in Thread : InMapping(p, u) => InMapping(p, u)'
    BY <2>2 DEF InMapping, Inside
  <2>9. QED
    BY <2>2, <2>3, <2>4, <2>5, <2>7, <2>8 DEF Quiet
<1>6. CASE Signal(p)
  BY <1>6, SignalKind
<1>7. CASE Kill(p)
  BY <1>7 DEF Kill, Notable, Gone
<1>8. QED
  BY <1>1, <1>2, <1>3, <1>4, <1>5, <1>6, <1>7 DEF Environment

\* What a step may be.
LEMMA StepKinds ==
  ASSUME ThreadInv, [Next]_vars
  PROVE  \/ \E p \in Process : Quiet(p) \/ Notable(p)
         \/ Age \/ UNCHANGED vars
<1>1. ASSUME NEW p \in Process, ProcessStep(p) PROVE Quiet(p) \/ Notable(p)
  BY <1>1, Threads, InitialiseKind, MonitorKind, DaemonKind, HandlerKind,
     TerminateKind DEF ProcessStep
<1>2. QED
  BY <1>1, EnvironmentKind DEF Next, Finished

-----------------------------------------------------------------------------
(* The invariant of the threads.                                           *)

LeftLabel == {"t_release", "t_exit"}

\* What a quiet step cannot do to the labels of a process.
LEMMA QuietLabels ==
  ASSUME ThreadInv, NEW p \in Process, Quiet(p)
  PROVE  /\ \A t \in Thread : pc'[p][t] \in RoleLabel(t) \cup TerminateLabel
         /\ pc'[p]["monitor"] # "off"
         /\ pc'[p]["monitor"] \in OpenLabel <=> pc[p]["monitor"] \in OpenLabel
         /\ pc'[p]["monitor"] \in UndoLabel <=> pc[p]["monitor"] \in UndoLabel
         /\ pc'[p]["monitor"] \in EarlyLabel => pc[p]["monitor"] \in EarlyLabel
         /\ \A t \in Thread : pc'[p][t] \in LeftLabel <=> pc[p][t] \in LeftLabel
<1>. USE Threads
<1>1. ~Starts(p, "monitor")
  BY ThreadsAreDistinct DEF Starts
<1>2. pc[p]["monitor"] \in RoleLabel("monitor") \cup TerminateLabel
  BY DEF ThreadInv, ThreadRoles
<1>3. pc[p]["monitor"] \notin {"d_idle", "dq_unactive", "h_reply", "off", "accept"}
  BY <1>2, RoleLabels DEF TerminateLabel, OpenLabel, UndoLabel, Quiet, Alive
<1>4. pc'[p]["monitor"] = pc[p]["monitor"]
        \/ Edge(pc[p]["monitor"], pc'[p]["monitor"])
  BY <1>1 DEF Quiet, Moves
<1>5. /\ pc'[p]["monitor"] # "off"
      /\ pc'[p]["monitor"] \in OpenLabel <=> pc[p]["monitor"] \in OpenLabel
      /\ pc'[p]["monitor"] \in UndoLabel <=> pc[p]["monitor"] \in UndoLabel
      /\ pc'[p]["monitor"] \in EarlyLabel => pc[p]["monitor"] \in EarlyLabel
  BY <1>3, <1>4 DEF Edge, OpenLabel, UndoLabel, EarlyLabel
<1>6. ASSUME NEW t \in Thread
      PROVE  pc'[p][t] \in LeftLabel <=> pc[p][t] \in LeftLabel
  <2>1. CASE Moves(p, t)
    BY <2>1 DEF Moves, Edge, LeftLabel
  <2>2. CASE Starts(p, t)
    BY <2>2 DEF Starts, LeftLabel
  <2>3. QED
    BY <2>1, <2>2 DEF Quiet
<1>7. ASSUME NEW t \in Thread
      PROVE  pc'[p][t] \in RoleLabel(t) \cup TerminateLabel
  <2>1. CASE Starts(p, t)
    BY <2>1, RoleLabels DEF Starts, TerminateLabel
  <2>2. QED
    BY <2>1 DEF Quiet, Moves, ThreadInv, ThreadRoles
<1>8. QED
  BY <1>5, <1>6, <1>7

LEMMA QuietThreads ==
  ASSUME ThreadInv, TypeOK', NEW p \in Process, Quiet(p) PROVE ThreadInv'
<1>. USE Threads
<1>1. \A q \in Process \ {p} : pc'[q] = pc[q] /\ activeLock'[q] = activeLock[q]
  BY DEF Quiet
<1>2. ThreadsAlive'
  BY <1>1, QuietLabels DEF ThreadInv, ThreadsAlive, Alive
<1>3. SemaphoreOpen'
  <2>1. semName' <= starts'
    BY DEF Quiet, ThreadInv, SemaphoreOpen, TypeOK
  <2>2. \A q \in Process : Alive(q)' => mapLock'[q] \in 1..starts'
    BY <1>1 DEF Quiet, ThreadInv, SemaphoreOpen, Alive, processVars
  <2>3. QED
    BY <2>1, <2>2 DEF SemaphoreOpen
<1>4. ThreadRoles'
  BY <1>1, QuietLabels DEF ThreadInv, ThreadRoles
<1>5. HoldsActive'
  BY <1>1 DEF Quiet, ThreadInv, HoldsActive
<1>6. ServesLater'
  <2>1. ASSUME pc'[p]["monitor"] \in EarlyLabel, NEW t \in Handler \cup {"tcp"}
        PROVE  pc'[p][t] = "off"
    <3>1. pc[p][t] = "off" /\ pc[p]["tcp"] = "off"
      BY <2>1, QuietLabels DEF ThreadInv, ServesLater
    <3>2. ~Starts(p, t)
      BY <2>1, <3>1, ThreadsAreDistinct
         DEF Starts, EarlyLabel, OpenLabel, UndoLabel
    <3>3. ~Moves(p, t)
      BY <3>1 DEF Moves, Edge
    <3>4. QED
      BY <3>1, <3>2, <3>3 DEF Quiet
  <2>2. QED
    BY <1>1, <2>1 DEF ThreadInv, ServesLater
<1>7. QED
  BY <1>2, <1>3, <1>4, <1>5, <1>6 DEF ThreadInv

\* A process that ends.
LEMMA ExitThreads ==
  ASSUME ThreadInv, TypeOK', NEW p \in Process, ExitProcess(p), semName' = semName
  PROVE  ThreadInv'
<1>. USE Threads
<1>1. /\ \A q \in Process \ {p} : /\ pc'[q] = pc[q] /\ mapLock'[q] = mapLock[q]
                                  /\ activeLock'[q] = activeLock[q]
      /\ \A t \in Thread : pc'[p][t] = "off"
      /\ starts' = starts
  BY DEF ExitProcess, ThreadInv, TypeOK
<1>2. ThreadsAlive' /\ SemaphoreOpen' /\ ServesLater'
  BY <1>1 DEF ThreadInv, ThreadsAlive, SemaphoreOpen, ServesLater, Alive
<1>3. HoldsActive'
  BY <1>1 DEF ThreadInv, HoldsActive, ActiveLabel
<1>4. ThreadRoles'
  <2>1. \A t \in Thread : "off" \in RoleLabel(t)
    BY DEF RoleLabel
  <2>2. QED
    BY <1>1, <2>1 DEF ThreadInv, ThreadRoles
<1>5. QED
  BY <1>2, <1>3, <1>4 DEF ThreadInv

\* A process whose monitor and one more thread move on, with the locks they have.
LEMMA PairThreads ==
  ASSUME ThreadInv, TypeOK', NEW p \in Process, Alive(p),
         UNCHANGED <<starts, semName, mapLock, activeLock>>,
         \A q \in Process \ {p} : pc'[q] = pc[q],
         pc'[p]["monitor"] # "off",
         pc'[p]["monitor"] \in EarlyLabel => pc[p]["monitor"] \in EarlyLabel,
         \A t \in Thread :
           /\ pc'[p][t] \in RoleLabel(t) \cup TerminateLabel
           /\ pc'[p][t] \in ActiveLabel => pc[p][t] \in ActiveLabel,
         \A t \in Handler \cup {"tcp"} : pc[p][t] = "off" => pc'[p][t] = "off"
  PROVE  ThreadInv'
<1>. USE Threads
<1>1. ThreadsAlive' /\ SemaphoreOpen' /\ ServesLater'
  BY DEF ThreadInv, ThreadsAlive, SemaphoreOpen, ServesLater, Alive
<1>2. HoldsActive' /\ ThreadRoles'
  BY DEF ThreadInv, HoldsActive, ThreadRoles
<1>3. QED
  BY <1>1, <1>2 DEF ThreadInv

\* The threads that a notable step leaves behind.
LEMMA NotableThreads ==
  ASSUME ThreadInv, TypeOK', NEW p \in Process, Notable(p) PROVE ThreadInv'
<1>. USE Threads
<1>1. CASE Boot(p)
  <2>1. /\ \A q \in Process \ {p} : pc'[q] = pc[q] /\ mapLock'[q] = mapLock[q]
        /\ \A t \in Thread \ {"monitor"} : pc'[p][t] = pc[p][t]
        /\ pc'[p]["monitor"] = "init_map"
        /\ mapLock'[p] = semName' /\ semName' \in {semName, starts + 1}
        /\ semName' # 0 /\ starts' = starts + 1 /\ activeLock' = activeLock
    BY <1>1 DEF Boot, Goto, ThreadInv, TypeOK
  <2>2. \A t \in Thread \ {"monitor"} : pc[p][t] = "off"
    BY <1>1 DEF Boot, ThreadInv, ThreadsAlive
  <2>3. ThreadsAlive'
    BY <2>1, <2>2 DEF ThreadInv, ThreadsAlive, Alive
  <2>4. SemaphoreOpen'
    <3>1. semName' \in 1..starts'
      BY <2>1 DEF ThreadInv, SemaphoreOpen, TypeOK
    <3>2. \A q \in Process \ {p} : Alive(q)' => mapLock'[q] \in 1..starts'
      <4>1. starts \in Nat
        BY DEF ThreadInv, TypeOK
      <4>2. \A q \in Process \ {p} : Alive(q)' => mapLock[q] \in 1..starts
        BY <2>1 DEF ThreadInv, SemaphoreOpen, Alive
      <4>3. 1..starts \subseteq 1..starts'
        BY <2>1, <4>1
      <4>4. QED
        BY <2>1, <4>2, <4>3
    <3>3. QED
      BY <2>1, <3>1, <3>2 DEF SemaphoreOpen
  <2>5. HoldsActive' /\ ServesLater'
    BY <2>1, <2>2, ThreadsAreDistinct
       DEF ThreadInv, HoldsActive, ServesLater, ActiveLabel
  <2>6. ThreadRoles'
    BY <2>1, RoleLabels DEF ThreadInv, ThreadRoles, OpenLabel
  <2>7. QED
    BY <2>3, <2>4, <2>5, <2>6 DEF ThreadInv
<1>2. CASE InitCreate(p)
  <2>1. PICK d \in Daemon :
          pc' = [pc EXCEPT ![p] = [@ EXCEPT !["monitor"] = "init_release",
                                            ![d] = "d_new"]]
    BY <1>2 DEF InitCreate, FreeDaemon
  <2>2. /\ \A q \in Process \ {p} : pc'[q] = pc[q]
        /\ \A t \in Thread \ {"monitor", d} : pc'[p][t] = pc[p][t]
        /\ pc'[p]["monitor"] = "init_release" /\ pc'[p][d] = "d_new"
    BY <2>1, ThreadsAreDistinct DEF ThreadInv, TypeOK
  <2>3. /\ pc[p]["monitor"] = "init_body"
        /\ UNCHANGED <<starts, semName, mapLock, activeLock>>
    BY <1>2 DEF InitCreate, MakeFile
  <2>4. QED
    BY <2>2, <2>3, PairThreads, RoleLabels, ThreadsAreDistinct
       DEF Alive, EarlyLabel, OpenLabel, ActiveLabel, ThreadInv, ThreadRoles
<1>3. CASE InitCreateFails(p) \/ InitOpen(p) \/ InitOpenFails(p)
  <2>1. PICK to \in {"fail_release", "init_release", "abort_release"} :
          Step(p, "monitor", "init_body", to)
    BY <1>3 DEF InitCreateFails, MakeFile, InitOpen, InitOpenFails, Step
  <2>2. /\ \A q \in Process \ {p} : pc'[q] = pc[q]
        /\ \A t \in Thread \ {"monitor"} : pc'[p][t] = pc[p][t]
        /\ pc[p]["monitor"] = "init_body" /\ pc'[p]["monitor"] = to
    BY <2>1, StepChanges DEF ThreadInv
  <2>3. UNCHANGED <<starts, semName, mapLock, activeLock>>
    BY <1>3 DEF InitCreateFails, MakeFile, InitOpen, InitOpenFails
  <2>4. QED
    BY <2>2, <2>3, PairThreads, RoleLabels, ThreadsAreDistinct
       DEF Alive, EarlyLabel, OpenLabel, UndoLabel, ActiveLabel, ThreadInv,
           ThreadRoles
<1>4. CASE InitNoDaemon(p) \/ FailDelete(p) \/ Gone(p)
  BY <1>4, ExitThreads DEF InitNoDaemon, FailDelete, Gone, Exit, hostVars
<1>5. CASE MonitorTakeOver(p)
  <2>1. PICK d \in Daemon, next \in {"m_unmap", "t_body"} :
          pc' = [pc EXCEPT ![p] = [@ EXCEPT !["monitor"] = next, ![d] = "d_new"]]
    BY <1>5 DEF MonitorTakeOver, FreeDaemon, AfterRound
  <2>2. /\ \A q \in Process \ {p} : pc'[q] = pc[q]
        /\ \A t \in Thread \ {"monitor", d} : pc'[p][t] = pc[p][t]
        /\ pc'[p]["monitor"] = next /\ pc'[p][d] = "d_new"
    BY <2>1, ThreadsAreDistinct DEF ThreadInv, TypeOK
  <2>3. /\ pc[p]["monitor"] = "m_body"
        /\ UNCHANGED <<starts, semName, mapLock, activeLock>>
    BY <1>5 DEF MonitorTakeOver
  <2>4. next \in RoleLabel("monitor") \cup TerminateLabel
    BY RoleLabels DEF TerminateLabel
  <2>5. next \notin EarlyLabel /\ next # "off"
    BY DEF EarlyLabel, OpenLabel, UndoLabel
  <2>6. QED
    BY <2>2, <2>3, <2>4, <2>5, PairThreads, RoleLabels, ThreadsAreDistinct
       DEF Alive, ActiveLabel, ThreadInv, ThreadRoles
<1>6. CASE \E d \in Daemon : DaemonUpdate(p, d)
  <2>1. PICK d \in Daemon : DaemonUpdate(p, d)
    BY <1>6
  <2>2. /\ \A q \in Process \ {p} : pc'[q] = pc[q]
        /\ \A t \in Thread \ {d} : pc'[p][t] = pc[p][t]
        /\ pc[p][d] = "d_body" /\ pc'[p][d] = "d_unmap"
    BY <2>1, StepChanges DEF ThreadInv, DaemonUpdate
  <2>3. UNCHANGED <<starts, semName, mapLock, activeLock>>
    BY <2>1 DEF DaemonUpdate, processVars
  <2>4. QED
    BY <2>2, <2>3, PairThreads, RoleLabels, ThreadsAreDistinct
       DEF Alive, ActiveLabel, ThreadInv, ThreadRoles, ThreadsAlive
<1>7. CASE \E t \in Thread : TerminateBody(p, t)
  <2>1. PICK t \in Thread : TerminateBody(p, t)
    BY <1>7
  <2>2. /\ \A q \in Process \ {p} : pc'[q] = pc[q]
        /\ \A u \in Thread \ {t} : \/ pc'[p][u] = pc[p][u]
                                   \/ u = "tcp" /\ pc'[p][u] = "off"
        /\ pc[p][t] = "t_body" /\ pc'[p][t] = "t_release"
    BY <2>1 DEF ThreadInv, TypeOK, TerminateBody
  <2>3. UNCHANGED <<starts, semName, mapLock, activeLock>>
    BY <2>1 DEF TerminateBody
  <2>4. Alive(p)
    BY <2>2 DEF ThreadInv, ThreadsAlive
  <2>5. "t_release" \notin EarlyLabel
    BY DEF EarlyLabel, OpenLabel, UndoLabel
  <2>6. \A u \in Thread : pc'[p][u] \in RoleLabel(u) \cup TerminateLabel
    BY <2>2, RoleLabels DEF ThreadInv, ThreadRoles, TerminateLabel
  <2>7. QED
    BY <2>2, <2>3, <2>4, <2>5, <2>6, PairThreads, ThreadsAreDistinct
       DEF Alive, ActiveLabel
<1>8. QED
  BY <1>1, <1>2, <1>3, <1>4, <1>5, <1>6, <1>7 DEF Notable

LEMMA InitThreads == Init => ThreadInv
<1>. SUFFICES ASSUME Init PROVE ThreadInv
  OBVIOUS
<1>1. \A p \in Process : \A t \in Thread : pc[p][t] = "off"
  BY DEF Init
<1>2. ThreadsAlive /\ ServesLater /\ HoldsActive
  BY <1>1, Threads DEF ThreadsAlive, ServesLater, HoldsActive, ActiveLabel
<1>3. SemaphoreOpen
  BY <1>1, Threads DEF Init, SemaphoreOpen, Alive
<1>4. ThreadRoles
  BY <1>1 DEF ThreadRoles, RoleLabel
<1>5. QED
  BY <1>2, <1>3, <1>4, InitType DEF ThreadInv

LEMMA NextThreads == ASSUME ThreadInv, [Next]_vars PROVE ThreadInv'
<1>1. TypeOK'
  BY NextType DEF ThreadInv
<1>2. CASE Age \/ UNCHANGED vars
  <2>1. UNCHANGED <<starts, semName, mapLock, activeLock, pc>>
    BY <1>2 DEF Age, vars, hostVars, processVars
  <2>2. QED
    BY <1>1, <2>1 DEF ThreadInv, ThreadsAlive, SemaphoreOpen, ThreadRoles,
                      HoldsActive, ServesLater, Alive
<1>3. QED
  BY <1>1, <1>2, StepKinds, QuietThreads, NotableThreads

-----------------------------------------------------------------------------
(* What a process knows of the mapping.                                    *)

\* A server that has left is not counted, and had opened the mapping.
LeavesInitialised ==
  \A p \in Process : \A t \in Thread :
    pc[p][t] \in LeftLabel => ~joined[p] /\ pc[p]["monitor"] \notin OpenLabel

\* A process knows nothing of the mapping before it opened it.
Reset ==
  \A p \in Process :
    ~Alive(p) \/ pc[p]["monitor"] \in OpenLabel =>
      structure[p] = 0 /\ ~joined[p] /\ ID[p] = 0 /\ thread[p] = None

\* Afterwards it has mapped a file, and is counted unless it has left or never
\* got so far.
Mapped ==
  \A p \in Process :
    Alive(p) /\ pc[p]["monitor"] \notin OpenLabel =>
      /\ structure[p] # 0
      /\ joined[p] <=>
           /\ pc[p]["monitor"] \notin UndoLabel
           /\ \A t \in Thread : pc[p][t] \notin LeftLabel

\* Processes are numbered by their start, files by who created them.
Numbered ==
  /\ fileName <= starts
  /\ \A p \in Process :
       /\ structure[p] <= starts
       /\ Alive(p) => serial[p] \in 1..starts
       /\ pc[p]["monitor"] \in OpenLabel =>
            /\ fileName # serial[p]
            /\ \A q \in Process : structure[q] # serial[p]
  /\ \A p, q \in Process : Alive(p) /\ Alive(q) /\ p # q => serial[p] # serial[q]

\* IDs are drawn from the counter of the file.
Drawn ==
  /\ \A f \in 1..MaxStart : daemonServer[f] <= idCounter[f]
  /\ \A p \in Process : joined[p] => ID[p] <= idCounter[structure[p]]

IdentityInv ==
  /\ ThreadInv /\ LeavesInitialised /\ Reset /\ Mapped /\ Numbered /\ Drawn
  /\ DistinctIDs

LEMMA InitIdentity == Init => IdentityInv
<1>. SUFFICES ASSUME Init PROVE IdentityInv
  OBVIOUS
<1>1. \A p \in Process : \A t \in Thread : pc[p][t] = "off"
  BY DEF Init
<1>2. LeavesInitialised /\ Mapped /\ Reset
  BY <1>1, Threads
     DEF Init, LeavesInitialised, Mapped, Reset, LeftLabel, Alive
<1>3. Numbered /\ Drawn /\ DistinctIDs
  BY <1>1, Threads
     DEF Init, Numbered, Drawn, DistinctIDs, Alive, OpenLabel
<1>4. QED
  BY <1>2, <1>3, InitThreads DEF IdentityInv

LEMMA MappingTypes ==
  ASSUME TypeOK
  PROVE  /\ \A f \in 1..MaxStart : idCounter[f] \in Nat /\ daemonServer[f] \in Int
                                   /\ serverCounter[f] \in Int
         /\ \A p \in Process : ID[p] \in Nat
<1>1. \A f \in 1..MaxStart : idCounter[f] \in Nat
  BY DEF TypeOK
<1>2. \A f \in 1..MaxStart : daemonServer[f] \in Int
  BY DEF TypeOK
<1>3. \A f \in 1..MaxStart : serverCounter[f] \in Int
  BY DEF TypeOK
<1>4. \A p \in Process : ID[p] \in Nat
  BY DEF TypeOK
<1>5. QED
  BY <1>1, <1>2, <1>3, <1>4

\* A joined server is alive and has mapped a file.
LEMMA JoinedAlive ==
  ASSUME IdentityInv, NEW p \in Process, joined[p]
  PROVE  /\ Alive(p) /\ pc[p]["monitor"] \notin OpenLabel \cup UndoLabel
         /\ structure[p] \in 1..MaxStart
BY DEF IdentityInv, ThreadInv, TypeOK, Reset, Mapped

LEMMA QuietIdentity ==
  ASSUME IdentityInv, ThreadInv', NEW p \in Process, Quiet(p)
  PROVE  IdentityInv'
<1>. USE Threads
<1>1. ThreadInv
  BY DEF IdentityInv
<1>2. /\ \A q \in Process \ {p} : pc'[q] = pc[q]
      /\ UNCHANGED <<starts, fileName, idCounter, daemonServer, serial,
                     structure, ID, thread, joined>>
      /\ Alive(p) /\ Alive(p)'
  BY <1>1, QuietLabels DEF Quiet, mappingVars, processVars, Alive
<1>3. LeavesInitialised' /\ Reset' /\ Mapped'
  BY <1>1, <1>2, QuietLabels
     DEF IdentityInv, LeavesInitialised, Reset, Mapped, Alive
<1>4. \A q \in Process :
        /\ Alive(q)' => Alive(q)
        /\ pc'[q]["monitor"] \in OpenLabel => pc[q]["monitor"] \in OpenLabel
  BY <1>1, <1>2, QuietLabels DEF Alive
<1>5. Numbered' /\ Drawn' /\ DistinctIDs'
  BY <1>2, <1>4 DEF IdentityInv, Numbered, Drawn, DistinctIDs
<1>6. QED
  BY <1>3, <1>5 DEF IdentityInv

\* The rest of the mapping does not matter.
LEMMA StillIdentity ==
  ASSUME IdentityInv, ThreadInv',
         UNCHANGED <<starts, fileName, idCounter, daemonServer, processVars, pc>>
  PROVE  IdentityInv'
BY DEF IdentityInv, LeavesInitialised, Reset, Mapped, Numbered, Drawn,
       DistinctIDs, Alive, processVars

\* A process that ends and takes at most the name of the file with it.
LEMMA ExitIdentity ==
  ASSUME IdentityInv, ThreadInv', NEW p \in Process, ExitProcess(p),
         fileName' \in {fileName, 0}, UNCHANGED <<idCounter, daemonServer>>
  PROVE  IdentityInv'
<1>. USE Threads
<1>1. /\ \A q \in Process \ {p} :
           /\ pc'[q] = pc[q] /\ structure'[q] = structure[q]
           /\ joined'[q] = joined[q] /\ ID'[q] = ID[q]
           /\ thread'[q] = thread[q] /\ serial'[q] = serial[q]
      /\ \A t \in Thread : pc'[p][t] = "off"
      /\ structure'[p] = 0 /\ ~joined'[p] /\ ID'[p] = 0 /\ thread'[p] = None
      /\ starts' = starts
  BY DEF ExitProcess, IdentityInv, ThreadInv, TypeOK
<1>2. LeavesInitialised' /\ Reset' /\ Mapped'
  BY <1>1 DEF IdentityInv, LeavesInitialised, Reset, Mapped, Alive, LeftLabel
<1>3. Drawn' /\ DistinctIDs'
  BY <1>1 DEF IdentityInv, Drawn, DistinctIDs
<1>4. Numbered'
  <2>1. \A q \in Process \ {p} : Alive(q)' => Alive(q)
    BY <1>1 DEF Alive
  <2>2. ~Alive(p)' /\ pc'[p]["monitor"] \notin OpenLabel
    BY <1>1 DEF Alive, OpenLabel
  <2>3. \A q \in Process \ {p} : pc[q]["monitor"] \in OpenLabel =>
          fileName' # serial[q] /\ \A r \in Process : structure'[r] # serial[q]
    <3>1. \A q \in Process : pc[q]["monitor"] \in OpenLabel => serial[q] # 0
      BY DEF IdentityInv, Numbered, Alive, OpenLabel
    <3>2. QED
      BY <1>1, <3>1 DEF IdentityInv, Numbered
  <2>4. fileName' <= starts /\ \A q \in Process : structure'[q] <= starts
    <3>1. 0 <= starts
      BY DEF IdentityInv, ThreadInv, TypeOK
    <3>2. fileName <= starts /\ \A q \in Process : structure[q] <= starts
      BY DEF IdentityInv, Numbered
    <3>3. QED
      BY <1>1, <3>1, <3>2
  <2>5. QED
    BY <1>1, <2>1, <2>2, <2>3, <2>4 DEF IdentityInv, Numbered
<1>5. QED
  BY <1>2, <1>3, <1>4 DEF IdentityInv

LEMMA BootIdentity ==
  ASSUME IdentityInv, ThreadInv', NEW p \in Process, Boot(p)
  PROVE  IdentityInv'
<1>. USE Threads
<1>1. /\ \A q \in Process \ {p} : pc'[q] = pc[q] /\ serial'[q] = serial[q]
      /\ \A t \in Thread \ {"monitor"} : pc'[p][t] = pc[p][t]
      /\ pc'[p]["monitor"] = "init_map" /\ serial'[p] = starts + 1
      /\ starts' = starts + 1 /\ starts \in Nat /\ ~Alive(p)
      /\ UNCHANGED <<fileName, idCounter, daemonServer, structure, ID, thread,
                     joined>>
  BY DEF Boot, Goto, IdentityInv, ThreadInv, TypeOK, mappingVars
<1>2. \A t \in Thread : pc'[p][t] \notin LeftLabel
  BY <1>1 DEF IdentityInv, ThreadInv, ThreadsAlive, LeftLabel
<1>3. LeavesInitialised' /\ Reset' /\ Mapped' /\ Drawn' /\ DistinctIDs'
  BY <1>1, <1>2 DEF IdentityInv, LeavesInitialised, Reset, Mapped, Drawn,
                    DistinctIDs, Alive, OpenLabel
<1>4. Numbered'
  <2>0. fileName \in Nat /\ \A r \in Process : structure[r] \in Nat
    BY DEF IdentityInv, ThreadInv, TypeOK
  <2>1. fileName' < serial'[p] /\ \A q \in Process : structure'[q] < serial'[p]
    <3>1. fileName <= starts /\ \A q \in Process : structure[q] <= starts
      BY DEF IdentityInv, Numbered
    <3>2. QED
      BY <1>1, <2>0, <3>1
  <2>2. \A q \in Process \ {p} : Alive(q) => serial[q] \in 1..starts
    BY DEF IdentityInv, Numbered
  <2>3. fileName' <= starts' /\ \A q \in Process : structure'[q] <= starts'
    BY <1>1, <2>0, <2>1
  <2>4. \A q \in Process : Alive(q)' => serial'[q] \in 1..starts'
    BY <1>1, <2>2 DEF Alive
  <2>5. \A q \in Process \ {p} : pc[q]["monitor"] \in OpenLabel =>
          fileName # serial[q] /\ \A r \in Process : structure[r] # serial[q]
    BY DEF IdentityInv, Numbered
  <2>6. \A q \in Process : pc'[q]["monitor"] \in OpenLabel =>
          fileName' # serial'[q] /\ \A r \in Process : structure'[r] # serial'[q]
    BY <1>1, <2>0, <2>1, <2>5
  <2>7. \A q, r \in Process \ {p} : Alive(q) /\ Alive(r) /\ q # r => serial[q] # serial[r]
    BY DEF IdentityInv, Numbered
  <2>8. \A q, r \in Process :
          Alive(q)' /\ Alive(r)' /\ q # r => serial'[q] # serial'[r]
    <3>1. \A q \in Process \ {p} : Alive(q)' => serial'[q] # serial'[p]
      BY <1>1, <2>2 DEF Alive
    <3>2. QED
      BY <1>1, <2>7, <3>1 DEF Alive
  <2>9. QED
    BY <2>3, <2>4, <2>6, <2>8 DEF Numbered
<1>5. QED
  BY <1>3, <1>4 DEF IdentityInv

\* A thread that holds activeLock belongs to a server that is counted.
LEMMA ActiveJoined ==
  ASSUME IdentityInv, NEW p \in Process, NEW t \in Thread,
         pc[p][t] \in ActiveLabel \ LeftLabel,
         structure[p] # 0, pc[p]["monitor"] \notin UndoLabel
  PROVE  joined[p]
<1>1. \A u \in Thread : pc[p][u] \notin LeftLabel
  <2>1. \A u \in Thread : pc[p][u] \in LeftLabel => activeLock[p] = u
    BY DEF IdentityInv, ThreadInv, HoldsActive, LeftLabel, ActiveLabel
  <2>2. activeLock[p] = t
    BY DEF IdentityInv, ThreadInv, HoldsActive
  <2>3. QED
    BY <2>1, <2>2
<1>2. Alive(p) /\ pc[p]["monitor"] \notin OpenLabel
  BY DEF IdentityInv, Reset
<1>3. QED
  BY <1>1, <1>2 DEF IdentityInv, Mapped

\* The same for the monitor in its main loop.
LEMMA RoundJoined ==
  ASSUME IdentityInv, NEW p \in Process, pc[p]["monitor"] \in {"m_map", "m_body"}
  PROVE  joined[p]
<1>1. pc[p]["monitor"] \notin OpenLabel \cup UndoLabel /\ Alive(p)
  BY DEF OpenLabel, UndoLabel, Alive
<1>2. structure[p] # 0
  BY <1>1 DEF IdentityInv, Mapped
<1>3. QED
  BY <1>1, <1>2, ActiveJoined, Threads DEF ActiveLabel, LeftLabel

\* A server that stays what it is, with another daemon at most.
LEMMA StayIdentity ==
  ASSUME IdentityInv, ThreadInv', NEW p \in Process, joined[p],
         \A q \in Process \ {p} : pc'[q] = pc[q] /\ thread'[q] = thread[q],
         UNCHANGED <<starts, fileName, idCounter, serial, structure, ID, joined>>,
         Alive(p)', pc'[p]["monitor"] \notin OpenLabel \cup UndoLabel,
         \A t \in Thread : pc'[p][t] \notin LeftLabel,
         \A f \in 1..MaxStart : daemonServer'[f] <= idCounter[f]
  PROVE  IdentityInv'
<1>. USE Threads
<1>1. Alive(p) /\ pc[p]["monitor"] \notin OpenLabel \cup UndoLabel
  BY JoinedAlive
<1>2. LeavesInitialised' /\ Reset' /\ Mapped'
  BY <1>1 DEF IdentityInv, LeavesInitialised, Reset, Mapped, Alive
<1>3. \A q \in Process :
        /\ Alive(q)' => Alive(q)
        /\ pc'[q]["monitor"] \in OpenLabel => pc[q]["monitor"] \in OpenLabel
  BY <1>1 DEF Alive
<1>4. Numbered' /\ Drawn' /\ DistinctIDs'
  BY <1>3 DEF IdentityInv, Numbered, Drawn, DistinctIDs
<1>5. QED
  BY <1>2, <1>4 DEF IdentityInv

LEMMA TakeOverIdentity ==
  ASSUME IdentityInv, ThreadInv', NEW p \in Process, MonitorTakeOver(p)
  PROVE  IdentityInv'
<1>. USE Threads
<1>1. PICK d \in Daemon, next \in {"m_unmap", "t_body"} :
        pc' = [pc EXCEPT ![p] = [@ EXCEPT !["monitor"] = next, ![d] = "d_new"]]
  BY DEF MonitorTakeOver, FreeDaemon, AfterRound
<1>2. /\ \A q \in Process \ {p} : pc'[q] = pc[q] /\ thread'[q] = thread[q]
      /\ \A t \in Thread \ {"monitor", d} : pc'[p][t] = pc[p][t]
      /\ pc'[p]["monitor"] = next /\ pc'[p][d] = "d_new"
  BY <1>1, ThreadsAreDistinct DEF IdentityInv, ThreadInv, TypeOK, MonitorTakeOver
<1>3. joined[p] /\ structure[p] \in 1..MaxStart
  BY RoundJoined, JoinedAlive DEF MonitorTakeOver
<1>4. next \notin OpenLabel \cup UndoLabel \cup {"off"}
  BY DEF OpenLabel, UndoLabel
<1>5. \A t \in Thread : pc[p][t] \notin LeftLabel
  BY <1>3 DEF IdentityInv, LeavesInitialised
<1>6. \A t \in Thread : pc'[p][t] \notin LeftLabel
  BY <1>2, <1>5 DEF LeftLabel
<1>7. \A f \in 1..MaxStart : daemonServer'[f] <= idCounter[f]
  <2>1. \A f \in 1..MaxStart :
          daemonServer'[f] = IF f = structure[p] THEN ID[p] ELSE daemonServer[f]
    BY DEF MonitorTakeOver, IdentityInv, ThreadInv, TypeOK
  <2>2. QED
    BY <1>3, <2>1 DEF IdentityInv, Drawn
<1>8. UNCHANGED <<starts, fileName, idCounter, serial, structure, ID, joined>>
  BY DEF MonitorTakeOver
<1>9. QED
  BY <1>2, <1>3, <1>4, <1>6, <1>7, <1>8, StayIdentity DEF Alive

LEMMA UpdateIdentity ==
  ASSUME IdentityInv, ThreadInv', NEW p \in Process, NEW d \in Daemon,
         DaemonUpdate(p, d)
  PROVE  IdentityInv'
<1>. USE Threads, ThreadsAreDistinct
<1>1. /\ \A q \in Process \ {p} : pc'[q] = pc[q]
      /\ \A t \in Thread \ {d} : pc'[p][t] = pc[p][t]
      /\ pc[p][d] = "d_body" /\ pc'[p][d] = "d_unmap"
  BY StepChanges DEF IdentityInv, ThreadInv, DaemonUpdate
<1>2. UNCHANGED <<starts, fileName, idCounter, daemonServer, serial, structure,
                  ID, thread, joined>>
  BY DEF DaemonUpdate, processVars
<1>3. LeavesInitialised' /\ Reset' /\ Mapped'
  BY <1>1, <1>2 DEF IdentityInv, LeavesInitialised, Reset, Mapped, LeftLabel, Alive
<1>4. Numbered' /\ Drawn' /\ DistinctIDs'
  BY <1>1, <1>2 DEF IdentityInv, Numbered, Drawn, DistinctIDs, Alive
<1>5. QED
  BY <1>3, <1>4 DEF IdentityInv

LEMMA TerminateIdentity ==
  ASSUME IdentityInv, ThreadInv', NEW p \in Process, NEW t \in Thread,
         TerminateBody(p, t)
  PROVE  IdentityInv'
<1>. USE Threads
<1>1. /\ \A q \in Process \ {p} : pc'[q] = pc[q] /\ joined'[q] = joined[q]
      /\ \A u \in Thread \ {t} : \/ pc'[p][u] = pc[p][u]
                                 \/ u = "tcp" /\ pc'[p][u] = "off"
      /\ pc[p][t] = "t_body" /\ pc'[p][t] = "t_release"
      /\ ~joined'[p] /\ structure[p] # 0
  BY DEF TerminateBody, IdentityInv, ThreadInv, TypeOK
<1>2. /\ UNCHANGED <<starts, idCounter, serial, structure, ID, thread>>
      /\ fileName' \in {fileName, 0}
  BY DEF TerminateBody
<1>3. pc[p]["monitor"] \notin OpenLabel /\ Alive(p)
  BY <1>1 DEF IdentityInv, Reset
<1>4. pc'[p]["monitor"] \notin OpenLabel /\ Alive(p)'
  BY <1>1, <1>3 DEF OpenLabel, Alive
<1>5. LeavesInitialised' /\ Reset' /\ Mapped'
  <2>1. LeavesInitialised'
    BY <1>1, <1>4 DEF IdentityInv, LeavesInitialised
  <2>2. Reset'
    BY <1>1, <1>2, <1>4 DEF IdentityInv, Reset, Alive
  <2>3. Mapped'
    BY <1>1, <1>2, <1>3, <1>4 DEF IdentityInv, Mapped, Alive, LeftLabel
  <2>4. QED
    BY <2>1, <2>2, <2>3
<1>6. Drawn' /\ DistinctIDs'
  <2>0. TypeOK
    BY DEF IdentityInv, ThreadInv
  <2>1. \A f \in 1..MaxStart : daemonServer'[f] \in {daemonServer[f], -1}
    BY <2>0 DEF TerminateBody, TypeOK
  <2>2. \A f \in 1..MaxStart : daemonServer'[f] <= idCounter[f]
    BY <2>0, <2>1, MappingTypes DEF IdentityInv, Drawn
  <2>3. QED
    BY <1>1, <1>2, <2>2 DEF IdentityInv, Drawn, DistinctIDs
<1>7. Numbered'
  <2>1. \A q \in Process : /\ Alive(q)' => Alive(q)
                           /\ pc'[q]["monitor"] \in OpenLabel =>
                                pc[q]["monitor"] \in OpenLabel /\ serial[q] # 0
    BY <1>1, <1>3, <1>4 DEF Alive, IdentityInv, Numbered, OpenLabel
  <2>2. 0 <= starts
    BY DEF IdentityInv, ThreadInv, TypeOK
  <2>3. fileName' <= starts' /\ \A q \in Process : structure'[q] <= starts'
    BY <1>2, <2>2 DEF IdentityInv, Numbered
  <2>4. \A q \in Process : pc'[q]["monitor"] \in OpenLabel =>
          fileName' # serial[q] /\ \A r \in Process : structure[r] # serial[q]
    BY <1>2, <2>1 DEF IdentityInv, Numbered
  <2>5. QED
    BY <1>2, <2>1, <2>3, <2>4 DEF IdentityInv, Numbered
<1>8. QED
  BY <1>5, <1>6, <1>7 DEF IdentityInv

\* The number of a process that opens the mapping is nobody's file yet.
LEMMA SerialIsFresh ==
  ASSUME IdentityInv, NEW p \in Process, pc[p]["monitor"] \in OpenLabel
  PROVE  /\ serial[p] \in 1..MaxStart /\ serial[p] <= starts
         /\ \A q \in Process : structure[q] # serial[p]
<1>1. Alive(p)
  BY DEF Alive, OpenLabel
<1>2. /\ serial[p] \in 1..starts
      /\ \A q \in Process : structure[q] # serial[p]
  BY <1>1 DEF IdentityInv, Numbered
<1>3. starts \in 0..MaxStart /\ MaxStart \in Nat
  BY MaxStartIsNat DEF IdentityInv, ThreadInv, TypeOK
<1>4. QED
  BY <1>2, <1>3

LEMMA NewFileDrawn ==
  ASSUME IdentityInv, NEW p \in Process, pc[p]["monitor"] \in OpenLabel,
         NewMapping(p)
  PROVE  /\ \A f \in 1..MaxStart : daemonServer'[f] <= idCounter'[f]
         /\ idCounter'[serial[p]] = 0
         /\ \A q \in Process : joined[q] => ID[q] <= idCounter'[structure[q]]
<1>1. /\ \A f \in 1..MaxStart \ {serial[p]} : /\ idCounter'[f] = idCounter[f]
                                              /\ daemonServer'[f] = daemonServer[f]
      /\ idCounter'[serial[p]] = 0 /\ daemonServer'[serial[p]] = 0
  BY SerialIsFresh DEF NewMapping, IdentityInv, ThreadInv, TypeOK
<1>2. \A q \in Process : joined[q] => structure[q] \in 1..MaxStart \ {serial[p]}
  BY SerialIsFresh, JoinedAlive
<1>3. QED
  BY <1>1, <1>2 DEF IdentityInv, Drawn

\* A process that opened the mapping, in a file of its own or in another's.
LEMMA OpenedIdentity ==
  ASSUME IdentityInv, ThreadInv', NEW p \in Process,
         pc[p]["monitor"] \in OpenLabel,
         \A q \in Process \ {p} :
           /\ pc'[q] = pc[q] /\ structure'[q] = structure[q] /\ ID'[q] = ID[q]
           /\ thread'[q] = thread[q] /\ joined'[q] = joined[q],
         UNCHANGED <<starts, serial>>,
         pc'[p]["monitor"] \notin OpenLabel \cup {"off"},
         structure'[p] # 0 /\ structure'[p] = fileName',
         fileName' \in {fileName, serial[p]},
         joined'[p] <=> pc'[p]["monitor"] \notin UndoLabel,
         \A t \in Thread : pc'[p][t] \notin LeftLabel,
         Drawn',
         joined'[p] => \A q \in Process \ {p} :
           joined[q] /\ structure[q] = structure'[p] => ID'[p] # ID[q]
  PROVE  IdentityInv'
<1>. USE Threads
<1>1. LeavesInitialised' /\ Reset' /\ Mapped'
  BY DEF IdentityInv, LeavesInitialised, Reset, Mapped, Alive
<1>2. DistinctIDs'
  BY DEF IdentityInv, DistinctIDs
<1>3. Numbered'
  <2>1. /\ Alive(p) /\ serial[p] \in 1..starts
        /\ \A q \in Process \ {p} : Alive(q) => serial[q] # serial[p]
    BY DEF IdentityInv, Numbered, Alive, OpenLabel
  <2>2. \A q \in Process :
          /\ Alive(q)' => Alive(q)
          /\ pc'[q]["monitor"] \in OpenLabel =>
               q # p /\ Alive(q) /\ pc[q]["monitor"] \in OpenLabel
    BY <2>1 DEF Alive, OpenLabel
  <2>3. fileName' <= starts /\ \A q \in Process : structure'[q] <= starts
    BY <2>1 DEF IdentityInv, Numbered
  <2>4. \A q \in Process : pc'[q]["monitor"] \in OpenLabel =>
          /\ fileName' # serial[q]
          /\ \A r \in Process : structure'[r] # serial[q]
    BY <2>1, <2>2 DEF IdentityInv, Numbered
  <2>5. QED
    BY <2>2, <2>3, <2>4 DEF IdentityInv, Numbered
<1>4. QED
  BY <1>1, <1>2, <1>3 DEF IdentityInv

LEMMA OpenIdentity ==
  ASSUME IdentityInv, ThreadInv', NEW p \in Process,
         \/ InitCreate(p) \/ InitCreateFails(p) \/ InitOpen(p) \/ InitOpenFails(p)
  PROVE  IdentityInv'
<1>. USE Threads
<1>1. pc[p]["monitor"] = "init_body" /\ Alive(p)
  BY DEF InitCreate, InitCreateFails, MakeFile, InitOpen, InitOpenFails, Step, Alive
<1>2. /\ structure[p] = 0 /\ ~joined[p] /\ ID[p] = 0
      /\ \A t \in Thread : pc[p][t] \notin LeftLabel
  BY <1>1 DEF IdentityInv, Reset, LeavesInitialised, OpenLabel
<1>3. \A to : to \in {"init_release", "fail_release", "abort_release"} =>
        /\ to \notin OpenLabel \cup {"off"} /\ to \notin LeftLabel
        /\ to \in UndoLabel <=> to # "init_release"
  BY DEF OpenLabel, UndoLabel, LeftLabel
<1>4. CASE InitCreate(p)
  <2>1. PICK d \in Daemon :
          /\ thread' = [thread EXCEPT ![p] = d]
          /\ pc' = [pc EXCEPT ![p] = [@ EXCEPT !["monitor"] = "init_release",
                                               ![d] = "d_new"]]
    BY <1>4 DEF InitCreate, FreeDaemon
  <2>2. /\ \A q \in Process \ {p} :
             /\ pc'[q] = pc[q] /\ structure'[q] = structure[q] /\ ID'[q] = ID[q]
             /\ thread'[q] = thread[q] /\ joined'[q] = joined[q]
        /\ \A t \in Thread \ {"monitor", d} : pc'[p][t] = pc[p][t]
        /\ pc'[p]["monitor"] = "init_release" /\ pc'[p][d] = "d_new"
        /\ structure'[p] = serial[p] /\ fileName' = serial[p] /\ joined'[p]
        /\ ID'[p] = ID[p]
        /\ UNCHANGED <<starts, serial>>
    BY <1>4, <2>1, ThreadsAreDistinct
       DEF InitCreate, MakeFile, NewMapping, IdentityInv, ThreadInv, TypeOK
  <2>3. \A t \in Thread : pc'[p][t] \notin LeftLabel
    BY <1>2, <2>2 DEF LeftLabel
  <2>4. Drawn'
    <3>1. NewMapping(p)
      BY <1>4 DEF InitCreate, MakeFile
    <3>2. QED
      BY <1>1, <1>2, <2>2, <3>1, NewFileDrawn DEF Drawn, OpenLabel
  <2>5. structure'[p] # 0 /\ \A q \in Process : structure[q] # structure'[p]
    BY <1>1, <2>2, SerialIsFresh DEF OpenLabel
  <2>6. QED
    BY <1>1, <1>3, <2>2, <2>3, <2>4, <2>5, OpenedIdentity DEF OpenLabel
<1>5. CASE InitCreateFails(p)
  <2>1. /\ \A q \in Process \ {p} :
             /\ pc'[q] = pc[q] /\ structure'[q] = structure[q] /\ ID'[q] = ID[q]
             /\ thread'[q] = thread[q] /\ joined'[q] = joined[q]
        /\ \A t \in Thread \ {"monitor"} : pc'[p][t] = pc[p][t]
        /\ pc'[p]["monitor"] = "fail_release"
        /\ structure'[p] = serial[p] /\ fileName' = serial[p] /\ ~joined'[p]
        /\ UNCHANGED <<starts, serial, joined>>
    BY <1>2, <1>5, ThreadsAreDistinct
       DEF InitCreateFails, MakeFile, NewMapping, Goto, IdentityInv, ThreadInv, TypeOK
  <2>2. \A t \in Thread : pc'[p][t] \notin LeftLabel
    BY <1>2, <2>1 DEF LeftLabel
  <2>3. Drawn'
    <3>1. NewMapping(p)
      BY <1>5 DEF InitCreateFails, MakeFile
    <3>2. QED
      BY <1>1, <1>2, <2>1, <3>1, NewFileDrawn DEF Drawn, OpenLabel
  <2>4. structure'[p] # 0
    BY <1>1, <2>1, SerialIsFresh DEF OpenLabel
  <2>5. QED
    BY <1>1, <1>3, <2>1, <2>2, <2>3, <2>4, OpenedIdentity DEF OpenLabel
<1>6. CASE InitOpen(p) \/ InitOpenFails(p)
  <2>0. TypeOK /\ TypeOK'
    BY DEF IdentityInv, ThreadInv
  <2>1. /\ fileName \in 1..MaxStart /\ UNCHANGED <<starts, serial, fileName>>
        /\ structure' = [structure EXCEPT ![p] = fileName]
        /\ UNCHANGED <<daemonServer, thread>>
    BY <1>6, <2>0 DEF InitOpen, InitOpenFails, Enrol, mappingVars, TypeOK
  <2>a. PICK to \in {"init_release", "abort_release"} :
          Step(p, "monitor", "init_body", to)
    BY <1>6 DEF InitOpen, InitOpenFails
  <2>2. /\ \A q \in Process \ {p} :
             /\ pc'[q] = pc[q] /\ structure'[q] = structure[q]
             /\ thread'[q] = thread[q]
        /\ structure'[p] = fileName
        /\ \A t \in Thread \ {"monitor"} : pc'[p][t] = pc[p][t]
        /\ pc'[p]["monitor"] \in {"init_release", "abort_release"}
    <3>1. /\ \A q \in Process \ {p} : pc'[q] = pc[q]
          /\ \A t \in Thread \ {"monitor"} : pc'[p][t] = pc[p][t]
          /\ pc'[p]["monitor"] = to
      BY <2>0, <2>a, StepChanges
    <3>2. /\ \A q \in Process \ {p} : structure'[q] = structure[q]
          /\ structure'[p] = fileName
      BY <2>0, <2>1 DEF TypeOK
    <3>3. QED
      BY <2>1, <3>1, <3>2
  <2>3. \A t \in Thread : pc'[p][t] \notin LeftLabel
    BY <1>2, <2>2 DEF LeftLabel
  <2>4. CASE InitOpenFails(p)
    <3>1. pc'[p]["monitor"] = "abort_release" /\ UNCHANGED <<ID, joined>>
      BY <2>4, StepChanges DEF InitOpenFails, IdentityInv, ThreadInv
    <3>2. \A f \in 1..MaxStart : idCounter[f] <= idCounter'[f]
      <4>0. \A f \in 1..MaxStart : idCounter[f] \in Nat
        BY <2>0, MappingTypes
      <4>1. CASE Enrol
        <5>1. \A f \in 1..MaxStart :
                idCounter'[f] = IF f = fileName THEN idCounter[f] + 1
                                                ELSE idCounter[f]
          BY <2>0, <4>1 DEF Enrol, TypeOK
        <5>2. QED
          BY <4>0, <5>1
      <4>2. CASE UNCHANGED mappingVars
        BY <4>0, <4>2 DEF mappingVars
      <4>3. QED
        BY <2>4, <4>1, <4>2 DEF InitOpenFails
    <3>3. Drawn'
      <4>1. /\ \A f \in 1..MaxStart : /\ daemonServer[f] \in Int
                                      /\ idCounter[f] \in Int /\ idCounter'[f] \in Int
            /\ \A q \in Process : ID[q] \in Int
        <5>1. \A f \in 1..MaxStart : idCounter'[f] \in Nat
          BY <2>0 DEF TypeOK
        <5>2. QED
          BY <2>0, <5>1, MappingTypes
      <4>2. \A q \in Process : joined[q] => q # p /\ structure[q] \in 1..MaxStart
        BY <1>2, JoinedAlive
      <4>3. \A f \in 1..MaxStart : daemonServer'[f] <= idCounter'[f]
        BY <2>1, <3>2, <4>1 DEF IdentityInv, Drawn
      <4>4. \A q \in Process : joined[q] => ID[q] <= idCounter'[structure[q]]
        BY <3>2, <4>1, <4>2 DEF IdentityInv, Drawn
      <4>5. QED
        BY <2>2, <3>1, <4>2, <4>3, <4>4 DEF Drawn
    <3>4. QED
      BY <1>1, <1>2, <1>3, <2>1, <2>2, <2>3, <3>1, <3>3, OpenedIdentity
         DEF OpenLabel
  <2>5. CASE InitOpen(p)
    <3>1. /\ pc'[p]["monitor"] = "init_release" /\ joined'[p]
          /\ ID'[p] = idCounter'[fileName]
          /\ \A q \in Process \ {p} : ID'[q] = ID[q] /\ joined'[q] = joined[q]
      <4>1. pc'[p]["monitor"] = "init_release"
        BY <2>0, <2>5, StepChanges DEF InitOpen, Thread
      <4>2. ID \in [Process -> Nat] /\ joined \in [Process -> BOOLEAN]
        BY <2>0 DEF TypeOK
      <4>3. QED
        BY <2>5, <4>1, <4>2 DEF InitOpen
    <3>2. /\ idCounter'[fileName] = idCounter[fileName] + 1
          /\ \A f \in 1..MaxStart \ {fileName} : idCounter'[f] = idCounter[f]
      BY <2>0, <2>1, <2>5 DEF InitOpen, Enrol, TypeOK
    <3>3. /\ \A f \in 1..MaxStart : daemonServer[f] \in Int /\ idCounter[f] \in Int
          /\ \A q \in Process : ID[q] \in Int
      BY <2>0, MappingTypes
    <3>4. \A q \in Process : joined[q] => structure[q] \in 1..MaxStart
      BY JoinedAlive
    <3>5. Drawn'
      <4>1. \A f \in 1..MaxStart : daemonServer'[f] <= idCounter'[f]
        BY <2>1, <3>2, <3>3 DEF IdentityInv, Drawn
      <4>2. \A q \in Process \ {p} : joined[q] => ID[q] <= idCounter'[structure[q]]
        BY <2>1, <3>2, <3>3, <3>4 DEF IdentityInv, Drawn
      <4>3. ID'[p] <= idCounter'[structure'[p]]
        BY <2>1, <2>2, <3>1, <3>2, <3>3
      <4>4. QED
        BY <2>2, <3>1, <4>1, <4>2, <4>3 DEF Drawn
    <3>6. \A q \in Process \ {p} :
            joined[q] /\ structure[q] = structure'[p] => ID'[p] # ID[q]
      BY <2>1, <2>2, <3>1, <3>2, <3>3 DEF IdentityInv, Drawn
    <3>7. QED
      BY <1>1, <1>3, <2>1, <2>2, <2>3, <3>1, <3>5, <3>6, OpenedIdentity
         DEF OpenLabel
  <2>6. QED
    BY <1>6, <2>4, <2>5
<1>7. QED
  BY <1>4, <1>5, <1>6

LEMMA NoDaemonIdentity ==
  ASSUME IdentityInv, ThreadInv', NEW p \in Process, InitNoDaemon(p)
  PROVE  IdentityInv'
<1>. USE Threads
<1>1. /\ \A q \in Process \ {p} :
           /\ pc'[q] = pc[q] /\ structure'[q] = structure[q]
           /\ joined'[q] = joined[q] /\ ID'[q] = ID[q]
           /\ thread'[q] = thread[q] /\ serial'[q] = serial[q]
      /\ \A t \in Thread : pc'[p][t] = "off"
      /\ structure'[p] = 0 /\ ~joined'[p] /\ ID'[p] = 0 /\ thread'[p] = None
      /\ starts' = starts
  BY DEF InitNoDaemon, ExitProcess, IdentityInv, ThreadInv, TypeOK
<1>2. pc[p]["monitor"] \in OpenLabel /\ Alive(p) /\ NewMapping(p)
  BY DEF InitNoDaemon, OpenLabel, Alive
<1>3. LeavesInitialised' /\ Reset' /\ Mapped'
  BY <1>1 DEF IdentityInv, LeavesInitialised, Reset, Mapped, Alive, LeftLabel
<1>4. Drawn' /\ DistinctIDs'
  BY <1>1, <1>2, NewFileDrawn DEF IdentityInv, Drawn, DistinctIDs
<1>5. Numbered'
  <2>1. fileName' = serial[p] /\ serial[p] <= starts
    BY <1>2, SerialIsFresh DEF NewMapping
  <2>2. 0 <= starts
    BY DEF IdentityInv, ThreadInv, TypeOK
  <2>3. fileName' <= starts' /\ \A q \in Process : structure'[q] <= starts'
    BY <1>1, <2>1, <2>2 DEF IdentityInv, Numbered
  <2>4. \A q \in Process : /\ Alive(q)' => q # p /\ Alive(q)
                           /\ pc'[q]["monitor"] \in OpenLabel =>
                                q # p /\ Alive(q) /\ pc[q]["monitor"] \in OpenLabel
    BY <1>1 DEF Alive, OpenLabel
  <2>5. \A q \in Process : pc'[q]["monitor"] \in OpenLabel =>
          /\ fileName' # serial'[q]
          /\ \A r \in Process : structure'[r] # serial'[q]
    <3>1. \A q \in Process \ {p} : Alive(q) => serial[q] # serial[p] /\ serial[q] # 0
      BY <1>2 DEF IdentityInv, Numbered
    <3>2. \A q \in Process : pc[q]["monitor"] \in OpenLabel =>
            \A r \in Process : structure[r] # serial[q]
      BY DEF IdentityInv, Numbered
    <3>3. QED
      BY <1>1, <2>1, <2>4, <3>1, <3>2
  <2>6. QED
    BY <1>1, <2>3, <2>4, <2>5 DEF IdentityInv, Numbered
<1>6. QED
  BY <1>3, <1>4, <1>5 DEF IdentityInv

LEMMA NextIdentity == ASSUME IdentityInv, [Next]_vars PROVE IdentityInv'
<1>1. ThreadInv /\ ThreadInv'
  BY NextThreads DEF IdentityInv
<1>2. CASE Age \/ UNCHANGED vars
  <2>1. UNCHANGED <<starts, fileName, idCounter, daemonServer, processVars, pc>>
    BY <1>2 DEF Age, vars, hostVars, mappingVars
  <2>2. QED
    BY <1>1, <2>1, StillIdentity
<1>3. ASSUME NEW p \in Process, Notable(p) PROVE IdentityInv'
  <2>1. CASE FailDelete(p) \/ Gone(p)
    BY <1>1, <2>1, ExitIdentity DEF FailDelete, Gone, Exit, hostVars, mappingVars
  <2>2. QED
    BY <1>1, <1>3, <2>1, BootIdentity, OpenIdentity, NoDaemonIdentity,
       TakeOverIdentity, UpdateIdentity, TerminateIdentity DEF Notable
<1>4. QED
  BY <1>1, <1>2, <1>3, StepKinds, QuietIdentity

\* The IDs of two servers that share a file differ (initialize_mapping_structure
\* draws them from idCounter), whatever servers start, die and fail.
THEOREM IDsAreDistinct == Spec => []DistinctIDs
<1>1. IdentityInv => DistinctIDs
  BY DEF IdentityInv
<1>2. QED
  BY <1>1, InitIdentity, NextIdentity, PTL DEF Spec
=============================================================================
