-------------------------- MODULE ServerProcesses --------------------------
(***************************************************************************)
(* The server processes of one host: how they start, share the file        *)
(* mapping, run the daemon, and leave.                                     *)
(*                                                                         *)
(* Every process is the program of server_monitor.c.  It runs the monitor  *)
(* (its main thread), the TCP accept thread, the request handlers that     *)
(* thread starts, the daemon if the process owns it, and the thread the    *)
(* SIGINT handler creates.  Processes meet in two named objects: the       *)
(* semaphore "/syncmap" and the mapped file.  Both are removed by name     *)
(* while other processes may still have them open, so an object and its    *)
(* name are kept apart: objects are numbered by the process that created   *)
(* them, and semName and fileName say which object the name denotes.       *)
(*                                                                         *)
(* One action is one step between two blocking calls: the body of a        *)
(* critical section is one action, and taking or releasing a lock another. *)
(***************************************************************************)
EXTENDS Integers, FiniteSets

CONSTANTS
  Process,       \* process slots; a slot runs one process after another
  Handler,       \* request handlers of one process (client_request_handler)
  Daemon,        \* daemon threads of one process that may exist together
  MaxStart,      \* bound: processes started in a behaviour
  SignalTarget,  \* threads the system may deliver SIGINT to: Linux takes the
                 \* main thread whenever it can
  Faults,        \* what may go wrong, a subset of FaultKind
  None           \* the holder of a free lock, the daemon of a server without
                 \* one, and the owner when no server owns the daemon

FaultKind == {
  "vanish",     \* the first server's directory is gone when it is scanned
  "open_fail",  \* a later server fails while it opens the mapping
  "tcp",        \* the TCP port is taken, or accept fails
  "thread",     \* create_thread fails
  "error",      \* a call whose error makes the program terminate the server
  "slow",       \* a daemon that is alive may be late by any time
  "ctrlc",      \* SIGINT once the server is initialised
  "early_ctrlc",\* SIGINT before that
  "kill",       \* the process dies wherever it is
  "kill_idle"}  \* the process dies while none of its threads has the mapping

Thread == {"monitor", "tcp", "ctrlc"} \cup Handler \cup Daemon

ASSUME ThreadsAreDistinct ==
  /\ {"monitor", "tcp", "ctrlc"} \cap (Handler \cup Daemon) = {}
  /\ Handler \cap Daemon = {}
  /\ None \notin Thread
ASSUME NoneIsNoProcess == None \notin Process
ASSUME FaultsAreKnown == Faults \subseteq FaultKind
ASSUME MaxStartIsNat == MaxStart \in Nat
ASSUME SignalTargets == SignalTarget \subseteq {"monitor"} \cup Daemon

VARIABLES
  starts,      \* how many processes have been started
  semName,     \* the semaphore "/syncmap" names, 0 when there is none
  semValue,    \* the value of every semaphore ever created
  fileName,    \* the file mapName names, 0 when there is none
  serverCounter, idCounter, daemonServer,  \* the fields of mappingStructure
  late,        \* in every file ever created; late: lastUpdate is too old
  serial,      \* per process: its number, 0 when the slot is empty
  mapLock,     \* per process: the semaphore it opened
  structure,   \* per process: the file it mapped, 0 before it did
  ID,          \* per process: its server ID
  thread,      \* per process: the daemon it created last (server.thread)
  joined,      \* per process: counted in serverCounter (history)
  activeLock,  \* per process: the thread that holds activeLock
  crLock,      \* per process: the thread that holds crLock
  pc           \* per process and thread: where the thread is

mappingVars == <<serverCounter, idCounter, daemonServer, late>>
hostVars == <<semName, semValue, fileName, mappingVars>>
processVars == <<serial, mapLock, structure, ID, thread, joined>>
vars == <<starts, hostVars, processVars, activeLock, crLock, pc>>

-----------------------------------------------------------------------------
(* Where a thread can be.  A label names what the thread does next.        *)

\* Labels at which the thread is between sem_wait and sem_post.
Inside == {"init_body", "init_release", "fail_release", "abort_release",
           "m_body", "m_unmap", "d_body", "d_unmap", "dq_unmap",
           "h_body", "h_unmap", "t_body", "t_release"}

\* Labels at which the thread waits for the semaphore.
MapWait == {"init_map", "m_map", "d_map", "h_map", "t_map"}

Label == Inside \cup MapWait \cup
  {"off", "fail_unlink", "fail_delete", "abort_exit", "startup", "spin",
   "m_idle", "m_unactive", "m_cr", "m_send",
   "accept", "h_cr", "h_command", "h_active", "h_unactive", "h_reply",
   "d_new", "d_idle", "d_unactive", "dq_unactive",
   "t_active", "t_exit"}

Alive(p) == pc[p]["monitor"] # "off"

InMapping(p, t) == pc[p][t] \in Inside

FreeDaemon(p) == {d \in Daemon : pc[p][d] = "off"}

\* A monitor past initialize_server and not on its way out of it.
Initialised(p) ==
  /\ Alive(p)
  /\ pc[p]["monitor"] \notin {"init_map", "init_body", "init_release",
       "fail_release", "fail_unlink", "fail_delete",
       "abort_release", "abort_exit"}

Init ==
  /\ starts = 0
  /\ semName = 0  /\ semValue = [g \in 1..MaxStart |-> 0]
  /\ fileName = 0
  /\ serverCounter = [f \in 1..MaxStart |-> 0]
  /\ idCounter = [f \in 1..MaxStart |-> 0]
  /\ daemonServer = [f \in 1..MaxStart |-> -1]
  /\ late = [f \in 1..MaxStart |-> FALSE]
  /\ serial = [p \in Process |-> 0]
  /\ mapLock = [p \in Process |-> 0]
  /\ structure = [p \in Process |-> 0]
  /\ ID = [p \in Process |-> 0]
  /\ thread = [p \in Process |-> None]
  /\ joined = [p \in Process |-> FALSE]
  /\ activeLock = [p \in Process |-> None]
  /\ crLock = [p \in Process |-> None]
  /\ pc = [p \in Process |-> [t \in Thread |-> "off"]]

-----------------------------------------------------------------------------
(* Steps every thread is built from.                                       *)

Goto(p, t, label) == pc' = [pc EXCEPT ![p] = [@ EXCEPT ![t] = label]]

Step(p, t, from, to) == pc[p][t] = from /\ Goto(p, t, to)

TakeActive(p, t, from, to) ==
  /\ activeLock[p] = None
  /\ Step(p, t, from, to)
  /\ activeLock' = [activeLock EXCEPT ![p] = t]
  /\ UNCHANGED <<starts, hostVars, processVars, crLock>>

DropActive(p, t, from, to) ==
  /\ Step(p, t, from, to)
  /\ activeLock' = [activeLock EXCEPT ![p] = None]
  /\ UNCHANGED <<starts, hostVars, processVars, crLock>>

TakeCr(p, t, from, to) ==
  /\ crLock[p] = None
  /\ Step(p, t, from, to)
  /\ crLock' = [crLock EXCEPT ![p] = t]
  /\ UNCHANGED <<starts, hostVars, processVars, activeLock>>

DropCr(p, t, from, to) ==
  /\ Step(p, t, from, to)
  /\ crLock' = [crLock EXCEPT ![p] = None]
  /\ UNCHANGED <<starts, hostVars, processVars, activeLock>>

SemWaitUnchecked(p, t, from, to) == \* mutant: does not wait
  /\ Step(p, t, from, to)
  /\ semValue' = [semValue EXCEPT ![mapLock[p]] = @ - 1]
  /\ UNCHANGED <<starts, semName, fileName, mappingVars, processVars,
                 activeLock, crLock>>

\* syncmapping_acquire: sem_wait on the semaphore the process opened.
SemWait(p, t, from, to) ==
  /\ Step(p, t, from, to)
  /\ semValue[mapLock[p]] > 0
  /\ semValue' = [semValue EXCEPT ![mapLock[p]] = @ - 1]
  /\ UNCHANGED <<starts, semName, fileName, mappingVars, processVars,
                 activeLock, crLock>>

\* syncmapping_release: sem_post, whoever calls it.
SemPost(p, t, from, to) ==
  /\ Step(p, t, from, to)
  /\ semValue' = [semValue EXCEPT ![mapLock[p]] = @ + 1]
  /\ UNCHANGED <<starts, semName, fileName, mappingVars, processVars,
                 activeLock, crLock>>

\* A step inside the process that touches neither locks nor shared objects.
Local(p, t, from, to) ==
  /\ Step(p, t, from, to)
  /\ UNCHANGED <<starts, hostVars, processVars, activeLock, crLock>>

\* exit(0), a signal that kills, or a segmentation fault: every thread is
\* gone, and with it the mutexes of the process.  The semaphore keeps its value.
ExitProcess(p) ==
  /\ pc' = [pc EXCEPT ![p] = [t \in Thread |-> "off"]]
  /\ serial' = [serial EXCEPT ![p] = 0]
  /\ mapLock' = [mapLock EXCEPT ![p] = 0]
  /\ structure' = [structure EXCEPT ![p] = 0]
  /\ ID' = [ID EXCEPT ![p] = 0]
  /\ thread' = [thread EXCEPT ![p] = None]
  /\ joined' = [joined EXCEPT ![p] = FALSE]
  /\ activeLock' = [activeLock EXCEPT ![p] = None]
  /\ crLock' = [crLock EXCEPT ![p] = None]
  /\ UNCHANGED starts

Exit(p) == ExitProcess(p) /\ UNCHANGED hostVars

-----------------------------------------------------------------------------
(* initialize_server: the monitor before its main loop.                    *)

\* check_params, load_settings, install_signal_handler, create activeLock,
\* sem_open with O_CREAT.  A process that fails or is killed before sem_open
\* leaves no trace and is not started here.
Boot(p) ==
  /\ ~Alive(p) /\ starts < MaxStart
  /\ starts' = starts + 1
  /\ serial' = [serial EXCEPT ![p] = starts + 1]
  /\ Goto(p, "monitor", "init_map")
  /\ \/ /\ semName = 0
        /\ semName' = starts + 1
        /\ semValue' = [semValue EXCEPT ![starts + 1] = 1]
     \/ semName # 0 /\ UNCHANGED <<semName, semValue>>
  /\ mapLock' = [mapLock EXCEPT ![p] = semName']
  /\ UNCHANGED <<fileName, mappingVars, structure, ID, thread, joined,
                 activeLock, crLock>>

NewMappingUncounted(p) == \* mutant: the creator is not counted
  /\ fileName' = serial[p]
  /\ serverCounter' = [serverCounter EXCEPT ![serial[p]] = 0]
  /\ idCounter' = [idCounter EXCEPT ![serial[p]] = 0]
  /\ daemonServer' = [daemonServer EXCEPT ![serial[p]] = 0]
  /\ late' = [late EXCEPT ![serial[p]] = TRUE]

\* create_mapping finds no file: this process makes it and the mapping
\* structure, whose lastUpdate is the zero of a fresh file until the first update.
NewMapping(p) ==
  /\ fileName' = serial[p]
  /\ serverCounter' = [serverCounter EXCEPT ![serial[p]] = 1]
  /\ idCounter' = [idCounter EXCEPT ![serial[p]] = 0]
  /\ daemonServer' = [daemonServer EXCEPT ![serial[p]] = 0]
  /\ late' = [late EXCEPT ![serial[p]] = TRUE]

MakeFile(p) ==
  /\ pc[p]["monitor"] = "init_body" /\ fileName = 0
  /\ NewMapping(p)
  /\ structure' = [structure EXCEPT ![p] = serial[p]]
  /\ UNCHANGED <<starts, semName, semValue, serial, mapLock, ID, activeLock,
                 crLock>>

InitCreate(p) ==
  /\ MakeFile(p)
  /\ joined' = [joined EXCEPT ![p] = TRUE]
  /\ \E d \in FreeDaemon(p) :
       /\ thread' = [thread EXCEPT ![p] = d]
       /\ pc' = [pc EXCEPT ![p] = [@ EXCEPT !["monitor"] = "init_release",
                                            ![d] = "d_new"]]

\* __first_scan returns PATH_NOT_ACCESSIBLE: undo by name what was created.
InitCreateFails(p) ==
  /\ "vanish" \in Faults
  /\ MakeFile(p)
  /\ Goto(p, "monitor", "fail_release")
  /\ UNCHANGED <<thread, joined>>

FailRelease(p) == SemPost(p, "monitor", "fail_release", "fail_unlink")

FailPostsAgain(p) == \* mutant: releases the lock twice
  SemPost(p, "monitor", "fail_unlink", "fail_delete")

FailUnlink(p) ==
  /\ Step(p, "monitor", "fail_unlink", "fail_delete")
  /\ semName' = 0
  /\ UNCHANGED <<starts, semValue, fileName, mappingVars, processVars,
                 activeLock, crLock>>

FailDelete(p) ==
  /\ pc[p]["monitor"] = "fail_delete"
  /\ ExitProcess(p)
  /\ fileName' = 0
  /\ UNCHANGED <<semName, semValue, mappingVars>>

\* create_daemon fails: exit(0) inside the critical section.
InitNoDaemon(p) ==
  /\ "thread" \in Faults
  /\ pc[p]["monitor"] = "init_body" /\ fileName = 0
  /\ ExitProcess(p)
  /\ NewMapping(p)
  /\ UNCHANGED <<semName, semValue>>

EnrolUncounted == \* mutant: serverCounter is not incremented
  /\ idCounter' = [idCounter EXCEPT ![fileName] = @ + 1]
  /\ late' = [late EXCEPT ![fileName] = FALSE]
  /\ UNCHANGED <<serverCounter, daemonServer>>

EnrolSameID == \* mutant: idCounter stays at the first new ID
  /\ serverCounter' = [serverCounter EXCEPT ![fileName] = @ + 1]
  /\ idCounter' = [idCounter EXCEPT ![fileName] = 1]
  /\ late' = [late EXCEPT ![fileName] = FALSE]
  /\ UNCHANGED daemonServer

\* create_mapping finds the file: open it, scan, count this server in.
Enrol ==
  /\ serverCounter' = [serverCounter EXCEPT ![fileName] = @ + 1]
  /\ idCounter' = [idCounter EXCEPT ![fileName] = @ + 1]
  /\ late' = [late EXCEPT ![fileName] = FALSE]
  /\ UNCHANGED daemonServer

InitOpen(p) ==
  /\ Step(p, "monitor", "init_body", "init_release") /\ fileName # 0
  /\ structure' = [structure EXCEPT ![p] = fileName]
  /\ Enrol
  /\ ID' = [ID EXCEPT ![p] = idCounter'[fileName]]
  /\ joined' = [joined EXCEPT ![p] = TRUE]
  /\ UNCHANGED <<starts, semName, semValue, fileName, serial, mapLock, thread,
                 activeLock, crLock>>

\* The scan fails before the server is counted, or nb_add_bucket after.
InitOpenFails(p) ==
  /\ "open_fail" \in Faults
  /\ Step(p, "monitor", "init_body", "abort_release") /\ fileName # 0
  /\ structure' = [structure EXCEPT ![p] = fileName]
  /\ Enrol \/ UNCHANGED mappingVars
  /\ UNCHANGED <<starts, semName, semValue, fileName, serial, mapLock, ID,
                 thread, joined, activeLock, crLock>>

AbortRelease(p) == SemPost(p, "monitor", "abort_release", "abort_exit")

AbortExit(p) == pc[p]["monitor"] = "abort_exit" /\ Exit(p)

\* crLock is created and the TCP accept thread started, or terminate_server.
Startup(p) ==
  \/ /\ pc[p]["monitor"] = "startup"
     /\ pc' = [pc EXCEPT ![p] = [@ EXCEPT !["monitor"] = "m_idle",
                                          !["tcp"] = "accept"]]
     /\ UNCHANGED <<starts, hostVars, processVars, activeLock, crLock>>
  \/ "tcp" \in Faults /\ Local(p, "monitor", "startup", "t_active")

Initialise(p) ==
  \/ SemWait(p, "monitor", "init_map", "init_body")
  \/ InitCreate(p) \/ InitOpen(p)
  \/ SemPost(p, "monitor", "init_release", "startup")
  \/ Startup(p)
  \/ FailRelease(p) \/ FailUnlink(p) \/ FailDelete(p)
  \/ AbortRelease(p) \/ AbortExit(p)

InitialiseFails(p) ==
  InitCreateFails(p) \/ InitNoDaemon(p) \/ InitOpenFails(p)

-----------------------------------------------------------------------------
(* The main loop of the monitor.                                           *)

\* The monitor has slept for at least three seconds: unless the host is slow,
\* a daemon it created before has made its first check.
\* Bound: a round starts only while the process may create one more daemon.
MonitorWake(p) ==
  /\ TakeActive(p, "monitor", "m_idle", "m_map")
  /\ "slow" \in Faults \/ \A d \in Daemon : pc[p][d] # "d_new"
  /\ FreeDaemon(p) # {}

MustTakeOverFreed(p) == \* mutant: an inactive daemon is not noticed
  daemonServer[structure[p]] = -1

MustTakeOverAlways(p) == \* mutant: the delay is not compared
  daemonServer[structure[p]] \notin {ID[p]}

\* The daemon is gone, or another server's is inactive for too long.
MustTakeOver(p) ==
  LET f == structure[p]
  IN  daemonServer[f] = -1 \/ (ID[p] # daemonServer[f] /\ late[f])

\* Where the body of a round ends: get_notifications may fail.
AfterRound == {"m_unmap"} \cup (IF "error" \in Faults THEN {"t_body"} ELSE {})

MonitorRound(p) ==
  /\ pc[p]["monitor"] = "m_body" /\ ~MustTakeOver(p)
  /\ \E next \in AfterRound : Local(p, "monitor", "m_body", next)

MonitorTakeOver(p) ==
  /\ pc[p]["monitor"] = "m_body" /\ MustTakeOver(p)
  /\ daemonServer' = [daemonServer EXCEPT ![structure[p]] = ID[p]]
  /\ \E d \in FreeDaemon(p), next \in AfterRound :
       /\ thread' = [thread EXCEPT ![p] = d]
       /\ pc' = [pc EXCEPT ![p] = [@ EXCEPT !["monitor"] = next,
                                            ![d] = "d_new"]]
  /\ UNCHANGED <<starts, semName, semValue, fileName, serverCounter, idCounter,
                 late, serial, mapLock, structure, ID, joined, activeLock,
                 crLock>>

\* The clock went backwards, or create_daemon fails: cs2_terminate_server.
MonitorGivesUp(p) ==
  /\ Local(p, "monitor", "m_body", "t_body")
  /\ "error" \in Faults \/ ("thread" \in Faults /\ MustTakeOver(p))

\* The lists are pruned and the notifications sent under crLock; an error
\* there terminates the server with crLock held.
MonitorSent(p) ==
  \/ DropCr(p, "monitor", "m_send", "m_idle")
  \/ "error" \in Faults /\ Local(p, "monitor", "m_send", "t_active")

Monitor(p) ==
  \/ MonitorWake(p)
  \/ SemWait(p, "monitor", "m_map", "m_body")
  \/ MonitorRound(p) \/ MonitorTakeOver(p)
  \/ SemPost(p, "monitor", "m_unmap", "m_unactive")
  \/ DropActive(p, "monitor", "m_unactive", "m_cr")
  \/ TakeCr(p, "monitor", "m_cr", "m_send")
  \/ MonitorSent(p)

-----------------------------------------------------------------------------
(* do_work: a daemon thread.                                               *)

DaemonUpdateOnce(p, d) == \* mutant: returns after the update
  /\ Local(p, d, "d_body", "dq_unmap")
  /\ ID[p] = daemonServer[structure[p]]

DaemonUpdate(p, d) ==
  /\ Step(p, d, "d_body", "d_unmap")
  /\ ID[p] = daemonServer[structure[p]]
  /\ late' = [late EXCEPT ![structure[p]] = FALSE]
  /\ UNCHANGED <<starts, semName, semValue, fileName, serverCounter, idCounter,
                 daemonServer, processVars, activeLock, crLock>>

DaemonUpdateFails(p, d) ==
  /\ "error" \in Faults
  /\ Local(p, d, "d_body", "t_body")
  /\ ID[p] = daemonServer[structure[p]]

DaemonSkips(p, d) == \* mutant: sleeps on instead of returning
  /\ pc[p][d] = "d_body" /\ ID[p] # daemonServer[structure[p]]
  /\ Local(p, d, "d_body", "d_unmap")

\* Another server owns the daemon now: release both locks and return.
DaemonQuits(p, d) ==
  /\ Local(p, d, "d_body", "dq_unmap")
  /\ ID[p] # daemonServer[structure[p]]

DaemonThread(p, d) ==
  \/ \E from \in {"d_new", "d_idle"} : TakeActive(p, d, from, "d_map")
  \/ SemWait(p, d, "d_map", "d_body")
  \/ DaemonUpdate(p, d) \/ DaemonQuits(p, d)
  \/ SemPost(p, d, "d_unmap", "d_unactive")
  \/ DropActive(p, d, "d_unactive", "d_idle")
  \/ SemPost(p, d, "dq_unmap", "dq_unactive")
  \/ DropActive(p, d, "dq_unactive", "off")

-----------------------------------------------------------------------------
(* The TCP accept thread and the request handlers.                         *)

AcceptFails(p) == "tcp" \in Faults /\ Local(p, "tcp", "accept", "t_active")

\* A request arrives and passes the checks made without a lock.
Request(p, h) ==
  /\ pc[p]["tcp"] = "accept"
  /\ \E next \in {"h_cr"} \cup (IF "error" \in Faults THEN {"t_active"} ELSE {}) :
       Local(p, h, "off", next)

\* INFO, INNR and DISC use crLock only; ADDP and ADDPNR also the mapping.
Command(p, h) ==
  \E next \in {"h_reply", "h_active"} : Local(p, h, "h_command", next)

Reply(p, h) ==
  \/ DropCr(p, h, "h_reply", "off")
  \/ "error" \in Faults /\ Local(p, h, "h_reply", "t_active")

HandlerThread(p, h) ==
  \/ TakeCr(p, h, "h_cr", "h_command")
  \/ Command(p, h)
  \/ TakeActive(p, h, "h_active", "h_map")
  \/ SemWait(p, h, "h_map", "h_body")
  \/ Local(p, h, "h_body", "h_unmap")
  \/ SemPost(p, h, "h_unmap", "h_unactive")
  \/ DropActive(p, h, "h_unactive", "h_reply")
  \/ Reply(p, h)

-----------------------------------------------------------------------------
(* terminate_server, run by whichever thread calls it.                     *)

\* server.structure is still NULL: the decrement is a segmentation fault.
TerminateCrashes(p, t) ==
  /\ pc[p][t] = "t_body" /\ structure[p] = 0
  /\ Exit(p)

\* cs2_terminate_server up to the release: cancel the accept thread, leave
\* the mapping, and delete the file by name if this was the last server.
TerminateBody(p, t) ==
  /\ pc[p][t] = "t_body" /\ structure[p] # 0
  /\ pc' = [pc EXCEPT ![p] =
             [u \in Thread |->
                IF u = t THEN "t_release"
                ELSE IF u = "tcp" /\ pc[p][u] = "accept" THEN "off"
                ELSE pc[p][u]]]
  /\ serverCounter' = [serverCounter EXCEPT ![structure[p]] = @ - 1]
  /\ daemonServer' = [daemonServer EXCEPT ![structure[p]] =
                        IF @ = ID[p] THEN -1 ELSE @]
  /\ fileName' = IF serverCounter'[structure[p]] = 0 THEN 0 ELSE fileName
  /\ joined' = [joined EXCEPT ![p] = FALSE]
  /\ UNCHANGED <<starts, semName, semValue, idCounter, late, serial, mapLock,
                 structure, ID, thread, activeLock, crLock>>

TerminateExitUnlocks(p, t) == \* mutant: activeLock is released before exit(0)
  \/ pc[p][t] = "t_exit" /\ Exit(p)
  \/ activeLock[p] = t /\ DropActive(p, t, "t_exit", "t_exit")

TerminateExitLocked(p, t) == \* mutant: the semaphore is not posted
  pc[p][t] \in {"t_release", "t_exit"} /\ Exit(p)

TerminateExit(p, t) == pc[p][t] = "t_exit" /\ Exit(p)

\* activeLock is never released again.
Terminate(p, t) ==
  \/ TakeActive(p, t, "t_active", "t_map")
  \/ SemWait(p, t, "t_map", "t_body")
  \/ TerminateCrashes(p, t) \/ TerminateBody(p, t)
  \/ SemPost(p, t, "t_release", "t_exit")
  \/ TerminateExit(p, t)

-----------------------------------------------------------------------------
(* What the environment does.                                              *)

\* linux_handler starts ctrlc_handler on a thread of its own.  When one runs
\* already the next one waits behind it for activeLock, and is left out.
CtrlcThread(p, t, label) ==
  pc' = [pc EXCEPT ![p] =
          [u \in Thread |->
             IF u = t THEN label
             ELSE IF u = "ctrlc" /\ pc[p][u] = "off" THEN "t_active"
             ELSE pc[p][u]]]

\* What the interrupted thread does: a sleeping monitor spins, a sleeping
\* daemon returns; a thread that was not in such a call, or waits for a
\* mutex, goes on.
SignalResumes(p, t) ==
  /\ \E label \in {pc[p][t]}
        \cup (IF pc[p][t] = "m_idle" THEN {"spin"} ELSE {})
        \cup (IF pc[p][t] = "d_idle" THEN {"off"} ELSE {}) :
       CtrlcThread(p, t, label)
  /\ UNCHANGED <<starts, hostVars, processVars, activeLock, crLock>>

SignalIgnored(p, t) == \* mutant: the monitor ignores the error of sem_wait
  /\ pc[p][t] = "m_map" /\ semValue[mapLock[p]] = 0
  /\ CtrlcThread(p, t, "m_body")
  /\ UNCHANGED <<starts, hostVars, processVars, activeLock, crLock>>

\* sem_wait fails with EINTR.  cs1_terminate_server reports it and goes on
\* without the semaphore; every other caller calls exit(0).
SignalInterruptsWait(p, t) ==
  /\ pc[p][t] \in MapWait /\ semValue[mapLock[p]] = 0
  /\ \/ /\ pc[p][t] = "t_map"
        /\ CtrlcThread(p, t, "t_body")
        /\ UNCHANGED <<starts, hostVars, processVars, activeLock, crLock>>
     \/ pc[p][t] # "t_map" /\ Exit(p)

Signal(p) ==
  /\ Alive(p)
  /\ (IF Initialised(p) THEN "ctrlc" ELSE "early_ctrlc") \in Faults
  /\ \E t \in SignalTarget :
       /\ pc[p][t] # "off"
       /\ SignalResumes(p, t) \/ SignalInterruptsWait(p, t)

Kill(p) ==
  /\ Alive(p)
  /\ \/ "kill" \in Faults
     \/ "kill_idle" \in Faults /\ \A t \in Thread : ~InMapping(p, t)
  /\ Exit(p)

\* The server daemonServer names has a daemon thread.
DaemonRuns(f) ==
  \E p \in Process : /\ structure[p] = f /\ joined[p]
                     /\ ID[p] = daemonServer[f]
                     /\ thread[p] # None /\ pc[p][thread[p]] # "off"

\* lastUpdate falls behind by more than refreshTime * DELAY_TOLLERANCE_FACTOR:
\* a daemon that runs is never that late, unless the host is slow.
Age ==
  /\ fileName # 0 /\ ~late[fileName]
  /\ "slow" \in Faults \/ ~DaemonRuns(fileName)
  /\ late' = [late EXCEPT ![fileName] = TRUE]
  /\ UNCHANGED <<starts, semName, semValue, fileName, serverCounter, idCounter,
                 daemonServer, processVars, activeLock, crLock, pc>>

\* Every process the bound allows has run and gone.
Finished ==
  /\ starts = MaxStart /\ \A p \in Process : ~Alive(p)
  /\ UNCHANGED vars

ProcessStep(p) ==
  \/ Initialise(p) \/ Monitor(p)
  \/ \E d \in Daemon : DaemonThread(p, d)
  \/ \E h \in Handler : HandlerThread(p, h)
  \/ \E t \in Thread : Terminate(p, t)

Environment(p) ==
  \/ Boot(p) \/ InitialiseFails(p) \/ MonitorGivesUp(p) \/ AcceptFails(p)
  \/ \E d \in Daemon : DaemonUpdateFails(p, d)
  \/ \E h \in Handler : Request(p, h)
  \/ Signal(p) \/ Kill(p)

Next ==
  \/ \E p \in Process : ProcessStep(p) \/ Environment(p)
  \/ Age
  \/ Finished

Spec == Init /\ [][Next]_vars

(***************************************************************************)
(* Fairness.  A thread that can go on does (weak fairness).  The monitor   *)
(* and the daemons, which come back for the locks again and again, get     *)
(* them in the end although others take them in between (strong fairness): *)
(* every holder leaves after a bounded body and the loops sleep for        *)
(* seconds between two rounds, so a waiter finds the lock free time and    *)
(* again.  Time passes.                                                    *)
(***************************************************************************)
Fairness ==
  /\ \A p \in Process :
       /\ WF_vars(Initialise(p))
       /\ SF_vars(Monitor(p))
       /\ SF_vars(\E d \in Daemon : DaemonThread(p, d))
       /\ \A h \in Handler : WF_vars(HandlerThread(p, h))
       /\ \A t \in Thread : WF_vars(Terminate(p, t))
  /\ WF_vars(Age)

FairSpec == Spec /\ Fairness

-----------------------------------------------------------------------------
(* Properties.                                                             *)

\* Type invariant of the processes, their threads and the shared objects.
TypeOK ==
  /\ starts \in 0..MaxStart
  /\ semName \in 0..MaxStart /\ semValue \in [1..MaxStart -> Nat]
  /\ fileName \in 0..MaxStart
  /\ serverCounter \in [1..MaxStart -> Int]
  /\ idCounter \in [1..MaxStart -> Nat]
  /\ daemonServer \in [1..MaxStart -> Int]
  /\ late \in [1..MaxStart -> BOOLEAN]
  /\ serial \in [Process -> 0..MaxStart]
  /\ mapLock \in [Process -> 0..MaxStart]
  /\ structure \in [Process -> 0..MaxStart]
  /\ ID \in [Process -> Nat]
  /\ thread \in [Process -> Daemon \cup {None}]
  /\ joined \in [Process -> BOOLEAN]
  /\ activeLock \in [Process -> Thread \cup {None}]
  /\ crLock \in [Process -> Thread \cup {None}]
  /\ pc \in [Process -> [Thread -> Label]]

\* Two threads, of one process or of two, are never both between
\* syncmapping_acquire and syncmapping_release (syncmapping.h: the lock
\* "coordinate[s] accesses to the mapping").
MappingMutex ==
  \A p, q \in Process : \A t, u \in Thread :
    InMapping(p, t) /\ InMapping(q, u) => p = q /\ t = u

\* The same for the threads that use one semaphore, also when a failing first
\* server has deleted "/syncmap" and others have created it anew.
SemaphoreMutex ==
  \A p, q \in Process : \A t, u \in Thread :
    InMapping(p, t) /\ InMapping(q, u) /\ mapLock[p] = mapLock[q]
      => p = q /\ t = u

\* Once a thread has run cs2_terminate_server up to the release of mapLock, no
\* other thread of its process enters the mapping again before exit(0)
\* (server_commons.c:52, "don't unlock activeLock to avoid data races").
LeaverStaysOut ==
  \A p \in Process : \A t, u \in Thread :
    pc[p][t] = "t_exit" => ~InMapping(p, u)

\* All the servers counted in a mapping share the file mapName names: nobody is
\* left on a deleted file when delete_file follows the counter to zero.
OneMapping ==
  \A p \in Process : joined[p] => structure[p] = fileName

\* serverCounter never misses a server, so the file outlives its users.
CounterCovers ==
  fileName # 0 =>
    serverCounter[fileName] >=
      Cardinality({p \in Process : joined[p] /\ structure[p] = fileName})

\* The first server of the host called exit(0) in the critical section, before
\* anybody else opened the file it had made.
MakerGone ==
  /\ fileName # 0 /\ idCounter[fileName] = 0
  /\ \A p \in Process : structure[p] # fileName

\* serverCounter is exact and the file exists only while a server uses it,
\* when no process dies and no initialisation fails half way, but for the one that
\* leaves the file as it was made.
CounterExact ==
  fileName # 0 /\ ~MakerGone =>
    /\ serverCounter[fileName] =
         Cardinality({p \in Process : joined[p] /\ structure[p] = fileName})
    /\ serverCounter[fileName] > 0

\* The counter and the one file together.
SharedFileIsCounted == OneMapping /\ CounterExact

\* Two servers in one mapping have different IDs, also after servers died and
\* others opened the file they left.
DistinctIDs ==
  \A p, q \in Process :
    p # q /\ joined[p] /\ joined[q] /\ structure[p] = structure[q]
      => ID[p] # ID[q]

\* However servers died or failed, the file does not go while one uses it and the
\* IDs it gives stay distinct.
ServersAreKept == CounterCovers /\ DistinctIDs

\* A server that daemonServer names has a daemon thread, as its own monitor never
\* replaces one: unless SIGINT stopped the sleep and the process is leaving.
OwnerHasDaemon ==
  \A p \in Process :
    joined[p] /\ ID[p] = daemonServer[structure[p]]
              /\ pc[p]["ctrlc"] = "off"
      => thread[p] # None /\ pc[p][thread[p]] # "off"

\* The semaphore is at zero only while some live thread is to post it, whatever
\* call fails, but for the one failure that ends the first server inside
\* (server_monitor.c:346).
LockNotLost ==
  semName # 0 /\ semValue[semName] = 0 =>
    \/ \E p \in Process, t \in Thread : mapLock[p] = semName /\ InMapping(p, t)
    \/ MakerGone

\* "since we are the first server and we fail, delete the mapping"
\* (server_monitor.c:336): when all servers have gone, the next one finds no file
\* and a lock that is free.
NothingIsLeft ==
  (\A p \in Process : ~Alive(p)) =>
    fileName = 0 /\ (semName # 0 => semValue[semName] > 0)

\* Only the daemon a process created last updates the mapping: one that was
\* replaced "will kill itself once noticed the new daemon"
\* (server_monitor.c:59-60).
ReplacedDaemonQuits ==
  \A p \in Process, d \in Daemon : pc[p][d] = "d_unmap" => d = thread[p]

\* When the owner of the daemon is gone, some server that goes on serving starts
\* a daemon (server_monitor.c:57-79): the mapping is not left without one.
DaemonReplaced ==
  \A p \in Process :
    joined[p] ~> ~joined[p] \/ DaemonRuns(structure[p])

\* A round in which a server takes the daemon while another server is there.
Contest ==
  \E p, q \in Process : p # q /\ joined[q] /\ MonitorTakeOver(p)

\* While a server stays, the mapping is updated again and again, by its daemon or
\* another's, whoever leaves, dies and takes over (server_monitor.c:57-79): unless
\* servers take the daemon from each other for ever before it has updated anything.
MappingIsUpdated ==
  \A p \in Process :
    <>[]joined[p] =>
      \/ []<><<\E q \in Process : \E d \in Daemon : DaemonUpdate(q, d)>>_vars
      \/ []<><<Contest>>_vars

-----------------------------------------------------------------------------
(* Refinement: the processes implement DaemonOwnership.                    *)

Members == {p \in Process : joined[p]}

\* The server daemonServer names, if it is still there.
Owner ==
  LET named == {p \in Members : fileName # 0 /\ structure[p] = fileName
                                  /\ ID[p] = daemonServer[fileName]}
  IN  IF named = {} THEN None ELSE CHOOSE p \in named : TRUE

Ownership == INSTANCE DaemonOwnership WITH
  Server <- Process, members <- Members, owner <- Owner,
  late <- fileName # 0 /\ late[fileName]

\* The processes, their locks, IDs and counters implement the ownership of one
\* daemon by a group of servers: joining, leaving, dying and taking over.
ImplementsOwnership == Ownership!OwnershipSpec
=============================================================================
