# FSMonitor in TLA+

FSMonitor watches directories. On one host any number of *server* processes run;
each accepts requests of *clients* over TCP ("tell me about this path"), and sends
them notifications over UDP. The servers of a host share one mapped file: in it
lie the *filesystem tree*, a picture of the directories that somebody monitors, and
one *notification bucket* for each server and path. One server at a time runs the
*daemon*, a thread that compares the tree with the file system every few seconds
and pushes what changed into the buckets; every server's *monitor* thread reads
its own buckets and passes the notifications to its clients.

This directory is a verification project beside that code: TLA+ modules
translated from the C sources, configurations that check them with TLC, and
theorems with proofs that TLAPS checks. The reference is the code of the Linux
build; comments and the report are used only for what they promise.

## Inventory

| Component | State it keeps | Operations | Where it is hard |
|---|---|---|---|
| Server processes and threads (`server_monitor.c`, `server_commons.c`, `daemon.c`, `linux/syncmapping.c`, `linux/thread*.c`, `linux/signal_handler.c`, `linux/mapping.c`) | the global `server`: `mapLock`, `activeLock`, `crLock`, `structure`, `ID`, `thread`; in the file `serverCounter`, `idCounter`, `daemonServer`, `lastUpdate` | initialise, main loop, create the daemon, daemon loop, terminate in two entries (`cs1`, `cs2`), SIGINT handler | processes that start, fail, die and leave in any order; objects removed by name while others use them; a signal that interrupts `sem_wait`; a terminating thread among threads that go on |
| Notification buckets (`notifications_bucket.c`) | a list in shared memory, one bucket per server and path, each with `deletionMark`, `updated` and its notifications | create, add, exists, push, read, remove | marks set by one server's daemon, read by another server a round later |
| Mapping structure (`mapping_structure.c`) | offsets of the tree and of the list, the fields above | register a path, unregister a server, first scan, update, get notifications | paths that are equal, inside or above one another, of several servers; directories that come and go between two steps |
| Filesystem tree (`filesystree.c`) | nodes with `isMonitored` and what `stat` said | add, delete child, clean | who keeps a node that several need |
| Shared memory allocator (`mem_management.c`) | headers of blocks inside the region | init, malloc, free | splitting and merging with links backwards |
| Client register (`client_register.c`, `client_path_tree.c`, `client_node_list.c`, `linked_list.c`) | per client its registrations and pending updates; a tree of paths with the registrations at each node | register, unregister, push, delete a subtree, send | the same registration in two structures that must agree |
| TCP server and handlers (`tcp_server.c`) | `serverPaths`, sockets | accept, ADDP, ADDPNR, INFO, INNR, DISC | three locks; `serverPaths` changed outside the mapping's locks |
| Client (`client.c`, `networking.c`) | the connection, the UDP port, the update its thread is reading | start, command, answer, wait, print updates | runs that overlap on one host and share its port; pieces, lost and reordered datagrams; a server that ends in between |
| Settings and parameters (`settings_parser.c`, `params_parser.c`) | none after the start | parse | a lexer's ends of input, options without their value |
| File system access (`linux/myfile.c`, `linux/time_utilities.c`) | none | list, stat, concatenate, time | what is listed changes before it is looked at |
| Notification text (`received_notification.c`) | none | format | lengths of numbers, relative times |
| `sem_unlink.c`, Windows port (`win/`) | none | system calls | not modelled, see below |

How they interact. Threads of one process share `server`; `activeLock` lets one of
them at a time go for the mapping, `crLock` guards the client register and
`serverPaths`. Processes share the file, guarded by the named semaphore `/syncmap`
(`mapLock`). A handler takes `crLock`, `activeLock`, `mapLock` in this order; the
monitor takes `activeLock` and `mapLock`, releases both, then takes `crLock`; the
daemon takes `activeLock` and `mapLock`. A thread that meets an error terminates
the server itself, from where it stands. A client sends one command by TCP and reads
one answer; the updates come by UDP to one port of its host, which the server knows
by the host's address, so all runs of the client on a host share what is registered.

What makes them correct, component by component: the processes exclude each other
in the mapping, count themselves exactly, never lose the semaphore, always find a
daemon again, and nobody touches the mapping after its server has left. Buckets,
marks in the tree and `serverPaths` agree whoever joins, registers and leaves; a
directory with a bucket is scanned; a server hears of every change and is told a
path was deleted only if it was. The allocator's blocks tile the region and belong
to one caller each. The client register's two structures hold the same
registrations. The listener has been told what the tree holds, and a scan in peace
makes the tree what the disk is. The client takes its arguments and settings for what
they say, gets an answer to what it asked, has its port open while the server thinks
of it, and prints updates whole.

## Modules

| Module | Models | Role |
|---|---|---|
| `ServerProcesses` | server processes and threads | the core: life of the processes, locks, daemon |
| `DaemonOwnership` | nothing by itself | the abstract specification `ServerProcesses` implements |
| `MCServerProcesses` | | symmetry for TLC |
| `ServerProcesses_proofs` | | types, mutual exclusion, the kinds of step, distinct IDs |
| `DaemonOwnership_proofs` | | the counter, one file, nobody after the leaver, the lock is kept; the owner of the daemon, the refinement of `DaemonOwnership` |
| `MonitoredPaths` | buckets, mapping structure, tree, `serverPaths` | what is monitored, for whom |
| `MCMonitoredPaths` | | directories and scenarios for TLC |
| `MonitoredPaths_proofs` | | its eight properties |
| `FilesystemTree` | the tree node by node, the scans directory by directory, for one server | what a scan finds while the disk changes under it |
| `MCFilesystemTree` | | files and directories for TLC |
| `FilesystemTree_proofs` | | its types and four safety properties |
| `PathNames` | `tokenize_path`, the loops that keep part of a list | paths as sequences of names |
| `PathStrings` | `is_prefix` | paths compared as strings |
| `PathNames_proofs` | | facts about paths and about what is kept of a list |
| `PmmAllocator` | the allocator | the region's blocks |
| `PmmAllocator_proofs` | | types, tiling, merging |
| `ClientRegister` | client register | who hears of what |
| `Registrations` | nothing by itself | the abstract specification `ClientRegister` implements |
| `MCClientRegister` | | directories and symmetry for TLC |
| `ClientRegister_proofs` | | its five properties, the refinement of `Registrations` among them |
| `ClientProgram` | client, and of the server what it meets: handler, queue, datagrams | composes the next four |
| `CommandLine` | `params_parser.c` and the choice `main` makes | pure |
| `SettingsFile` | `settings_parser.c` | pure |
| `RequestStream` | the handler's receive loop | pure |
| `UpdateStream` | the receive loop of `client_server` | pure |
| `MCClientProgram` | | arguments, files and worlds for TLC |
| `ClientProgram_proofs` | | its types, requests, updates, the open port, and every command line |

### ServerProcesses

A process is a slot that runs one process after another (at most `MaxStart` in a
behaviour). Its threads are `monitor` (the main thread: `initialize_server`, then
the loop of `server_monitor`), `tcp` (`__tcp_server_function`), `ctrlc` (the thread
the SIGINT handler starts), handlers (`client_request_handler`) and daemons
(`do_work`). `pc[p][t]` says where a thread is; labels begin with the letter of the
thread (`m_`, `h_`, `d_`, `t_` for a thread that terminates the server). One action
is one step between two blocking calls: taking a lock, the whole body of a
critical section, releasing it.

The semaphore and the file have names that can be unlinked while others have the
object open. So objects are numbered by the process that created them, and
`semName`, `fileName` say which one the name denotes; `mapLock[p]` and
`structure[p]` which one process p opened. The fields of the mapping
(`serverCounter`, `idCounter`, `daemonServer`, and `late` for the age of
`lastUpdate`) exist per file.

What may go wrong is the constant `Faults`: the first server's directory vanishes,
opening fails half way, the port is taken, `create_thread` fails, any call whose
error ends the server fails, the daemon is late by any time, SIGINT comes before
or after the initialisation, a process is killed anywhere or only outside the
mapping. Each run takes the faults its question is about.

Left out: what is inside the critical sections (that is `MonitoredPaths`), a
second `ctrlc` thread, SIGINT before `activeLock` exists (the handler then follows
a null pointer and the process dies, as if killed before it opened anything).

### DaemonOwnership

What a reader of the documentation expects of the daemon: a group of members, at
most one owner, refreshed by the owner only, taken over when the owner is gone or
late. `ImplementsOwnership` maps the group to the processes counted in the mapping,
the owner to the process whose ID `daemonServer` holds.

### MonitoredPaths

State: the directories (`fs`), the nodes of the tree with attributes and mark,
the buckets in list order, and per server its `serverPaths`, the request a handler
is answering and the deleted paths its monitor has to prune. A directory is the
sequence of names that lead to it.

Actions: `Join` (`initialize_mapping_structure`), `Register`
(`register_server_path`, with its four outcomes), `Accept` (the handler updates
`serverPaths`, outside the mapping's locks), `Update` (`update`: `__scan` of the
whole tree and `nb_push_notification` for each difference), `ReadNotifications`
(`nb_read_notifications`), `Prune` (the monitor rebuilds `serverPaths`), `Leave`
(`cs2_terminate_server`, `unregister_server`), `JoinFails` (a server's own directory has
vanished and the mapping is in use: what the first scan has put in the tree stays), and the changes other programs make
to directories. What runs under the mapping lock is one step: mutual exclusion is
what `ServerProcesses` checks and proves.

The notifications themselves are folded into `told`, the set of directories a
listener knows of below its path: it starts as what the first scan saw and follows
every creation and deletion pushed. That is enough to say that a listener is told
everything, or too much. `attrs` are two values that stand for permissions and size.

`serverPaths` is pruned by code that keeps the wrong paths and counts by the right
ones. When both counts agree the list is the wrong one; when they differ the
program writes past its array, and the server becomes `broken` and is not followed. When
more paths are deleted than the list has (`NoRoom`), the allocation of a negative length
fails and the monitor terminates the server: this is one of the ways to `Leave`.

A behaviour is one of the `Scenarios`: which servers there are and what each is asked
for, the directories, and what the world does to them (`"create"`, `"delete"`,
`"vanish"`: between the handler's test of a path and its registration, `"attrs"`,
`"interrupt"`: SIGINT between a registration and `serverPaths`, `"garbage"`: new
buckets find other bytes than zeros).

Left out: plain files, directories that cannot be read and a file system that changes
while a scan is under way (these are in `FilesystemTree`), failed allocations, and the
node "/" (never monitored itself). An empty list of buckets, which the code reads as a bucket at offset 0, is
an empty list.

### FilesystemTree

The same functions seen from nearer, for one server and one path at a time.
`nodes` are the blocks of shared memory, each a node of `fst_*` or free, with name,
entry (kind, permissions, contents), mark and list of children; what is lost stays
allocated. `disk` is what `stat` would say, and changes between any two steps.

The daemon's scan is `__scan`'s recursion with its stack in `todo`, one directory a
step: `StartScan`, `CheckDirectory` (the `is_directory` before a call for a child of
what is not monitored), `PassThrough` (not monitored, or not readable), `Compare` (the
three loops over changed, new and deleted entries, with what each pushes). `Register`
is `__first_scan` with the nodes on the way and `__support_first_scan` below,
`ReadMarked` and `Leave` end a registration, `Clean` is `__dfs_clean_subtree`. When the
memory is full the call fails and the server ends.

`view` is what a listener knows from the notifications pushed to it: `Tell` changes it
by what the notes say and not by what the tree is, so `ToldWhatTreeHolds` relates two
computations. A size that stays and a time that changes are told apart by `Contents`, of
which two have the same size.

Left out: size and time of directories, other servers (`MonitoredPaths`).

### PmmAllocator

The region as a function from offsets to the headers that can still be read there
(`header`) and the blocks callers hold (`live`); `Malloc` and `Free` follow the
code's search, split and the four cases of merging, with the backward links as the
code leaves them. A header that is no longer one of the chain can be read, by a wrong
backward link, until a caller's bytes or a new header overlap it (`Overwritten`). The model stops where the program would read a caller's data as
a header, where two callers share bytes and where a block reaches beyond the
region: behaviour is undefined from there.

### ClientRegister

A registration is one object that the list of its client and the list of its node
in the tree point to. It is named by its client and its path: `paths[c]` is
`registeredPaths`, `at[d]` the registrations of a node, `mode[c][d]` the object,
`"none"` when it is freed. `nodes` are the nodes of the tree, `listed` the clients of
the node list, `updates` their queues, `pushed` what the monitor has pushed in the
round under way.

Actions: `Register` (`cpt_add_client_registration`: the search through the client's
paths with its three ways to go on, then the node and the entries), `Unregister`
(`cpt_remove_client_registration`, with the nodes it climbs back over), `Push`
(`cpt_push_notification`: the walk, and for a directory that is gone
`cpt_delete_subtree` and the clean-up), `Send` and `SendFails`
(`cnl_send_notifications`; a failure ends the server). Handlers and monitor hold
`crLock`, and the monitor keeps it for all of a round, so each call is one step and
requests come between rounds.

When the only child of a node is deleted, the array of children is freed and the
pointer kept (`client_path_tree.c:548`). `freed` holds such nodes; a request that adds
a child to one uses freed memory, and the model stops there. It would also stop where
the search through the paths returns with cleared entries: that it never does is
`NoHoles`.

Left out: the node "/" (a parent that nobody registers for), texts, failed
allocations, the unit of the `realloc` at `client_path_tree.c:228`.

### Registrations

What a client may rely on: it holds paths, each recursive or not; a recursive one
replaces those below it, a path below a recursive one is not added, the plain request
for a path that is held recursively narrows it, a directory that is gone takes the
registrations for it and below along. No lists, tree or order.
`ImplementsRegistrations` maps the set of a client to the entries of its list with the
modes of the objects they point to.

### ClientProgram

`client[p]` is a run of the program, `conn[p]` its connection with the handler at the
other end, `port` the run that has the UDP port, `hearing` what its thread has read.
Of the server there are the host's registrations, its queue in the node list, the
monitor's socket and whether the server has ended; `net` are the datagrams on
their way. What the register does with directories inside one another is in
`ClientRegister`; here no directory lies in another.

A run starts with arguments (`Start`), ends if they do not fit (`ExitOnOptions`),
reads its settings (`LoadSettings`, `ExitOnSettings`), opens the port and starts the
thread with `-w` (`OpenPort`), connects, sends and reads its answer (`Connect`, `Send`,
`ReceiveAnswer`, `Reset`, `Spin`, `Finish`) and waits for a key (`Key`). A handler reads a
line (`Receive`, `ReceiveNothing`), does what it says under `crLock` and answers (`Answer`),
or answers before it takes the lock (`Refuse`: 403, 404; `AnswerUnknown`: 300). The monitor queues updates, or that a directory is gone (`Queue`), and
sends them one by one (`SendUpdate`), holding `crLock` from the first to the last, which
is why `Answer` waits for an empty queue. The error of a send to a closed port comes
back at the next send from that socket and ends the server (`cnl_send_notifications`
answers `PROG_ERROR`).

`recv` that answers 0 is followed as the code does: the client asks again for ever
(`Spin`), the handler copies bytes beyond its buffer until one is a newline or cannot be
read (`ReceiveNothing`).

A behaviour is in one of the `Worlds`, which says what may happen, and how often a run
starts and an update is sent:

| World | Starts, updates | What may happen |
|---|---|---|
| new | 1, 1 | a first run with any arguments and any settings file |
| loss, stop | 3, 2 | a datagram is lost; the server ends |
| delay, duplicate | 2, 2 | datagrams overtake each other and the answers; one comes twice |
| pieces | 1, 1 | TCP hands over any part of what was sent |
| rude | 2, 1 and 1, 2 | the user starts and ends runs at any time |
| long | 1, 3 | updates longer than the client's buffer |

Elsewhere the user is patient: one run waits, he starts another only to give a command,
and he ends the waiting one when he knows of no registration.

### CommandLine, SettingsFile, RequestStream, UpdateStream

`ParseParams` and `Choose` are `parse_params` and what `main` makes of its list;
`UnderstoodAs` is the reference, written without a parser: the grammar of `params_parser.h`
as a way to cut the arguments into groups, in which a value is any argument, with all the
options that `client.c:5` lists as taking one. Where the code does less than that,
`cl_dash.cfg` and `cl_no_value.cfg` show it. `ParseSettings` follows the lexer
character by character; its reference, `SettingsAreTheFiles`, is said line by line, each line
with the kind it has by construction (`setting`, `blank`, `malformed`, `unreadable`: one that
no token begins). `settings_parser.h` writes a setting as "KEY : VALUE"; the parser and the
settings files that come with the code have ">" between the two, and so has the reference. `Received` is one `recv` of the handler with
the index that is not set back; `Fed` is one datagram through the client's automaton.

## Runs

Passing runs.

| Run | What it checks | Instance |
|---|---|---|
| `sp_errors` | one thread at a time in the mapping (`MappingMutex`), nobody in it after its server has left (`LeaverStaysOut`), one file and an exact counter (`SharedFileIsCounted`), the semaphore is not lost (`LockNotLost`), no deadlock, when the TCP server, the creation of a thread or any call whose error ends the server fails; `SharedFileIsCounted` and `LockNotLost` except the first server that ends inside when its `create_daemon` fails (`MakerGone`) | 2 slots, 3 starts, 2 daemon threads each |
| `sp_signals` | exclusion on each semaphore with SIGINT at any moment, to the monitor or a daemon, SIGKILL anywhere, and a failed first server that unlinks semaphore and file | 2 slots, 2 starts |
| `sp_churn` | IDs and counter (`ServersAreKept`), an owner has a daemon, types, and the refinement of `DaemonOwnership`, when servers die outside the mapping, fail at their start and terminate in order, so that the counter goes up and down, the file is removed and made anew and IDs start again, and daemons are late by any time | 2 slots, 3 starts |
| `sp_live` | liveness: a dead owner is replaced, by one daemon; while a server stays, the mapping is updated again and again, unless two servers take the daemon from each other for ever (`MappingIsUpdated`) | 2 slots, 3 starts |
| `mp_servers` | types, the tree is connected; `MarksFollowBuckets`: every directory with a bucket is scanned and nothing else is; `BucketsFollowPaths`: `serverPaths` has the paths of the buckets and a server leaves nothing behind; a server's buckets are disjoint, it is told everything (alone on its host), every deletion is told and only deletions are, an accepted path is monitored | five scenarios: `Shared`, 3 servers on equal, inner and outer directories, none asked for a path inside another of its own; `Nested`, one server inside another's directory, with creation, deletion, vanishing, SIGINT; `Single`, one server asked for everything, with creation and deletion; `Changing`, one server on two directories whose attributes change too; `Widening`, one server that goes on to monitor from further and further up beside another one, on a disk that stays as it is, with buckets that find other bytes than zeros |
| `ft_scan` | `MemoryIsSound`: blocks form a tree, calls still to be made are for nodes in use, only files leak; the listener has been told what the tree holds at every moment; the daemon scans what is watched; a scan in peace makes up for all before; liveness: a listener comes to know how the files are | 2 directories, 2 files, 5 blocks, 4 changes |
| `cr_requests` | lists and tree hold the same registrations, the tree holds nothing else, a client hears of a change exactly once, and the refinement of `Registrations` | 2 clients; directories nested three deep and one beside; rounds of one notification |
| `cl_runs` | arguments and settings are taken for what they say (`CommandIsTheUsers`, `SettingsAreTheFiles`), a request is done as sent, a host with registrations or updates has its port open, updates are printed whole; liveness: a command is answered | 2 runs at a time, 2 directories, a buffer of 6 for requests (one fits exactly, one with a place to spare) and 8 for updates, the worlds above |
| `pmm_calls` | every call keeps the blocks tiling the region while the backward links do no harm, and merges all it can while they are exact | 16 units, header 2, sizes 1 to 3 |

Two starts are the least that let processes meet; three let one meet what two
others left behind (a file, a semaphore, an ID, a counter). Two slots suffice for
three starts in which one process replaces another; two daemon threads of one
process for a replaced daemon beside the new one. Three directories give a path,
one inside and one beside (or two inside); the client register has a fourth, three
deep, for a branch that is deleted with registrations at its top and inside. Five
blocks are what the root and the four entries need, so that one lost block makes the
memory too small; four changes are enough to delete a directory, make it again, and
change it once more while a scan waits to enter it. Two runs of the client are all that
one port lets wait and command; a third start follows one that ended. Command lines have
up to three arguments of each kind, and those of four that name two directories; files
have up to two lines of every kind, with or without a last newline. With two servers every relation of two
paths occurs, with three a path that two share and a third covers. A region of 16
units holds five blocks with headers of two, enough for a free block between two others that
change, and for a new header that covers part of an old one.

Runs that end in a violation, where the code does not do what a comment or a
header says:

| Run | What it shows |
|---|---|
| `sp_two_daemons` | a replaced daemon that sleeps while its server takes the daemon back goes on beside the new one |
| `pmm_overlap` | `pmm_malloc` gives the same bytes to two callers |
| `cl_pieces` | a request that arrives in two pieces is put together wrongly |

Further configurations end in a violation, too. They belong to the properties above: each shows, for one
that has a premise or an exception, what the code does outside it, and is no run of its own.
Each checks a definition that states what the code's text promises.

| Configuration | Module, property | What it shows |
|---|---|---|
| `sp_no_daemon.cfg` | `MCServerProcesses`, `NothingIsLeft` | a first server whose `create_daemon` fails leaves the file and the lock behind, so that no server of the host gets any further (`server_monitor.c:346`; the comment at `:336` has the mapping deleted) |
| `sp_interrupted.cfg` | `MCServerProcesses`, `SemaphoreMutex` | a signal that interrupts the `sem_wait` of a terminating thread makes it use the mapping without the lock (`server_commons.c:20`) |
| `mp_inner_shared.cfg` | `MCMonitoredPaths`, `BucketIsScanned` | a server that goes on to monitor from further up takes the mark off a directory another one monitors (`mapping_structure.c:128`; the comment at `:120` removes it "if they are not monitored by other servers") |
| `mp_inner_made.cfg` | `MCMonitoredPaths`, `ListenersKnow` | what another server's registration finds first is told to nobody (`mapping_structure.c:448`; `mapping_structure.h:50` has `update` send the changes to the listening servers) |
| `mp_interrupted.cfg` | `MCMonitoredPaths`, `BucketsAreOfServers` | a server that is terminated between a registration and `serverPaths` leaves its bucket behind (`tcp_server.c:271`; `mapping_structure.h:75` has all its buckets deleted) |
| `mp_pruned.cfg` | `MCMonitoredPaths`, `PruningKeepsTheRest` | after a deletion the monitor keeps the deleted path and drops the other (`server_monitor.c:135`, whose comment says the opposite) |
| `cl_dash.cfg` | `MCClientProgram`, `GrammarIsAccepted` | a value that begins with a dash is refused (`params_parser.c:50`), which the grammar at `params_parser.h:9` allows |
| `cl_no_value.cfg` | `MCClientProgram`, `CommandsHaveValues` | the command `-t` is executed without the value that `client.c:6` says it requires (`client.c:175`) |
| `cl_settings.cfg` | `MCClientProgram`, `ErrorsAreReported` | a settings file is read up to a line that no token begins (`settings_parser.c:90`), and the answer is success, where `settings_parser.h:31` promises -1 |

Constraints of the runs: in `sp_errors` and `sp_signals` requests come while one process runs, among the first two
(`RequestsAlone`), since handlers of two processes meet at the semaphore only, as monitors do. In `sp_errors` nothing is followed any more
when the first server has ended with the lock and all starts are used (`OthersToCome`): the others wait, which is no
deadlock of the locks. In `sp_churn` the TCP server fails when it is started, not later (`AcceptsWork`; `sp_errors` has the
other failures), and a living daemon becomes late before the third process starts (`EarlyLateness`): the third meets a
mapping that is late already, and takes it from its owner or does not.

`CHECK_DEADLOCK FALSE` stands where the system may stop for good: after a SIGKILL or
an `exit(0)` inside the mapping (`sp_signals`: the others wait for the lock for ever), in the allocator (nothing more
fits or is followed), in the client (its runs end, `cl_runs`), and in what ends in a violation.

### Where a property needs its instance

Several invariants hold in one instance and not in a wider one, because the code
breaks them there. The instances above stop short of these places, which are:

- `ReplacedDaemonQuits` needs that daemons are never late (`sp_two_daemons`).
- `MappingIsUpdated` has a way out: two servers may take the daemon from each other for ever before
  either has updated anything. The bound on starts and daemon slots does not exclude this, and
  neither does the code.
- Exclusion needs that no second signal reaches a thread that terminates the server:
  `cs1_terminate_server` goes on when its `sem_wait` fails (`server_commons.c:20`,
  `sp_interrupted.cfg`). So `sp_signals` has no failures of calls, `sp_errors` no signals.
- `LockNotLost` needs that no process is killed or interrupted inside, and makes an exception of
  the first server whose `create_daemon` fails: it calls `exit(0)` with the lock
  (`server_monitor.c:346`, `sp_no_daemon.cfg`).
- `ServersAreKept` needs that SIGINT does not arrive while `initialize_server` undoes a failed start:
  the start would be undone twice.
- `OneMapping` and `MappingMutex` need that no first server fails: it unlinks
  semaphore and file after it has released the lock (`server_monitor.c:337`).
- `PathsMatchBuckets` (in `BucketsFollowPaths`) needs that nothing is deleted: the monitor keeps the deleted
  paths and drops the others (`server_monitor.c:135`, `mp_pruned.cfg`). A change of attributes marks a bucket
  as a deletion does, so it needs `AttrsWithDelete`, too.
- `BucketIsScanned` (in `MarksFollowBuckets`) needs that no server widens two paths of which another server
  has one: the search for other buckets does not start again from the first
  (`mapping_structure.c:128`, `mp_inner_shared.cfg`).
- `UpdateTellsAll` is claimed for a server that is alone (`Alone`): what another server's registration finds
  first is put in the tree in silence (`mapping_structure.c:448`, `mp_inner_made.cfg`).
- `MarkedIsGone` (in `DeletionsAreTold`) needs that attributes do not change: `nb_push_notification` marks a
  bucket for a notification of any type about its own directory
  (`notifications_bucket.c:161`).
- `AcceptedIsMonitored` needs that nothing is deleted: a marked bucket counts as
  monitoring (`notifications_bucket.c:356`). So it needs `AttrsWithDelete`.
- `NothingLeftBehind` (in `BucketsFollowPaths`) needs that nothing is deleted
  (`server_monitor.c:135`), no SIGINT between a registration and the update of
  `serverPaths` (`tcp_server.c:271`, `mp_interrupted.cfg`), and no two names of which one begins the other
  (`tcp_server.c:309`). What it allows for is a bucket the server had marked itself when it
  went on to monitor from further up and that it had not read when it left: `unregister_server`
  removes the buckets of the listed paths, and that one's is listed no more
  (`mapping_structure.c:190`).
- `DeletedIsReported` (in `DeletionsAreTold`) needs that new buckets find zeros in memory: `nb_add_bucket`
  does not set `updated` (`notifications_bucket.c:81`).
- `ImplementsRegistrations` needs that no name begins another one of the same
  directory: a recursive registration for the shorter one counts for the longer
  (`client_path_tree.c:141`), so the run has `NamePrefix` empty.
- `CommandIsTheUsers` is claimed for command lines without `-t`, which the parser reads without a value
  (`client.c:175`, `cl_no_value.cfg`), and allows that a value which begins with a dash is
  refused (`params_parser.c:50`, `cl_dash.cfg`).
- `SettingsAreTheFiles` is claimed for files without a line that no token begins: there the
  loop stops as if the file had ended (`settings_parser.c:90`, `cl_settings.cfg`).
- `RequestIsDone` and `CommandIsAnswered` need a request that comes in one piece and is
  no longer than `BUFFSIZE`: the index into the buffer is not set back between two
  calls of `recv` (`tcp_server.c:116`, run `cl_pieces`).
- `ClosedPortGetsNothing` needs a patient user and datagrams in order. A client that is
  ended while registered leaves a host the server sends to, and the second
  update to its closed port can end the server (`client_node_list.c:178`). When the news that a
  directory was deleted overtakes, or follows, the answer to a new registration for it,
  the user cannot know what is registered.
- `UpdatesAreWhole` needs updates that fit into the client's buffer: a datagram cut inside
  the terminator leaves the automaton in a state from which it never sees a terminator
  again, so nothing more is printed (`client.c:30`).

Two expectations hold in no instance of `ClientRegister`, so no run states them: that
no freed array of children is used again (above), and what
`client_register_structures.h:36` says of `deletionMark`, that a client whose last path
was deleted is marked and leaves the list after the next round.
`cpt_delete_subtree` calls `cnl_signal_deletion` before it lowers the number of
paths, so the test for 0 never succeeds (`client_path_tree.c:411`), `marked` stays
empty, and the client stays listed until it leaves a path by itself.

Those without a configuration of their own are seen in seconds by adding the missing element to the constants of a run.

### Fairness and time

`FairSpec` of `ServerProcesses` (run `sp_live`) assumes: a thread that can go on does (weak); the
monitor and the daemons, which come back for the locks, get them in the end
although others take them in between (strong): every holder leaves after a bounded
body, and the loops sleep for seconds between two rounds, so a waiter finds the
lock free again and again. Nothing is assumed of requests, signals, failures and
new processes.

Time is the flag `late`. Without the fault `slow`, a mapping becomes late only when
no daemon runs for it, that is, a living daemon is never late by the tolerance
factor: on a host with any load the factor times the refresh time is many rounds.
With `slow` any delay is possible; then two servers can take the daemon from each
other for ever, which is why liveness is claimed only without it and `DaemonReplaced`
says only that an owner's daemon runs. Bound: a monitor wakes only while a daemon
slot is free, since each wake may create a thread.

`FairSpec` of `FilesystemTree` assumes that the daemon goes on with its scan and begins
the next (it sleeps for seconds between two) and that the monitor reads; nothing of
other programs, and `ListenerCatchesUp` speaks of the time after their last change,
for a listener that stays. `FairSpec` of `ClientProgram` assumes that a run and a handler
that can go on do, that the monitor sends what it has queued and that a datagram not lost
arrives; nothing of the user, of new updates, or of the server's end. Weak fairness is enough
for the handler that waits for `crLock`: `updates` is filled at most `notes` times, the
bound of the world, and a real monitor sleeps between two rounds.

## Proofs

Each theorem is about the specification the runs check, with nothing fixed: any number
of processes, threads and starts, any directories and scenarios, a region and headers of
any length. The constants are assumed to satisfy the named ASSUMEs of the modules only,
which TLC evaluates in every run. Some theorems have hypotheses about what may happen
(which faults, which scenarios); all but the ones that are named below as harder than
a run's are met by a passing run that checks the property.

What is assumed of the constants. `ServerProcesses`: the names of threads are distinct
(`ThreadsAreDistinct`), `None` is no process (`NoneIsNoProcess`), the faults are known,
`MaxStart` is a natural number, signals reach the main thread or daemons (`SignalTargets`).
`MonitoredPaths` and `ClientRegister`: directories are non-empty sequences, closed under
parents (`DirsAreSequences`, `DirsAreClosed`), and each scenario names directories and what may happen
(`ScenariosAreKnown`); that a name begins another is transitive
(`NamePrefixIsTransitive`), as it is for strings. `FilesystemTree`: paths are sequences of
names, closed under parents (`PathsAreClosed`), the server is asked for some of them
(`WatchedPaths`), and the order in which a directory lists its entries has each name once
(`OrderHasNames`). `ClientProgram`: a command line is a sequence of
arguments (`LinesAreArguments`), the user names directories whose requests have a text
(`UserNamesDirs`, `RequestsHaveText`), updates are lines, that is, no name has a carriage
return, and the text of a deletion is no other update's and fits into the client's buffer, as
the usual ones do (`BodiesAreLines`, `BodiesFit`).
`PmmAllocator`: a header has a length, the region is longer than a
header (`RegionIsLongEnough`), nobody asks for 0 bytes (`ReqSizesArePositive`).

### Processes

`TypeCorrect` (`ServerProcesses_proofs`): `Spec => []TypeOK` for any faults. One lemma per
action; those for the lock steps are shared.

`SemaphoreExclusion` and `MappingExclusion` (`ServerProcesses_proofs`). Exclusion is not
inductive by itself: a thread may enter because the semaphore's value is 1, so one
must know that the value is 0 while somebody is inside. `MutexInv` adds to
`TypeOK` and `SemaphoreMutex`:

- `SemaphoreBinary`: values are 0 or 1, and 0 while a thread is inside with it;
- `SemaphoreOpen`: a live process has opened a semaphore that exists;
- `ThreadsAlive`: threads run in live processes only;
- `Roles`: the labels of the initialisation belong to the monitor;
- `NotInterrupted`: no thread that receives signals waits to terminate the server.

The last one carries the one hypothesis, `SignalsOrFailures`: either no SIGINT, or
none of the failures (`tcp`, `error`) that make a thread which receives signals
terminate the server. Without it exclusion is false: a second signal interrupts the
`sem_wait` of `cs1_terminate_server`, which goes on without the lock.
`SemaphoreExclusion` proves `SemaphoreMutex` from it. `MappingExclusion` proves
`MappingMutex` with the further hypothesis that no first server undoes what it
created (`vanish`), by showing that all live processes have the semaphore the name
denotes.

`IDsAreDistinct` (`ServerProcesses_proofs`), for any faults: two servers in the same
mapping have different IDs, on which ownership of the daemon and of buckets rests. Most
of the actions move labels and locks only; `StepKinds` shows once that every step is `Quiet(p)`
(threads of one process move along `Edge`, nothing shared changes), `Notable(p)` (one of the
few that change a mapping or a process's fields) or the ageing of a mapping, so that the
proofs after it have a handful of cases. `IdentityInv`: IDs are drawn from the counter of the
file a process joined (`Drawn`), and a file made anew, which counts from 0 again, is nobody's
(`SerialIsFresh`, `Numbered`).

In `DaemonOwnership_proofs`, each invariant on top of the one before:

- `CounterKeepsServers` (`ServersAreKept`; `CountInv`): the counter covers the servers that
  are counted, so that a server that leaves never removes the file of another. It needs
  that a failed start is undone alone (`EarlyAlone`), which is false when SIGINT arrives while
  `initialize_server` undoes itself; hence `UndoneInPeace`, not both of them.
- `OneFileForAll` (`OneInv`): all counted servers use the file its name denotes. Needs
  that no first server removes the names (`vanish`).
- `CounterIsExact` (`SharedFileIsCounted`; `ExactInv`): with `NothingDies`, the counter is
  the number of servers and the file exists only while there is one. `NothingDies` is harder than `sp_errors`,
  which lets threads fail, too: the exception for a first server that ends inside is not
  needed here. A kill, and an
  initialisation that fails half way, leave the counter too high.
- `LeaverIsLast` (`LeaverStaysOut`; `LeaverInv`): after `cs2_terminate_server` no thread
  of the process enters the mapping. The leaver keeps `activeLock`, so this is exclusion within
  a process; it needs `SignalsOrFailures` as above.
- `LockIsKept` (`LockNotLost`; `LockInv`): the semaphore is 0 only while a live thread is to
  post it, or the first server has ended inside. `NobodyDiesInside`: nobody is killed or
  interrupted, and where threads may not be created no first server undoes its start, so that
  all use one semaphore (`OneName`). Either the lock is held, or it is lost and nobody ever enters
  again (`Stuck`): every process waits for it, and no other can be made.

and on top of these:

- `OwnerKeepsDaemon` (`OwnerHasDaemon`; `OwnerInv`), for any faults: the server
  `daemonServer` names has a daemon thread that is not on its way out, unless its process
  is interrupted and leaving.
- `OwnershipIsImplemented`: `Spec => ImplementsOwnership`, the refinement, for `UndoneInPeace`
  and no `vanish`. Each kind of step is a step of `DaemonOwnership` or leaves group and owner
  as they are. A daemon's `DaemonUpdate` is the owner's refresh only if the daemon's server is
  in the group still and has the file that is named, which is what `GroupInv` keeps.
- `OnlyNewestUpdates` (`ReplacedDaemonQuits`; `ServingInv`): the daemon that updates is the one
  its process created last, if no living daemon is late (`slow`, without which
  `sp_two_daemons` has its counterexample). A daemon past its first update owns a fresh
  mapping (`ServesFresh`), so its monitor creates no other.

### Allocator

`TypeCorrect` and `BlocksAreKept` (`PmmAllocator_proofs`), for any region and sizes; the latter is
the action property of `pmm_calls`, `LinksKeepBlocks`, of two parts: `HarmlessLinksKeepTiles` and
`ExactLinksKeepCoalesced`.
The chain of blocks is a recursive function from offsets, so its lemmas need an induction
along the region. The library's induction theorems cannot be instantiated here; in set form
induction is possible: the offsets at which a claim fails have a least element
(`LeastNat`, from `WFMin`), and the claim holds there. On it rest the lemmas
that say how the chain changes when a block is split and when two are merged. `RegionInv`
is what every call keeps; tiling itself is not an invariant, since the code writes wrong
backward links and then merges along them, which is why the properties speak of one call.

### Monitored paths

All eight properties of `mp_servers` (`MonitoredPaths_proofs`), in this order, each from
those before:

- `TypeCorrect` and `TreeStaysConnected`, unconditionally. `TreeInv`: types, the disk is
  closed under parents, and so is the tree, which every scan and every clean-up keeps.
- `OwnBucketsStayDisjoint`, unconditionally: no two unmarked buckets of a server overlap. The
  steps are sorted once (`StepCases`) by what they make of the list of buckets: it
  `Grows` by one, or a server `Widens` one of its buckets and marks the others below,
  or it is made of the buckets there were (`Descends`). `BaseInv` keeps that buckets and
  requests are for paths their server is asked for, and that who has not joined has none.
- `ListenersKnowAll` (`UpdateTellsAll`), unconditionally: `ToldInv` says, for a server that is alone, what
  listeners know of the directories below each bucket, and `WatchedInv` that an unmarked
  bucket's node is monitored, so that the scan reaches it (for a server that is alone nobody
  unmarks it).
- `DeletionsAreHandedOut` (`DeletionsAreTold`): `WorldInv` relates tree and disk (a node
  exists unless the world deletes; attributes are what they were unless it changes them),
  and `Covered` says that a bucket which will be dropped without a word has another one of its
  server above it and earlier in the list (`LeadsUp`), so that going up ends at one that is
  not dropped in silence.
- `AcceptedPathsAreMonitored` (`AcceptedIsMonitored`).
- `BucketsStayWithPaths` (`BucketsFollowPaths`): `CalmInv` (every mark is there because of a
  wider registration, nothing is deleted, `serverPaths` has the paths of the unmarked buckets
  but for the request that is being answered). `Accept` filters and appends outside the
  locks; `KeepFacts` of `PathNames_proofs` says what a filtered list holds.
- `MarksStayWithBuckets` (`MarksFollowBuckets`): `NeededInv`: every monitored node has
  a bucket, every node lies above or below a monitored one, and what the bucket of a running
  server is marked for is not monitored by itself. The hard case is a server that leaves: which nodes
  stay is decided by the other servers' buckets alone.

Their hypotheses are about the scenarios, and name what the code gets wrong:

- `InnerPathsUnshared`: no server is asked for a path inside another of its own that a
  further server is asked for as well (`mapping_structure.c:129`: the search does not
  begin again, and another server's bucket loses its mark). It is needed from `DeletionsAreHandedOut` on;
- `GarbageIsHarmless`: new buckets find zeros in memory, or nothing is deleted or changed
  (`notifications_bucket.c:81`);
- `AttrsWithDelete`: where attributes change, directories are deleted too
  (`notifications_bucket.c:161`: a change of the attributes marks a bucket as if its
  directory were gone). The properties say less of scenarios with deletions, so what is
  excluded is that attributes alone break them. It is needed from `AcceptedPathsAreMonitored` on;
- `InterruptWithDelete`, for `MarksStayWithBuckets`: in the same way, a signal may come in the
  middle of a request only where directories are deleted (`tcp_server.c:271`). When it comes
  after a wider registration and before `serverPaths` knows of it, `unregister_server`
  gives up at the first path without a bucket, and the nodes before it stay marked;
- `NamesApart`, for `BucketsStayWithPaths`: no name begins another of the same directory
  (`tcp_server.c:309`).

The five scenarios of `mp_servers` satisfy all of them. None can be left out: for each, there is
a scenario of a few directories that breaks only this one and in which TLC finds a property
violated that is proved under it.

### Filesystem tree

All safety properties of `ft_scan` (`FilesystemTree_proofs`), without hypotheses: any files
and directories, any size of the memory, any changes of the disk between two steps of a scan.
They follow from one invariant (`FilesystemTreeInvariant`), which says that there are a set N
of paths and an assignment `at` of a node to each such that

- `TreeOf`: the nodes in use are those of N and lost files. `at` is one to one, the parent of
  a path of N is in N and a directory, and a list of children names the nodes below, once each.
  "No block is freed that something points to" is not inductive, since `fst_delete_child`
  walks down from the node it is given: it frees what it should only if the branch is a tree,
  and `Freed`, the recursion's least set, is then the nodes of a set of paths;
- `MarksAre`: the one node marked is that of the path the server listens to, and there are
  nodes for files below it only, so that the nodes a registration finds on its way are
  directories, below which it may add others;
- `CallsAre`: the calls in `todo` are for directories of the tree, of which none lies in
  another. Hence what a step of the scan deletes, which lies below the directory it compares,
  takes no node from under a call to come (`fst_delete_child` in the loop of `__scan` leaves
  the other entries of its list alone); each call knows whether it is below the watched path;
- `view = Entries(...)`: what was told is what the paths of N below the watched one hold;
- `Compared`: while the disk is quiet, each readable directory below the watched path
  that no call to come will reach has exactly the entries of the disk.

`FilesystemTreeTypes` (`TypeOK`), `MemoryStaysSound` (`MemoryIsSound`), `ListenerKnowsTree`
(`ToldWhatTreeHolds`), `OnlyWatchedIsScanned` (`ScansWhatIsWatched`) and `QuietScanTellsAll`
(`QuietScanIsExact`) each follow from it; the last one since when `todo` is empty every
directory has been compared.

The functions of the source that recurse (`__support_delete_child`, the search of
`__dfs_clean_subtree`) are written as the least set closed under their calls (`Spread`), and
the loops of a registration as recursive functions over the names of its path and over rounds,
so that they can be reasoned about: by induction in set form over the length of paths (`PathInduction`)
and over numbers. The long lemmas are one for each thing the code does to a tree: `fst_add_child`
and the loops of `__scan` make the tree of other paths, with `at` extended and cut. The
rounds of a registration have invariants of their own: on the way to its path (`IsBuilt`) the
nodes so far are a tree with the marks they had; below it (`IsScanned`) the new and the old
path are marked, there are files below the new one only, and what is still to be entered are
directories of the tree.

### Client register

All five properties of `cr_requests` (`ClientRegister_proofs`), for any number of clients
and any set of directories closed under parents:

- `TreeMinimality`. `TreeIsMinimal` with the type of `at` is inductive as it stands
  (`TreeInv`): no fact about the clients' lists is needed, since each operation computes the
  nodes from the registrations at them. The work is in three lemmas about paths.
  `CleanKeepsTree`: `cpt_clean_tree` leaves exactly the nodes the remaining registrations
  need. `UnregisterKeepsTree`: climbing back removes what only the last node needed, because
  whoever needs a node on the way has a registration that is no prefix of the path given
  up. `DeleteKeepsTree`: after a branch is cut off, the tree need not be cleaned when the
  parent has another child, because that child, being a node, leads to a registration and
  keeps all above it.
- `TypeCorrect` and `ListsStayInAgreement`, from `RegisterInv`: types, `TreeInv` and, for each
  client, `ListInv`. That no entry is left cleared (`NoHoles`) is not inductive: it needs
  `NoneSuperfluous`, no recursive registration of a client begins another of its paths, as
  strings. If the search cleared the entry of q and then stopped at r, the new path
  would begin q and r would begin the new path, so r would begin q (`StringPrefixTransitive`,
  `NoEntryIsCleared`); this is why the transitivity of `NamePrefix` is assumed, and why the
  theorem holds also where names begin each other. `RegisterTypes` says too that nobody is ever
  marked: `cnl_signal_deletion` looks at the number of paths before it is lowered.
- `NotificationsAreHeardOnce` (`HeardOnce`), an action property: the walk meets at most one
  node at which a client hears (`HeardAtOneNode`), because of two nodes on the way
  the upper one is recursive and begins the lower one, which `NoneSuperfluous` excludes; and
  a signal of a deletion is no notification of a change (`CountOfLonger`).
- `RegistrationsAreImplemented` (`ImplementsRegistrations`), where no name begins another one
  (`NamesApart`): with "x" and "xy" in a directory a recursive registration for "x" replaces the
  one for "xy", which it does not cover, and TLC finds the abstract specification violated.
  One lemma per operation says which abstract action it is: `EnterIsAdding`,
  `NarrowerIsAdding`, `UnregisterIsDropping`, `DeleteIsForgetting`; the end of the server
  is `Close`.

### Client

Five of the six safety properties of `cl_runs` (`ClientProgram_proofs`), for any number of runs,
directories, starts and updates, requests of any length and buffers of any size.

`TypeCorrect`, `RequestsAreDone` and `UpdatesStayWhole` follow from one invariant
(`ClientProgramInvariant`), `Inv`, of four parts:

- `Rest`: the types of what is shared;
- `Heard`: what the thread has of an update that is not complete fills the buffer, so that it
  has something only when an update was too long, and all that is queued or on its way are
  updates of the server. `FedWhole` is the lemma about `client_server`: from the beginning of an
  update the automaton reads a text that fits, and no more, to its end;
- `Runs`: the types of the runs and their connections;
- `RunInv(p)`, for each run: `Connected`, what a run does and what its connection is go together;
  `InOnePiece`, a handler whose request came in one piece has read nothing of it, or all.
  `WholeRequest` is the lemma about `client_request_handler`: if the request fits into
  the buffer, what it copies up to the newline is the request, whatever was in the string before.

`ClosedPortIsSafe` (`ClosedPortGetsNothing`) needs more, and one hypothesis: every request
fits into the handler's buffer (`RequestsFit`, true in `cl_runs`). A longer one may be put
together wrongly and register the host for a directory the user did not name. That the port is open is
not inductive: it depends on what the user believes, and his belief on what is on its way. `Order`,
which holds while the user is careful and the server has not ended, says

- `OneActive`: at most one run is neither off nor waiting for a key;
- `Orderly(p)`: a run has the port exactly while it waits or is to wait, its handler answers it,
  its command is one of a careful user, and the directory it has just given up is neither registered nor
  about to be told of (`Dropped`);
- `Known`: for each directory that is registered or whose deletion is queued (`Counted`) the
  user knows of it, or the run that has registered it has yet to read its answer (`Pending`),
  and a user who knows of one has a run that waits;
- `Consistent`: no datagram on its way tells of the deletion of what is still counted (`Unsaid`), a
  deletion is the last update of the queue and what it tells of is not registered.

The lock that a handler takes is what makes the last one true: `Answer` waits until the queue is
empty, so that a directory is not registered again while its deletion is still to be sent
(`AnswerOrder`). A deletion ends the registration in the user's head only when he
reads it (`ArriveOrder`), and only the text of a deletion is taken for one (`GoneBegins`),
also when it is what is left of an update that was cut off.

`CommandsAreTheUsers` (`CommandIsTheUsers`) is `CommandLinesAreUnderstood` carried to the states:
for any list of arguments without `-t` (`UsesNoT`) `UnderstoodAs(args, Choose(args))`. What the parser
takes for a group (`IsTaken`) and what the header calls one (`IsGroup`) differ in values that
begin with a dash only (`TakenIsGroups`). Only lists of one or two items are
executed, so no induction is needed beyond the existence of the recursive function that
`ParseParams` defines (`FromFacts`), and its values lists of items (`ItemsFromFacts`). One way, arguments that are one
or two groups are parsed into the items of these groups (`GroupParsed`, `GroupsStand`); the other way,
a list the parser did not refuse was a group up to its first item (`ParsedIsGroup`), and what
main executes was groups to the end (`ExecutedIsGroups`), so that whatever is no sequence of groups ends
the client.

What the loops do to bytes is a recursive function over positions; the lemmas `Recursion`
and `RecursionKeeps` (`PathNames_proofs`) are induction over numbers in the form of sets, with no
operator as parameter.

### Only model-checked

- Liveness and fairness, out of the prover's reach: `sp_live`, `ListenerCatchesUp`,
  `CommandIsAnswered`.
- `SettingsAreTheFiles` of `ClientProgram`: that the lexer and `parse_settings` agree with the
  lines a file was made of is induction over lists of lines, and in each over its characters,
  and the text of a file is itself made by a fold over its lines.

## Not modelled

- The composition of handler, mapping and register: each part of a request is in a
  module (`ClientProgram` for the request and the answer, `MonitoredPaths` for the
  mapping, `ClientRegister` for the register), but no module has all of them, and a handler's
  reply is any that one of the parts can give.
- Notification text: wording and lengths. That formatting can fail and end the server
  is `StopServer`.
- Concatenation of paths and time (`linux/myfile.c`, `linux/time_utilities.c`): the
  models take names whole; times are the flag `late`.
- Failed allocations of the process's own memory, and arrays that grow by the wrong
  number of bytes (`params_parser.c:84` with more than ten options, which `main` would
  refuse anyway, and `client_path_tree.c:228`).
- Offset 0 for "no bucket". A search or a read that goes past the last bucket (a push after a marked
  last bucket, a read of an empty list, the search that `register_server_path` goes on with) takes
  the header of the region's first block, which lies at offset 0, for a bucket. Its mark and
  its link read as 0 and its path as "(", so that it matches nothing and the list ends there: in the model the
  list ends one step before. Its server reads as 40, the block's length; the 41st server of one
  file would take it for its own, which is left out.
- The Windows port: the same interfaces over another system.
- `sem_unlink.c`: one call, used by hand.

## Plan

In this order; the first six are done.

1. `ServerProcesses`, `DaemonOwnership`: locks, daemon, life and death of processes.
2. `PmmAllocator`.
3. `MonitoredPaths`: the mapping's contents, atomic under the lock of 1.
4. `ClientRegister`, `Registrations`: registrations in the tree and in the clients' lists.
5. `FilesystemTree`: the tree node by node, scans during which the disk changes.
6. `ClientProgram` with `CommandLine`, `SettingsFile`, `RequestStream`, `UpdateStream`: the
   client, from its arguments to the updates it prints.
7. A composition of handler, monitor and register: a client's path always lies in a
   monitored one, with the abstract specification "a client hears of every change
   below its path from its 200 to its DISC".
8. Pure operators: length of the notification text, relative times, `is_prefix` and
   `tokenize_path`, against reference definitions over bounded inputs.

