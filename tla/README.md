# A TLA+ model of the NEWFIRM / MONSOON Data Handling System sources

The repository holds the design documents and the first implementations of the
Data Handling System (DHS) of the NEWFIRM camera: a library interface
(`dhsSysOpen`, `dhsOpenExp`, `dhsSendPixelData`, ...) with three
implementations and a Tcl package, a Supervisor that starts Collector processes
on a farm of machines, a shared memory cache between the processes of one
machine, and the run-time libraries the design builds on: `radlib` (shared
buffers, queues, timers, processes, sockets, configuration files, databases)
and the allocator `mm`. These modules model the parts that keep state and
interact. Paths below are relative to `src/`; `radlib/` stands for
`dhsDesign/radlib-2.3.0/`, `mm/` for `dhsDesign/mm-1.4.0/`.

## 1. Inventory

| part | state it keeps | operations | interacts with |
|---|---|---|---|
| `dhsDesign/shmem/shmUtil.c` | a lock file (its inode is the key), System V segments, each process's mappings | `shmUtilInit`, `shmUtilExists`, `shmUtilAttach`, `shmUtilDetach`, `shmUtilSize` | kernel, file system; every process of the machine |
| `dhsDesign/shmem/smCache.c`, `zzdebug.c` | the address and key a client holds | `smcOpen`, test program | shmUtil; the page operations have empty bodies |
| `dhsLibraries/_fits` | `dhsUtilFLAG`, `dhsUtilDIR`, `dhsUtilFILENAME` per process, the inherited status, FITS containers | naming IOCtls, `SendMetaData`, `SendPixelData`, entry points that only check | cfitsio, a shared file system |
| `dhsLibraries/_noao`, `_null` | the inherited status, files, `image_list`; `_noao` forks two uploads per exposure | the same interface | cfitsio; the upload client `client.cxx` |
| `dhsLibraries/_fits/dhsTcl.c` (same in `_noao`) | the static `dhsLstat`, the script's handle | one Tcl command per entry point | whichever library is loaded |
| `monsoon_api/supervisor.c`, `farm.*` | the farm (machines, registered or not), one child per connection | accept loop, `startCollector`, `registerCollector` | dhsSysOpen clients, ssh, Collectors |
| `monsoon_api/dhsSysOpen.c`, `dhs_util.c` | socket, status | `dhsSysOpen` | Supervisor |
| `monsoon_api/collector.cc` | socket, status, one child per client | daemon start, `init` (register), `execute`, `processMessages` | Supervisor, clients |
| `monsoon_api/proto*.c`, `send_*.c` | status, exposure files, a connection, the file `mm_test` | `dhsSendPixelData`, `dhsSendMetaData`, `pipeSendPixelData`, the server | each other, two disks |
| `radlib/src/radbuffers.c` | free lists of buffers in a shared segment | `radBuffersInit`, `radBufferGet`, `radBufferRls` | every process of a radlib system |
| `radlib/src/radqueue.c` | a table of queues in shared memory, FIFOs, send lists | init, exit, attach, groups, send, send to a group, receive, the reflector child | buffers, all processes |
| `radlib/src/radsystem.c` | a global semaphore and segment that count processes, per system the semaphores, buffers and table | `radSystemInit`, `radSystemExit` | all processes of all systems |
| `radlib/src/radlist.c`, `radsortlist.c`, `radstack.c` | doubly linked lists, a stack | insert, remove, walk, find | everything above |
| `radlib/src/radtimers.c` | a delta list, ITIMER_REAL, the notify pipe | create, start, stop, delete, SIGALRM's handler | the process loop |
| `radlib/src/radprocess.c`, `radevents.c` | descriptor table, fd_set, exit flag | register, drop, `radProcessWait`, events | queue, timers, callbacks |
| `radlib/src/radproclist.c` | list of child processes, one semaphore | add, start in order, ready, remove | children |
| `radlib/src/radsocket.c`, `radUDPsocket.c` | sockets and their modes | create, accept, connect, exact reads and writes; membership, loopback, broadcast | network, signals |
| `radlib/src/radconffile.c` | a copy of the file, the lock link | open, put, flush, close | other processes with the same file |
| `radlib/src/raddatabase.c`, `radlib/database/*` | row descriptions, result sets, a connection | setters, table calls of two engines | a database server |
| `radlib/template/*`, `radstates.c` | lock file, state machine, timers | `main`, state handlers, signal handler | all of radlib |
| `mm/mm_alloc.c`, `mm_core.c`, `mm_global.c` | chunks, free list and spare area of a shared pool | create, destroy, malloc, realloc, free | processes that share the pool |

What is hard here, and what makes each part correct:

* **Shared memory.** Nothing locks the calls. Each is several system calls, the
  lock file is looked up by name up to three times, and the decision to remove
  the segment uses a count taken before the caller's own detach. Correct means:
  memory that was handed out stays usable; concurrent users share one segment;
  the last one removes it; a crash leaves nothing that cannot be found.
* **Containers.** Several processes stat, create, open and append to the same
  file. Correct means: acknowledged images and metadata are in the file, and the
  blocks of an exposure are in one file.
* **Status protocol.** Every entry point returns at once on a bad inherited
  status. Correct means: one failure does not spoil the next command, and a
  script does not depend on the library it loaded.
* **Supervisor and Collector.** fork copies the farm, the descriptors and the
  place in the loop; processes wait for each other through sockets and ssh, and
  any of them may die. Correct means: a good status only for what was started, a
  Collector serves only when it was accepted, a connection has one child, and
  nobody waits for ever.
* **Uploads and transfers.** Nobody waits for an upload, disks fill up, the
  server serves one sender at a time. Correct means: the remote list never names
  what the local one does not, a file can be read back, blocks are not mixed.
* **Ownership in radlib.** A system buffer passes from hand to hand through
  processes that die. Correct means: one holder at a time, none lost, none
  overlapping, counts that never destroy what is in use.
* **The event loop.** SIGALRM's handler runs anywhere, callbacks change the
  table the loop walks. Correct means: what is ready is served, an armed timer
  fires, the exit flag ends the loop.
* **Files and tables.** What was written is what is read back, across crashes,
  full devices and two writers; a statement does to the table what the client
  meant, whether the call answers or its answer is lost.

The individual hazards are listed at their lines in `PROJECT.json`.

## 2. Modules

| module | models | checked by |
|---|---|---|
| `ShmUtil` | `shmUtil.c`, the clients of `smCache.c` and `zzdebug.c` | `MCShmUtil` |
| `ShmUtilProofs` | theorems about `ShmUtil` | proved |
| `DhsFits` | the sends and naming IOCtls of `_fits` | `MCDhsFits` |
| `Supervisor` | `supervisor.c`, `farm.*`, `dhsSysOpen.c`, the start of `collector.cc` | `MCSupervisor` |
| `DhsTcl` | `dhsTcl.c` over the entry points of the three libraries | `MCDhsParts` |
| `ProtoTransfer` | `send_pixel.c`, `send_meta.c`, `proto.c`, `proto_server.c` | `MCDhsParts` |
| `CollectorLoop` | `Collector::execute`, `processMessages` | `MCDhsParts` |
| `NoaoUpload` | `dhsUtilCloseExp.c` of `_noao`, `client.cxx` | `MCDhsParts` |
| `RadSocket`, `RadUdpSocket` | `radsocket.c`, `radUDPsocket.c` | `MCDhsParts` |
| `RadBuffers` (implements `BufferPool`) | `radbuffers.c` | `MCRadSafety` |
| `RadQueue` | `radqueue.c` | `MCRadSafety`, `MCRadDocs` |
| `RadSystem` | `radsystem.c` | `MCRadSafety`, `MCRadDocs` |
| `RadList` (implements `NodeSequences`) | `radlist.c`, `radsortlist.c`, `radstack.c` | `MCRadSafety` |
| `Mm` | `mm_alloc.c`, `mm_core.c`, `mm_global.c` | `MCRadSafety` |
| `RadDatabase` | `raddatabase.c`, `pg_database.c`, `my_database.c` | `MCRadSafety` |
| `RadConffile` | `radconffile.c` | `MCRadSafety` |
| `RadTemplate` | `template.c`, `templateStates.c`, `radstates.c` | `MCRadSafety` |
| `RadReflector` | the reflector child of `radqueue.c` | `MCRadLive` |
| `RadTimers` | `radtimers.c`, the signal mask of `radsysutils.c` | `MCRadLive` |
| `RadProcess` | `radprocess.c`, `radevents.c` | `MCRadLive` |
| `RadProclist` | `radproclist.c`, `radprocutils.c` | `MCRadLive` |
| `DhsPartsProofs` | theorems about `CollectorLoop`, `ProtoTransfer`, `NoaoUpload`, `DhsTcl` | proved |
| `SupervisorProofs`, `DhsFitsProofs` | theorems about `Supervisor`, `DhsFits` | proved |
| `RadDataProofs` | theorems about `RadBuffers`, `RadList`, `RadConffile`, `RadDatabase` | proved |
| `RadQueueProofs` | theorems about `RadQueue`, `RadReflector`, `Mm` | proved |
| `RadPartsProofs` | theorems about `RadSystem`, `RadProcess`, `RadTemplate`, `RadSocket`, `RadTimers`, `RadProclist`, `RadUdpSocket` | proved |
| `CommonLemmas` | induction and recursion over the naturals, stated with sets and functions; least and greatest members; inserting into and removing from a sequence | proved |

Every component has variables, Init, actions and Next under names of its own.
`MCDhsParts`, `MCRadSafety`, `MCRadLive` and `MCRadDocs` check several
components in one run: a variable `active`, chosen in Init and never changed,
names the one that takes steps, while the others keep their initial state (for `RadProclist` the run has one behaviour
with one parent and one with two, which share fewer children, `PairChildren`). The
state space is the sum of the components' state spaces, and each property speaks
of one component and holds trivially of the initial state of the others. Where
components do depend on each other, the one that is used is abstracted inside
the user: `RadQueue` takes and releases buffers atomically, which is what
`RadBuffers` is shown to provide by `ImplementsPool`; `RadProcess` takes a timer
as a signal that comes; `RadTemplate` takes the radlib system as a count.

### ShmUtil

One action per system call, so that other processes run between any two of
them: `shmUtilInit_fopen`, `_append`, `_ftok`; `shmUtilAttach_shmget`,
`_shmat`, `_lockfile`, `_clear`; `shmUtilDetach_shmget`, `_stat`, `_shmdt`,
`_rmid`, `_unlink`; and the early returns `shmUtilInit_fail`,
`shmUtilAttach_badParameter`, `shmUtilAttach_lockfileFails`. The return values
of a call are the variables of its process (`key`, `new`, `mFd`, `addr`,
`nattch`); `pc` is where it is.

The kernel and the file system are external and modelled by how shmUtil.c uses
them: a key finds a segment until `IPC_RMID`; a segment marked for destruction
goes with its last mapping; `shmget` refuses a size above the segment's; a
number of mappings is counted when asked (`shm_nattch`); an unlinked inode can be
reused once no descriptor holds it; an identifier a call still holds names no
other segment (the kernel's sequence number).

A client opens, writes and detaches like `zzdebug.c`, or gives up on NULL like
`smcOpen`. `Exclusive` tells whether the clients serialise their calls
themselves; the code does not, so properties that need it are checked with it,
and one of them, in a run of its own, shown to fail without it. `Die` may happen
anywhere.

### DhsFits

Each client process has its own library globals. A send is three steps: name
and stat (`Send_stat`, which also settles the default directory), create or
open (`Send_create`, `Send_ffopen`), write and close (`Send_write` and its
failing variants). An exposure identifier is a model value; what matters of the
two formats the code prints it with is whether they give the same name
(`ShortIDs` are those where they do not). cfitsio is external: an open
container is the process's own view of what it held when it was opened, a
container without HDU cannot be opened, creating an existing one fails.
`acked` is what a good status acknowledged: the block, its container, and whether
the block is there as a whole or without the records that `ffprec` refused.
`clash` remembers the sends during which another process had the container open:
one of the two overwrites what the other appended, and nothing can be promised.

### DhsTcl

The same script runs against the three libraries in lockstep, each in its own
interpreter. A command either fails to parse its words (`BadWords`), or resets
`dhsLstat`, calls the library and returns the status. The three libraries
differ in the handle `SysOpen` leaves, the IOCtls they know, whether a send
checks the exposure identifier, and in that `_fits` copies the NULL name
`dhs::IOctl` passes, which kills the interpreter. What a send does to the files
is abstracted to its answer.

### Supervisor and CollectorLoop

`child[x]` is the process that serves connection x, with its own copy of the
farm (`copy[x]`), as fork gives it. `startCollector` is one action per round of
its loop, with every way a round can end (ssh starts a Collector, ssh fails,
`system` fails, reading behind the farm's end yields garbage or kills the
child). `sock[x]` is what the peer of the child gets to read: an ACK, end of
file or a reset. The hosts are taken to be big-endian, where the `htons`
missing in `dhsSysOpen.c:71` makes no difference; on others no call would
reach the Supervisor.

`CollectorLoop` goes on where a Collector enters `execute`. A process is the set
of descriptors it holds and its place in the loop. The child falls back into the
accept loop of its parent; what stops it is that it closed the listening socket.
`processMessages` reads into a pointer that was never set, so that the child may
read, get an error or crash. A dead child stays in the process table.

### ProtoTransfer and NoaoUpload

In `ProtoTransfer` a sender is one run of the driver with one status variable; a
call writes a header and a block to a file named after the exposure, or a block
to the server. A write stores what still fits on the disk and may fail. Exposure
identifiers are numbers, because the metadata file's name rounds them
(`MetaName`) and the pixel file's does not. The server reads what has arrived,
`SrvBuf` units at a time, and takes a failed read for the end.

In `NoaoUpload` a client process reads its file when it gets to run and replaces
the remote copy when its transfer ends. A failing `execl` returns in the child,
which goes on as a copy of the program that called the library.

### The sockets

`RadSocket` has a server, clients and accepted sockets, with every return of the
three creates. The kernel takes and gives any part of what is asked for; a signal
may interrupt a call; a connect is answered, refused or not answered. Data are
numbered units, so that loss, repetition and order can be told.
`RadUdpSocket` has sockets on two hosts; the network loses, repeats and reorders
datagrams.

### The passive parts of radlib, and mm

* `RadBuffers`: the layout of the segment is computed as `radBuffersInit` does
  it. `radBufferGet` and `radBufferRls` are split where the lock is taken or given
  (the mark of a buffer is set and tested outside of it). The refinement to
  `BufferPool` linearises them at the step that changes a list.
* `RadQueue`: an operation on the table is one step, because it holds the
  table's semaphore; everything between two of them interleaves: attaching in
  two steps, a group send as a traversal of the table with a copy and a write per
  member. Clients attach to and dettach from any queue, their own too; an open and
  a write may fail for any reason; a process may be killed between any two steps
  (`Die`). A FIFO forgets what it holds with its last descriptor. `qDisturbed`
  remembers that a process has gone or that something made a group send miss a
  member.
* `RadSystem`: one step per system object made, attached or counted. Objects
  carry a generation, so that a handle to a removed one is recognised. Processes
  die and steps fail up to `MaxFaults`. A call that fails may leave the segment
  behind that its `shmget` made (`AttachShm`, `radShmemInitFails`). A global
  segment that nobody filled is `Zeroed`: all systems then have the same keys
  (`Area`). A segment that is met again has the semaphore of its old set or, in a
  new set, one of count 0. `sysTorn` remembers that either happened.
* `RadList`: `next` and `prev` of nodes and dummies, one operation per step.
* `Mm`: chunks by address; `mm_malloc` is split at its two locks.
* `RadDatabase`: a query is a record of what the code prints, not a string. The
  server need not read it as it was meant: to postgresql a text in double quotes
  is a column's name (`ReadsColumn`), which every condition and `SET` of
  `pg_database.c` prints and its `INSERT` does not; a text with a quote in it or
  too long for its column, and a number that `%f` rounds, may be refused or taken
  for another value (`Reads`). A call that answers ERROR may have been carried out
  before its answer was lost (`PgQuery`, `MyQuery`). Both engines run the same
  actions, with the differences of their code in the operators named `Pg...` and
  `My...`.
* `RadConffile`: what `radCfFlush` prints leaves the stream's buffer a line at a
  time (`LineGoesOut`), ends in the middle of one (`PartGoesOut`), or is lost
  without notice (`TextIsLost`). `FirstPart` says what a reader makes of half a
  line, `Garbled` of text that begins in the middle of one. `radCfOpen` takes no
  lock: it meets a file under way, or begins with lines of the old file and goes
  on in the truncated one (`ReadsTwoFiles`). `ReadEntry` says what `strtok` makes
  of a whole line, which is not always what was printed.
* `RadTemplate`: the stages of `main` with their failures, the handlers of the
  three states, signals, and SIGKILL anywhere. After a failing `radProcessInit` the
  way out calls `radBuffersExit` a second time, on an id that was freed
  (`leavingTwice`): the copy gets through, or dies with the count lowered and the
  system's semaphore taken (`DiesInSystemExit`, `semTaken`), and the next copy that
  leaves waits until one that joins resets it. The lock file may fail to go.

### The running parts of radlib

* `RadReflector`: FIFOs as sequences of units of a header, because `dummyChild`
  copies without knowing where a header ends.
* `RadTimers`: the delta list with its pointers; the handler runs on top of the
  main program wherever the signal is not blocked.
* `RadProcess`: descriptors are numbers that are handed out again, `staleServe`
  notes a callback for one that has nothing to read.
* `RadProclist`: the semaphore counts and is shared by all lists: whoever creates
  one sets it to 0, and a give that was waiting is gone (`giveLost`). Two parents
  run at once.


## 3. Runs

| run | instance | distinct states | properties |
|---|---|---|---|
| `shm_exclusive` | 3 processes, 2 sessions each, 2 inodes, 2 segments, 1 crash, serialised calls | 32,000 | `OneCache`, `LastDetachFrees`, `FileTellsSegment` |
| `shm_concurrent` | 2 processes, 2 sessions each, sizes 0, 8 and 16, both values of `*create`, 1 crash, 1 failing fopen, free interleaving | 1,010,000 | `TypeOK`, `HeldMemoryIsMapped`, `LeaksOnlyUnfindable` |
| `shm_race_split` | 3 processes, 1 session each, not serialised | stops at the violation | `OneCache` fails |
| `fits_shared` | 2 processes, one without `MONSOON_DATA`, 2 sends and 1 IOCtl each, 1 failing cfitsio call | 490,000 | `PixelAckedIsStored`, `MetadataAckedIsStored` |
| `fits_naming` | 1 process, an ordinary and a short identifier, 3 sends, 3 IOCtls, 1 failure | 904,000 | `ExposuresKeptTogether` |
| `sup_safety` | 2 clients, 4 Collectors, 3 machines in `dhs_config`, 2 failing calls | 99,000 | `AckMeansStarted`, `CollectorsAccepted` |
| `sup_liveness` | 2 clients, 2 Collectors, 1 machine in `dhs_config`, 1 failing call, fairness | 13,000 | `EveryCallReturns` |
| `dhs_parts` | `DhsTcl`, `ProtoTransfer`, `CollectorLoop`, `NoaoUpload`, `RadSocket`, `RadUdpSocket`, one at a time | 546,000 | 8, below |
| `rad_safety` | `RadBuffers`, `RadQueue`, `RadSystem`, `RadList`, `Mm`, `RadDatabase`, `RadConffile`, `RadTemplate`, one at a time | 1,033,000 | 12, below |
| `rad_liveness` | `RadReflector`, `RadTimers`, `RadProcess`, `RadProclist`, one at a time, fairness | @LIVE@ | 8, below |
| `queue_doc_release` | `RadQueue` with `ClientReleases` | stops at the violation | `OneHolder` fails |
| `sys_init_race` | `RadSystem` without `OneAtATime` | stops at the violation | `OneInside` fails |

### What each property says

Some properties of the runs are conjunctions of named parts, each defined and
explained in its module.

| property | parts | in terms of the code |
|---|---|---|
| `OneCache` | | processes that have the cache share one segment |
| `LastDetachFrees` | | when nobody uses the cache, segment and lock file are gone, but for crashes |
| `FileTellsSegment` | `LockNamesSegment`, `NewMeansUnused` | the lock file's inode leads to the segment, and an empty file means that there is none |
| `HeldMemoryIsMapped` | | what `shmUtilAttach` returned stays mapped until its process detaches or dies |
| `LeaksOnlyUnfindable` | | a finished session leaves memory mapped only where `shmUtilDetach` cannot find the segment |
| `PixelAckedIsStored` | | an image whose send returned a good status is in its container for good, unless another process had the container open during that send |
| `MetadataAckedIsStored` | | acknowledged metadata is in its container, whole but for the records `ffprec` refused, with the same exception |
| `ExposuresKeptTogether` | `TypeOK`, `SameExposureSameFile` | the blocks of an exposure go to one container until the client renames it |
| `AckMeansStarted` | | a status of SUCCESS was preceded by one start per instance, on the machines of `dhs_config` in their order |
| `CollectorsAccepted` | `TypeOK`, `RunningWasAccepted` | no Collector serves that was refused |
| `EveryCallReturns` | | nobody waits for ever among client, Supervisor, child, ssh and Collector |
| `ScriptsPortable` | `TypeOK`, `LibrariesAgree` | a script sees the same outcome whichever library is loaded |
| `GoodCommandsSucceed` | | a good command succeeds whatever failed before it |
| `FilesReadable` | | a file one sender wrote parses as headers and blocks, but for its last record |
| `ServedInOnePiece` | `BlocksContiguous`, `ServedIsStored` | the server stores a connection whole and unmixed, unless a read failed or its disk was full |
| `ChildPerConnection` | `OneClientPerChild`, `EndsWithItsChild` | a Collector child serves one client, and a client's descriptor goes with its child |
| `ListsTellHistory` | `RemoteListIsPrefix`, `ListedOncePerClose` | the remote `image_list` is a beginning of the local one, which names an exposure once per close while every `execl` works |
| `ConnectionsKept` | `StreamWhole`, `NoDescriptorLost`, `ShortReadHasCause` | bytes come in order, once, without a gap until the first error; no socket leaks; a short read has a cause |
| `DatagramsAsSent` | `BuffersOfDatagrams`, `OwnMulticastUnheard` | a buffer is made of datagrams in the order of their arrival; one's own multicast is not heard with loopback off |
| `BuffersSound` | `BuffersDisjoint`, `OneOwner` | buffers lie in the segment without overlap; each is free or with one process |
| `OneHolder` | | a buffer of the queues is in one place: free, with a client, in a send list, or in a FIFO |
| `QueuesSound` | `QTypeOK`, `ListsSound`, `LeakNeedsExit` | a send list names each member once, with its FIFO open; a buffer is lost only once a process has gone |
| `GroupSendReachesAll` | | a send to a group reaches every other member, whoever joins, attaches or sends meanwhile, as long as no process has gone, no client has quit a group or dettached, and no group call was refused a buffer, an open or a write |
| `SystemSound` | `MembersHaveFacilities`, `CountsNeverLow`, `NothingLeftBehind` | who is in a radlib system has its objects and can take its locks, unless a process died inside the critical section or a failing call left a segment; the counts are never too low; without faults the last one leaves nothing |
| `ListsInOrder` | `WalksAgree`, `SortedStable` | forward, backward and by count a list is the same; a sorted one keeps the order of arrival |
| `PoolSound` | `ChunksTile`, `FullyMerged`, `FreeCountRight`, `BlocksHold`, `FailedCreateLeavesNothing` | no byte of the pool is lost or given out twice, free neighbours merge, a failed create gives back all it took |
| `StatementsMeantAndDone` | `InsertStores`, `DeleteExact`, `ResultsFaithful`, `SetsOwned`, `StringsFit` | an insert adds the client's row and a delete takes the rows that agree with it, as far as the literals keep the values and, on postgresql, unless a text of a condition is a column's name; a call that answers ERROR did that or nothing; a result has the rows that were found, and every set one owner |
| `ConfigurationSurvives` | `FlushedIsReadable`, `LockedWhileWriting`, `KeysUnique` | at any time a reader finds the first lines of the copy that was flushed last and at most one line more, a part of the next, and after an OK all of them (entries with a comment and no value, unterminated comments and writes that fail unnoticed excepted); one process writes at a time; one entry per key, but for identifiers read from torn lines |
| `ProgramComesAndGoes` | `OneCopyUnlessRaced`, `StaleLockHasCause`, `SystemCountRight`, `RunKeepsTimers` | one copy runs unless two raced for the lock file; a lock that stays has a cause: a death, a failure after it was made, an unlink that failed; the count of the system is lowered once for every copy that leaves, also one that dies in leaving; timers run in `RUN` |
| `ImplementsPool` | | `RadBuffers` implements `BufferPool`: take from the smallest size that has one, give back |
| `ImplementsSequences` | | `RadList` implements `NodeSequences`: a queue, a sorted list, a stack |
| `HeadersWhole` | | a header arrives in one piece in the FIFO |
| `ReflectorWorks` | `ChildEnds`, `SelfSentComesBack` | what is sent to oneself comes back; the child ends with its process |
| `TimersWatched` | `StatusMeansListed`, `ListAttended` | a pending timer is in the list once; a list that is not empty has an alarm or a handler under way |
| `TimerFires` | | an armed timer fires or is stopped, once the program calls no timer function for long enough |
| `LoopConsistent` | `SelectSeesTable`, `ServedHasData`, `BuffersAccounted` | `fdSet` and `fdMax` agree with the table; a callback gets what is ready; buffers go back once |
| `LoopProgresses` | `ReadyIsServed`, `ExitFlagStops` | what stays ready is served; the exit flag ends the loop |
| `ProcessesInOrder` | `StartsInOrder`, `ListKnowsChildren` | a child is started after the one before it is ready, as long as no other list was created in the system; a list names the living, once each |
| `StartReturns` | | `radPlistStart` returns, for one list and for two, unless a child died before it was ready, a fork failed, or a new list wiped out a give |

Each property has a mutant in `PROJECT.json`: a plausible slip in one definition,
written next to it, under which the run finds it violated.

### Bounds

In `ShmUtil` the races need two processes, and a third to arrive while two are
leaving; the second session of a process meets what its first left mapped, and
the second inode and segment let a lock file and a segment be recreated with
another identity. Sizes 8 and 16 lie on both sides of the 10 bytes
`shmUtilDetach` asks for, and 0 is the refused one. In `DhsFits` a container is
contended by two processes, and the third naming call is the first after every
pair of the two. In `Supervisor` two clients with two Collectors each are all the
processes two calls can start; the two lengths of `dhs_config` are one above and
one below what they ask for.

In `dhs_parts`: two senders whose blocks are two buffers of the server each do
not fit on the disk together (`DiskRoom`), and 12 and 14 are exposures whose
metadata names coincide after rounding; three clients of a Collector are more
than the processes it may fork (`MaxProcesses`); three uploads let two be under
way while a third begins; a third socket is the one accepted; two datagrams can
be swapped, one shorter and one longer than the buffer.

In `rad_safety`: two processes and up to three buffers of each of three sizes
make every size run out; five calls are three `radQueueInit`s and a message to `QUEUE_GROUP_ALL`, which
has two receivers (its sender is record 0, which no traversal sees) and takes all
five buffers, and one more call: a death, an exit, an attach, a dettach. A numbered
group has one receiver within these calls, and the fourth record fills the table;
three
processes and two systems make first, middle and last of each; four nodes give a
list an inside and equal keys (the keys are 0 and 1); a pool of 16 with
headers of 2 splits into at most four chunks, which is what one free chunk with
free neighbours on both sides and a spare area need; eight database calls are
opening, creating and describing the table, a value, an insert, a further change,
and two of query, update and delete; of the two values the first is as a text the
name of a column, and the second is kept, refused or taken for the first; two
processes with two lines each make one file be rewritten by the other, and text is
cut at one place (`MaxCfCuts`).

In `rad_liveness`: a chunk of the reflector is one header and a half, as 256
bytes are no multiple of one; two timers, one of them with no time left; two user
slots and two descriptor numbers for them, so that a number is used again; three children are a
list with a first, a middle and a last, and two parents with two children let one
create its list while the other waits.

`VIEW` shows TLC the active component's variables only (the others are constant),
and of `RadList` only pointers that some call can read. `SYMMETRY` permutes
processes that Init and Next treat alike; no run with a liveness property uses
it, and the two refinements of `rad_safety` are safety properties of components
it does not touch.

**Deadlock** is not checked where the system may stop: clients that used up
their sessions or whose calls all returned, programs that ended, processes that
died, and parts that reached a bound on their calls.

### Fairness

Always weak fairness, of steps an operating system that schedules every
runnable process has to take; no failure, crash, call of a client or signal from
outside is ever forced.

* `Supervisor!Fairness`: running processes keep running, an ssh command comes back.
* `ReflFairness`: the reflector child and the process that receives run. Senders
  are not forced.
* `TimersFairness`: the clock goes on, SIGALRM is delivered when it is not
  blocked, its handler and a call of `radtimers.c` finish, and the main loop gets
  back to `radProcessWait`. `MaxTimerOps` bounds the calls: a program that
  starts and stops timers without end can starve `TimerFires`, because each call
  stops the clock and counts only whole ticks.
* `ProcFairness`: the process runs, its callbacks return, and a timer keeps
  ticking. The last is what `templateStates.c` provides; without it an exit flag
  set just before `select` waits for the next message.
* `PlistFairness`: each parent runs, and a child that does not exit becomes ready.

### Switches

Where the code fails a property through one identified window, a CONSTANT opens
or closes it, so that the property can be asked of the rest.

| switch | closed in | what is in the window |
|---|---|---|
| `Exclusive` | `shm_exclusive` | clients that do not serialise their opens and closes (open in `shm_concurrent` and `shm_race_split`) |
| `OneAtATime` | `rad_safety` | `semInit` resets the semaphore under a process that holds it (open in `sys_init_race`) |
| `ClientReleases` | `rad_safety` | callers that release after a failed group send (open in `queue_doc_release`) |
| `SelfWindow` | `rad_liveness` | two messages to oneself under way: 256 bytes end inside a header |
| `SignalInStop` | `rad_liveness` | SIGALRM between the test of `pending` and the block in `radTimerStop` |
| `LateRegister` | `rad_liveness` | callbacks that register a descriptor with a number that was dropped in the same round |

### What is shown

* With serialised calls the cache behaves as its comments say, also when a
  client dies in the middle of any call. Without serialisation a client that
  opens while the last one closes gets a segment of its own. What survives every
  interleaving is that memory once handed out stays usable, and that a finished
  session leaves memory mapped only where `shmUtilDetach` cannot find it.
* Images and metadata acknowledged by `_fits` are in their container unless two
  sends overlapped in it; the container of an exposure is stable until the client
  renames it. Only an identifier that
  `%014.6f` pads gives metadata and pixels different names, and only when just
  the directory was set.
* A status of SUCCESS from the Supervisor means that one Collector was asked for
  on each of the first machines of `dhs_config`. The parent's farm stays empty,
  so that every REGISTER is refused; no Collector gets past the refusal, and the
  only ones that run are those whose answer was lost before `status` was set.
* A Collector's child that falls back into the accept loop does no harm, because
  it closed the listening socket and its accept fails.
* The prototype's files stay readable on a full disk only because a short write
  is followed by one that fails, and the status stops the sender.
* radlib's shared buffers, lists and queues keep each buffer in at most one place,
  whichever open or write fails and whoever is killed between two steps (inside an
  operation on the table nobody is killed). What a dead process held is lost. A
  send to a group reaches the group while clients only join and attach; once a
  client has dettached from a queue it joined a group with, sends miss that queue
  and answer OK.
* Processes that join and leave a radlib system one at a time never destroy what
  another uses; a crash or a failed call leaves counts too high, never too low. It
  may leave a segment with a dead lock.
* A flushed configuration file is readable as far as it was written, at every
  moment, except for lines that are not read as they are printed and where
  `radCfFlush` overlooks that a write failed.
* The event loop serves what is ready and ends on its flag, as long as callbacks
  only drop descriptors.
* Both database engines do to a table what the row description says, as far as its
  literals keep the values. An ERROR does not tell whether the statement was
  carried out, and on postgresql a text that is a column's name selects other rows.

## 4. Proofs

A theorem is about every value of the constants: any sets of processes, keys,
clients, machines or buffers, any bounds on calls, failures and crashes, with the
calls interleaving freely. What each rests on is the named assumption of its
module (`ShmAssumption`, `CollectorAssumption`, `SupervisorAssumption`,
`FitsAssumption`, `PtAssumption`, `UploadAssumption`, `BufAssumption`,
`QAssumption`, `SysAssumption`, `ProcessAssumption`, `CopiesAssumption`,
`SockAssumption`, `TimerAssumption`, `ProclistAssumption`, `UdpAssumption`,
`ListAssumption`, `ReflAssumption`, `CfAssumption`, `DbAssumption`,
`MmAssumption`): the
special values are not members of the sets they stand outside of, bounds are
naturals, a block and a buffer are not empty, the headers and the word of `mm` have
a size and the least pool is no larger than the greatest, and the sets whose members the
code counts (the processes of `ShmUtil` and `RadSystem`, the copies of
`RadTemplate`, the nodes of `RadList`) are finite. A hypothesis beyond that is written in the theorem
itself and explained below.

Every inductive invariant was first an invariant of a TLC run over the full
state space of the instance named with it.

### ShmUtil (`ShmUtilProofs`; `LeakInv` on `shm_concurrent`, `SerialInv` on `shm_exclusive`)

* `TypeCorrect`: `Spec => []TypeOK`. Not inductive alone: a mapping is made for
  session `sess[p]`, which may exceed the bound once a process has used its
  sessions up. `TypeInv` adds `SessionBound`: that happens only outside a call.
  `NattchIsNat` needs the finiteness of the processes.
* `HeldMemory`: `Spec => []HeldMemoryIsMapped`. The address is what `shmat` gave
  two system calls earlier, so `HeldInv` adds `AttachMaps` (between `shmat` and
  the return, the call's segment is mapped), `AddressMaps` (a client holds an
  address only until `shmdt`, and it is its current mapping) and `MappedExists`
  (a mapped segment is not destroyed). The lemma `EveryStep` says once what any
  step may do to a segment, and `MappedStays` uses it for all actions.
* `LeaksAreUnfindable`: `Spec => []LeaksOnlyUnfindable`. `LeakInv` follows the
  segment through a session: `shmget`'s result has the call's key
  (`CallSegment`), so has the segment a client holds (`HeldKey`), and the one
  `shmUtilDetach` looks up by that key is therefore the one it holds, unless
  that one cannot be found (`StatSegment`). The lookup is unambiguous by
  `OneLivePerKey`. Since each step has one actor, the invariant is stated per
  process; `KeptLeak` and `QuietStep` show that a step of somebody else keeps
  it, `NextActor` treats the actor's own.
* `OneSegmentPerKey`: `Spec => []OneLivePerKey`, the fact the lookup rests on.
* `SerialClientsShareCache`, `LockFileTellsSegment` and `LastCloseFrees` are the
  promises of `shmUtil.c`'s comments (`OneCache`, `FileTellsSegment`,
  `LastDetachFrees`) for clients that satisfy `SameClients(n)`: they take turns
  in `shmUtilInit` ... `shmUtilAttach` and in `shmUtilDetach`, all with the
  create flag and with the same size `n` of at least the 10 bytes `shmUtilDetach`
  asks for, and no `fopen` fails. Each part is needed. Without turns
  `shm_race_split` shows two segments. With different sizes, or without the
  flag, `shmUtilAttach` returns NULL to a client that detaches all the same,
  and removes the lock file under the others. Crashes are allowed at any
  point, inside a call too; only `LastDetachFrees` excludes them in its own
  premise. `SerialInv` is `LeakInv` and: one client at a time is inside
  (`Serial`), every segment has the size `n` and the lock file's key
  (`SegsFit`), an unwritten lock file has no segment (`UnwrittenMeansUnused`),
  what the one inside knows at its step (`Stages`), and that without a crash
  each segment has a user and the lock file a reason (`NothingForgotten`).

### The Collector (`DhsPartsProofs`; `CollectorInv` on `dhs_parts`)

* `OneChildPerConnection`: `ColSpec => []ChildPerConnection`. The child falls
  back into its parent's accept loop, so what has to be excluded is that it
  accepts there: `ChildHolds` says that a child in the loop has closed the
  listening socket and holds one connection, `OnePlace` that a client is waiting
  or known to one process only.

### The transfer prototype (`DhsPartsProofs`; `WriterInv` and `ServerInv` on `dhs_parts`)

* `OneWritersFilesReadable`: `PtSpec => []FilesReadable`. `FileFits` is the
  property with what keeps it: a piece was cut short only when the disk became
  full (and it stays full), and a header at the end of a file waits for its
  block or its sender has failed (`HeaderLast`). `HeaderWritten` is the same
  from the sender's side: who is about to write a block has its header in the
  file, at the end unless somebody else wrote there. `OnlyGoodSend`, that a
  sender inside a call has not failed before, is where the status of
  `send_pixel.c:31` is needed.
* `BlocksServedInOnePiece`: `PtSpec => []ServedInOnePiece`. The server goes on
  in `mm_test` where it stopped, so `EndOfFile` relates the last unit of the
  file to what was read of the connection it serves, and `Connections` says
  that nothing of a connection is read before it was accepted. The sizes of a
  block and of the server's buffer are any, so that a block need not be a
  multiple of the buffer.

### The uploads (`DhsPartsProofs`; `UploadInv` on `dhs_parts`)

* `UploadedListsTellHistory`: `UpSpec => []ListsTellHistory`. Every copy of
  `image_list`, at the remote host or in a client that is sending, is a
  beginning of the local one (`CopiesArePrefixes`), since that only grows.
  `ClosesCounted`: while `execl` works there is one program, and between the
  call and the line it appends the exposure was closed once more than it is
  listed.

### The Supervisor (`SupervisorProofs`; `SupInv` on `sup_safety`)

* `OnlyAcceptedRun`: `Spec => []CollectorsAccepted`, from `AckTells`: what an
  answer on a socket says of the child that wrote it.
* `AckMeansListAskedFor`: a good status means that `ssh` was run for the
  machines `getMachine` returned for 0 ... `LOOPS`-1. `OnTheList` follows the
  child down the list.
* `AckMeansEachStarted`: `Spec => []AckMeansStarted` under
  `Len(Config) >= LOOPS`. `startCollector` counts its rounds and not the
  machines; with a shorter `dhs_config` it goes on behind the end of the farm,
  with the names found there. The previous theorem says what holds then.
* `RegistrationsRefused`: no Collector is ever accepted in the code as it is,
  since the machines are added to the farm of a forked child while REGISTER is
  looked up in the parent's. (`CollectorsAccepted` therefore says who would
  run, and `RegistrationsRefused` that nobody does.)

### _fits (`DhsFitsProofs`; `StoreInv` on `fits_naming` and `fits_shared`)

* `AckedImagesStay`: `Spec => []PixelAckedIsStored`, and `AckedMetadataStays`:
  `Spec => []MetadataAckedIsStored`. `OpenedAlone`: a process that has a container
  open alone looks at what is in it.
* `ExposureHasOneContainer`: `Spec => []ExposuresKeptTogether`. `SinceCurrent`:
  the naming state still names every container used since it was last changed.

### radlib buffers (`RadDataProofs`; `BufInv` on `rad_safety`)

* `BuffersStaySound`: `BufSpec => []BuffersSound`, for any list of sizes
  `radBuffersInit` takes. Most of the proof is about the layout: the offset of
  each buffer is a sum over the pools before it, which is a recursion over
  data. `CommonLemmas` states induction and the existence of recursively defined
  functions with sets (a subset of Nat that holds 0 and the successors of its
  members is Nat), which the provers can instantiate, so that the sums are
  proved monotone and the buffers disjoint.
* `GetAndRlsImplementPool`: `BufSpec => ImplementsPool`. Each step of the split
  calls is a step of `BufferPool` or a stutter: taking from the free list, not
  marking the header, is where a buffer changes hands.

### radlib lists (`RadDataProofs`; `ListInv` on `rad_safety`)

* `ListsStayInOrder`: `ListSpec => []ListsInOrder`, for any finite set of nodes and
  any keys. The invariant says there are sequences the pointers stand for
  (`Stands`): `next` spells each list from one dummy to the other and `prev` spells it
  back, the sequence is what the callers put there, each node once, `noNodes` is its
  length, the stack likewise, and the sorted list is in the order of keys and
  arrivals. That a traversal returns the sequence its pointers spell
  (`TraversalIs`, `WalksAre`) is an induction over its steps, which
  `CommonLemmas` states with sets; the limit that ends the traversal of the
  model is never reached, because a sequence without repetition is not longer than
  the set of nodes (`ContentsFew`). Each operation is then shown to do to the
  sequence what its name says: the four assignments of an insertion, whichever end
  they start from, insert (`SpellsInserted`), the two of a removal remove
  (`SpellsRemoved`), and everything outside the neighbours stands
  (`SpellsKept`).
* `ListsAreSequences`: `ListSpec => ImplementsSequences`. Every step is one move of
  `NodeSequences`, from the walk before it to the walk after it
  (`EveryStepAdvances`).

### radlib queues (`RadQueueProofs`; `QueueInv` and `ReachInv` on `rad_safety`)

* `BuffersHaveOneHolder`: `QSpec => []OneHolder`. `Disjoint(InPlace)` says where
  a buffer is (the pool, a client, a node of a send list, a FIFO, a register of
  a call in progress), each at most once; every action moves buffers between
  these places, and a death empties those of its process.
* `QueuesStaySound`: `QSpec => []QueuesSound`: the table and the lists
  (`TableOK`, `ListsKept`, `Listed`), and `NothingLost` until a process has gone.
* `GroupSendsReachAll`: `QSpec => []GroupSendReachesAll`, with every call of a
  client, every failure and every death in `QNext`; what makes a send miss a member
  is named in the property (`qDisturbed`). A client's own `radQueueAttach` is not
  among them: the node it leaves hides the member from `qSendListUpdate`, and serves
  the send as well (`InList`). A client's `radQueueDettach` is: `qSendListGetFD`
  goes by the name, the update flag is clear by then, and the member is not
  attached to again. `FlagsTell` says what
  a clear update flag is worth: its owner has every other member of the group in
  its send list, or is on the way to attach to it. `DueTold` follows a send from
  record to record (`Ahead` of the traversal, or `Facing` it). Both need that
  other processes only add records meanwhile, and set the flags of the group
  they join (`Grows`), and that record 0, which no traversal sees, is in no group
  (`FirstInNoGroup`).

### Tcl package (`DhsPartsProofs`; `TclInv` on `dhs_parts`)

* `OneScriptForAll`: `Spec => []ScriptsPortable`, and `FailuresForgotten`:
  `Spec => []GoodCommandsSucceed`. `TclInv`, the conjunction of the three
  invariants, is inductive without more, because the package resets the static
  status before each call: what a command returns depends on its arguments and
  on the handle alone. The lemmas follow a status through the entry points:
  `TclInherit` (a good status is passed on where the check succeeds),
  `TclHandleGood` (each library takes the handle its own `SysOpen` left),
  `TclStatuses` (what each command leaves in each library) and `TclRuns` (the
  three agree but for the arguments `TclExcepted` names). There is no hypothesis.

### radlib system (`RadPartsProofs`; `SysInv` on `rad_safety`)

* `SystemStaysSound`: `OneAtATime` implies `SysSpec => []SystemSound`. The code
  decides by two counts what it makes and what it destroys; the invariant names
  the processes behind each (`SysCounted`, `SysHolding`: the attached and those
  that died attached). `CountsHigh` holds whatever fails; `CountsExact`,
  `SystemsWhole` and `HandlesFitAll` as long as no process died between two
  steps of a call and no failing call left a segment (`sysTorn`): the next first
  process finds a segment whose semaphore was never set, or, after a global segment
  that nobody filled, the segments of another system. `TornKeeps` and `CountsOutlast`
  carry the counts past that point. `FaultFree` closes the case without faults,
  where nothing may be left. The hypothesis is not a technicality: `semInit` resets a semaphore
  that others hold, and `sys_init_race` shows what two overlapping
  `radSystemInit`s do.

### radlib main loop (`RadPartsProofs`; `LoopInv` on `rad_liveness`)

* `LoopStaysConsistent`: `ProcSpec => []LoopConsistent`. `TableFits` says that no
  descriptor is in two slots, so that dropping one takes it from the set for
  good, and that `fdMax` bounds the set (`procFindMaxFd` gives the greatest
  member, which takes `CommonLemmas`). `OpenFits` carries the hypothesis `~missed`: only the
  descriptor in the last slot, which the search by number does not reach, is
  closed and still registered. `ScanFits` is what `staleServe` needs: of the
  slots `radProcessWait` has yet to come to (`ToScan`), what was ready when
  `select` returned has something to read until it is served, unless a callback
  registers a descriptor in a slot the loop has yet to reach. `BuffersFit` has a
  buffer in hand only while a callback runs.

### radlib program (`RadPartsProofs`; `CopiesInv` on `rad_safety`)

* `ProgramsComeAndGo`: `TemplateSpec => []ProgramComesAndGoes`. The property speaks
  of copies past the creation of the lock file; the invariant, `OneActive`, of
  those past its *test*: as long as no two were between the two (`raced`), one
  copy at most is anywhere past the test, and from the creation on the file is
  there. A second copy that tests it then sees it. A copy on its way out is
  no longer among them, whether it removed the file or could not (`lockLeft`).
  `MachineFits` keeps the handlers and the `IDLE` state from `radStatesInit` to the
  loop, where `RUN` is entered with both timers started and left only for `ERROR`.
  The count of the system is over a finite set of copies (`Users`). `radSystemExit`
  lowers it before anything else, so that a copy that dies in the second
  `radBuffersExit` is counted out (`GoneKeeps`).

### radlib stream sockets (`RadPartsProofs`; `SockInv` on `dhs_parts`)

* `ConnectionsStay`: `SockSpec => []ConnectionsKept`. The property compares what
  was handed out with what was written; the units between the two are where the
  code has them. `UnitsFit` says of a direction that its first `g` units were
  handed out, those up to `b` are in the buffer of the read under way, and those
  up to `w`, all that was written, in the stream, each part in order. Nothing is
  claimed of a direction after a call on it returned `ERROR`: its buffer is then
  thrown away with what had been read. It takes `EndsFit` (a connection has its
  client and one accepted socket at most, so a direction has one writer and one
  reader) and `ModesFit` (who is non-blocking without having asked is still
  connecting, so a read that stops short was allowed to).

### radlib timers (`RadPartsProofs`; `TimersInv` on `rad_liveness`)

* `TimersStayWatched`: `~SignalInStop => (TimersSpec => []TimersWatched)`. The
  property follows the pointers from the head (`Listed`); the invariant says
  which sequence they spell: `ChainOf` has the pending timers in some order, each
  once, with `next` and `prev` going back and forth. Taking one off
  (`ChainDelete`, for the handler and `radTimerStop`) and putting one in
  (`ChainInsert`, where the loop of `radTimerStart` stopped, `WalkIs`) give such a
  sequence again, and no chain is longer than there are timers (`ChainShort`), so
  that following the pointers ends. The free list runs through the same `next`
  pointers: `FreeFits` keeps the two apart. `TimerCallFits` is where the
  hypothesis is needed: past its test `radTimerStop` still finds the timer
  pending, because the signal is blocked before the handler can take it off. In
  the run, `SignalInStop` is `FALSE` for the same reason.

### radlib process lists (`RadPartsProofs`; `PlistInv` on `rad_liveness`)

* `ProcessesStayInOrder`: `PlistSpec => []ProcessesInOrder`, for any number of
  lists, priorities and processes, whatever forks fail and whoever dies before or
  after it was ready. The second part, `ListKnowsChildren`, is about every list;
  the first, `StartsInOrder`, about a list as long as no other was created in its
  system, because the semaphore is shared: with two lists one parent takes what the
  other's child gave, and the order is lost. `NodesFit` says of a list that it is sorted, that a
  pid is in one node and that a later pid has no better priority; it is kept by
  `insertAscending` (`InsertPosIs`, `InsertedFits`), by `radPlistRemovePid`
  (`RemovedFits`) and by a fork at the cursor (`ForkedFits`). `ParentFits` says that
  no node behind the cursor has a process yet. It holds because a list is started
  once and `radPlistAddPid` is called after the start, as the header asks; called
  before, its process would be forked a second time and its pid lost. `AloneFits`
  says who may be short of ready: the process forked last, while the parent waits,
  and then the count is 0.

### radlib datagram sockets (`RadPartsProofs`; `UdpInv` on `dhs_parts`)

* `DatagramsComeAsSent`: `UdpSpec => []DatagramsAsSent`, for any sockets, hosts,
  sizes and length asked for, whatever the network loses, repeats or reorders.
  For the buffers `DgramsFit` adds that the one `radUDPSocketReadExact` is still
  filling ends with a whole datagram: a datagram is cut short only where it fills
  the buffer, and then the call returns (`PieceAppended`). For the loopback `LoopFits` says that a socket under its
  default conditions does not loop back, so that a quiet datagram never reaches
  the inbox of a socket on its own host, and `HeardFits` follows it from the
  inbox into the buffers.

### radlib reflector (`RadQueueProofs`; `ReflInv` on `rad_liveness`)

* `HeadersStayWhole`: `SelfWindow * HdrUnits <= ChunkUnits` implies
  `ReflSpec => []HeadersWhole`, for any lengths of a header and of a read. What the
  child puts into the FIFO between two headers of other senders is a whole read, so
  a header is sure to stay in one piece only if no read ends inside it. `Whole` says
  that of the bytes on their way: the units follow each other and begin and end
  with a header. The messages that wait in the reflector are those that were sent
  and have not come back (`Reflects`); they come back in the order they were sent
  (`ComeBack`), each once, so that their number is the difference of two counts and
  what waits fits one read. The hypothesis is what the code leaves out: the 256
  bytes of `radqueue.c:429` are no multiple of a header, and with more waiting than
  fits one read, a read ends inside a header.

### radlib configuration files (`RadDataProofs`; `CfInv` on `rad_safety`)

* `ConfigurationAlwaysSurvives`: `CfSpec => []ConfigurationSurvives`, for any
  processes, entries, comments and order of the calls, and any places where text is
  cut, lost or overtaken. `Begun` says what the file is while nothing was lost: the
  lines of the last copy that left the buffer, and one that is cut, of which the
  file has the first part. `Written` relates that to where the one process in
  `radCfFlush` is. `KeysOnce` is about entries whose identifier was read whole;
  `KeysFrom` says of a file that they come from a copy in its order, so that half
  lines in front of, behind or instead of others add none. It is kept by
  `radCfPutEntry` because that changes the first entry with the key or adds one
  (`PutEntryKeeps`), by what leaves the buffer (`TextGoesOut`, which takes
  `FirstPartIs`, `BehindGapIs` and `WholeLinesAre`) and by a reader who gets the
  lines of two files (`TwoFilesKeys`). What `ReadFile` makes of a file is an
  induction over its lines (`Reading`; `ReadPlain` for plain ones): plain lines are
  read as they were printed, an entry with a comment and no value is not, and an
  unterminated comment swallows what comes after it; `FlushedIs` excludes the last
  two.

### radlib database interface (`RadDataProofs`; `DbInv` on `rad_safety`)

* `CallsMeantAndDone`: `DbSpec => []StatementsMeantAndDone`, for any table
  descriptions, values and string lengths, and whatever the server takes a literal
  for (`TextOf`, `Reads`). `RowMeant` relates the field structures to what the client
  means by them: what an insert prints is the row the client put together, call by
  call, through every change of type and length (`FieldFits`: a value that is not
  NULL does not print as NULL, and its buffer holds it). `TakenIs` takes that
  through the server's reading: the row inserted is one that the client's values may
  be taken for (`TakenFor`), and exactly the client's where `Reads` keeps them.
  `TableFits` says that each row has one value per column. `MatchMeans` is the same
  for the condition of a `DELETE`, unless a text of it is a column's name
  (`NamesColumn`). `Statement` and `Question` say what either engine makes of the
  server's answer, an answer that was lost among them.

### mm allocator (`RadQueueProofs`; `MmInv` on `rad_safety`)

* `PoolStaysSound`: `MmSpec => []PoolSound`, for any processes that share the pool,
  any sizes of pool, header and word, and any blocks, whichever step of
  `mm_core_create` fails and whatever runs between the two locks of `mm_malloc`.
  `PoolSound` speaks of each address and of what is available; `MmInv` says it of
  areas (`Tiles`): any two are apart, all lie between the pool's header and
  `mp_offset`, and every address there is in one. Two things make it inductive.
  The free list is sorted (`Sorted`), without which the place `mm_insert_chunk` finds
  says nothing about the neighbours: `NeighboursTouch` shows that a free chunk which
  touches the one that comes back is next to it in the list, so that the six ways
  to join (`FreedApart` ... `FreedBetween`) leave no two that touch. And a chunk that
  `mm_realloc` is about to free is still its process's (`ChunksOwned`), whatever
  others did since it was replaced. What `mm_available` adds up and what is
  allocated are sums, and that they change by the size of the chunk is an induction over
  lists and addresses (`AddUpChanged`, `AddUpInserted`).

### Only model-checked

Every liveness property: fairness and ENABLED are out of the prover's reach. Each
safety and action property of a passing run is the conclusion of a theorem, under the
hypotheses given above where there are any. No module uses a RECURSIVE
operator, so that each can be proved about.

## 5. Noticed while modelling

Divergences with a run that shows them are the findings in `PROJECT.json`. Others
were seen in the code and have no run of their own. Where the model has the
behaviour, the definition is named.

Shared memory:

* `shmUtil.c:188`: two clients that detach together both see two attachments in
  the snapshot of line 176, and neither removes segment and file (comment at
  147; `LastDetachFrees` fails without `Exclusive`).
* `smCache.c:85` passes `create = 0`, so `smcOpen` never creates the cache its
  comment (67-69) says it creates; `smCache.c:107` tests the error key -1
  against 0; `zzdebug.c:28` calls `shmUtilAttach` with four arguments.
* `shmUtil.c:135` clears the whole segment whenever `*create` was passed, also
  one that others use (`shmUtilAttach_clear`); the comment (132-133) speaks of
  the first long word and of creating.
* `shmUtil.c:220` computes `inUnit % *inSize`, the comment at 202 promises an
  even multiple of the unit (`shmTest/shmUtilSize.c` has it right).

DHS libraries:

* `_fits/dhsUtilSendMetaData.c:194`: a record `ffprec` could not write sets the
  status to good (`dhsUtilSendMetaData_dropsRecord`).
* `_fits/dhsUtilIOCtl.c:70,78`: setting the same name twice makes the flag 3
  with nothing in the other buffer.
* `_fits/dhsUtilSendMetaData.c:116,129`: without `MONSOON_DATA` the string
  literal `"./"` is overwritten (`Send_defaultDirectory`).
* `_fits/dhsTcl.c:143` passes NULL where `dhsUtilIOCtl.c` copies a name
  (`CopiesNull`); line 384: `dhs::PixelData` frees none of its row lists.
* `_null/dhsUtilSysOpen.c:74`: the assignment of the handle is inside a comment,
  while `dhsTcl.tcl` tests for a handle above 0.
* `_noao/dhsUtilCloseExp.c`: a failing `execl` duplicates the program and, with
  it, lines of `image_list` (`ChildGoesTo`); an older list can overwrite a newer
  one; the trailing slash of the environment's `MONSOON_DATA` is overwritten.
  `_noao/dhsUtilSendMetaData.c:172-196`: failed writes return with the file open.

Supervisor, Collector and transfer prototype:

* `dhsSysOpen.c:107`: end of file is read as "0", SUCCESS; `dhsSysOpen.c:92`
  always asks for two Collectors (comment at 87: `numNodes`).
* `supervisor.c:210`: machines are added to the farm of a forked child
  (`monsoon_api/notes` describes the symptom); `supervisor.c:258` reads behind
  the farm's end without `dhs_config` (`startCollector_segfault`); children are
  never waited for (156).
* `collector.cc:206-213` reads into a pointer that was never set; 253: a failed
  fork closes the client in silence (both in `CollectorLoop`).
* `send_pixel.c:94`, `proto.c:148`, `proto_server.c:107`: a short write counts as
  success; `send_pixel.c:43,47` free what `getenv` returned; `send_meta.c:33`
  rounds the exposure in the file name and lines 50-70 can overrun the buffer;
  two senders of one exposure interleave; success is returned before the server
  has accepted; the server takes a read error for the end and exits on others.
  `timing.c:189`: the carry of `tvadd` tests `> 1000000`.

radlib, shared facilities:

* `radsystem.c:105` and `radsemaphores.c` ignore what `semop` returns: SIGALRM
  lets a process go on without the lock. This would void every lock for processes
  with timers; the models assume that `semop` is not interrupted.
* `radsystem.c:93`: a process that dies inside `radSystemInit` can leave a
  segment whose semaphore was never set. A call that fails does so too:
  `radshmem.c:139-150` leaves the segment whose `shmat` failed, while
  `radsystem.c:270` destroys the semaphores, and `radsystem.c:203-216` leaves a
  global segment with all `keyBase` 0, which gives every system the same keys
  (`AttachShm`, `radShmemInitFails`).
* `radqueue.c:188`: traversals begin behind record 0, so that a send to
  `QUEUE_GROUP_ALL` never reaches the first queue; `ERROR_ABORT` leaves the
  group's copy unreleased; `qdbDeleteQueue` with `QUEUE_GROUP_ALL` skips the
  record that moves up.
* `radqueue.c:384,713`: a client that attaches to a queue and, after that one has
  joined its group, dettaches from it, cuts it off from its group sends: the update
  flag is clear, `qSendListUpdate` looks for names and not for groups, and the send
  answers OK (`ClientDettach`).
* `radqueue.c:63,895-899`: `sigPipeFlag` is set by any SIGPIPE of the process and
  cleared only by the next send, which answers `ERROR_ABORT` though it was written;
  a socket write that fails just before is enough.
* `mm_global.c:64`: the test in `MM_permission` is inverted.

radlib, the running process:

* `radqueue.c:429`: the reflector's 256 bytes are no multiple of a header
  (`SelfWindow`). `radtimers.c:347`: see `SignalInStop`; a full notify pipe
  blocks the handler.
* `radprocess.c:479`: see `LateRegister`; 595: the loop over descriptors stops
  before the last slot, and the closed descriptor ends the process in `select`;
  424: the exit flag is tested before `select`; 307-379: failures of
  `radProcessInit` call `radBuffersExit`, and `radsystem.c:346-364` calls it again
  with the id that was freed, under the global semaphore (`ProcessInit`,
  `DiesInSystemExit`).
* `radproclist.c:264`: a stillborn child or a failed fork hangs the parent; 147:
  one semaphore for all lists, and `SETVAL` 0 for each new one, which wipes out a
  give that another parent has not taken (`giveLost`); `radPlistStart` forks nodes again that have a pid.
* `template.c:395-403`: failures after the lock file leave it, and 234 overlooks
  an `unlink` that failed; 190 and 316 test and create it apart; SIGCHLD shuts the program down; the error state never
  restarts its timers.

radlib, files, tables and sockets:

* `radconffile.c`: a failed open releases its buffer twice; a stale lock link
  stays after a kill; an unterminated comment swallows the next entry; an entry
  with a comment and no value is read as one with a value; `fprintf` and
  `fclose` are unchecked (582), so that `radCfFlush` answers OK when text was lost
  (`TextIsLost`); 305 opens without the lock that 547 takes, and reads half lines
  (`ReadsTwoFiles`); `ID = VAL` reads `=` as the value; the later of
  two flushes undoes the earlier; a NULL instance updates an entry that has one.
* `raddatabase.c:467-480` copies a value of length 0 to NULL;
  `h/raddatabase.h:95`: `FIELD_TYPE_CLEAR` clears the traits although
  `raddatabase.c:292` says it does not; `pg_database.c:1024` reads `where[]`
  uninitialised, 1239-1267 print `= NULL,` and then the value, 1294 prints the
  string of a BIGINT, 387 frees a set the client holds; its conditions and
  `SET` clauses print texts in double quotes, which are names to postgresql: a
  DELETE by `txt = "txt"` removes every row (`ReadsColumn`); neither engine escapes
  the quotes of a text; `my_database.c` never
  reports NOT NULL and takes `int(11)` for a string; DATETIME buffers leak.
* `radsocket.c:268` reads `SO_ERROR` and ignores its value; 426 answers ERROR
  after a partial write (`h/radsocket.h:126-130`); an error in an exact read
  loses what was read; EINTR in `select` fails a create.
* `radUDPsocket.c:336` joins and cuts datagrams; an empty one looks like a closed
  peer; 107-112 ignore the results of the three defaults.

## 6. Not modelled

* `shmUtilSize` (a pure function of two numbers) and the `shmTest` copies of the
  calls; `smCache.c`'s page operations, whose bodies are empty.
* Memory of Tcl's lists, wording of messages, logging, timing
  (`timing.c`, `radmsgLog.c`, `raddebug.c`, `radtimeUtils.c`, `mm_lib.c`).
* The layout of `_noao`'s FITS files, a second time after `_fits`.
* Calls that only read: the getters of radlib, listing tables, a cursor over a
  result set. `databaseExample.c` and `mm_test.c` are clients and tests.
* `semTest` (a driver of a library that is not here), `dhsOpenConnect.c` and
  `dhsOpenExp.c` of `monsoon_api` (do not compile), `dhsUtilFileOpen.c` (nobody
  calls it), the older copies (`monsoon_api.old`, `vers1`), `libtc`, the
  documents and pseudo-code.
* Of `RadQueue`: a death inside an operation on the table (the semaphore then
  stays taken for everybody), and `sigPipeFlag`, which other writes of the process
  set too. Of `RadReflector`: the error exits of `dummyChild`, which end it. Of
  `RadTimers`: a clock that is set back.
* Of `RadConffile`: several working directories (the lock link is made in the
  working directory of the process, so that two of them would not exclude each
  other); comments that do not begin with `#`; lines longer than the line buffer;
  what becomes of an identifier that took in a newline; system buffers that run
  out while the text header is made. Assumed of stdio: a failed write drops what
  is in the buffer, and the end of a file is not looked for again.
* Of `RadDatabase`: texts whose quotes make SQL of what follows, statements longer
  than the query buffer, the trailing blanks of CHAR columns.
* The composition of radlib's parts in one state space: one process of a system
  with buffers, queues, timers and loop is too large for TLC. Parts meet through
  what one promises the other (section 2).

## 7. Plan

1. An abstract cache (open, close, at most one segment, gone when unused), and
   `ShmUtil` with serialised clients shown to implement it; `SerialInv` is the
   invariant that needs.
2. An interrupted `semop` as a further switch of `RadSystem` and `RadQueue`.
3. Queues and sockets in one process, with `sigPipeFlag` between them.
4. `shmUtilSize` and its `shmTest` version against the least multiple.
