------------------------------ MODULE ShmUtil ------------------------------
(***************************************************************************)
(* The life cycle of the shared memory cache segment                       *)
(* (dhsDesign/shmem/shmUtil.c): processes that call shmUtilInit,           *)
(* shmUtilAttach and shmUtilDetach on one lock file and the System V       *)
(* segments its inode stands for.                                          *)
(*                                                                         *)
(* Every system call is a step of its own, so the steps of different       *)
(* processes interleave between any two of them.  The kernel (shmget,      *)
(* shmat, shmctl, shmdt) and the file system (fopen, ftok, unlink) are     *)
(* modelled from how shmUtil.c uses them.                                  *)
(*                                                                         *)
(* A client is one process.  It opens the cache (shmUtilInit, then         *)
(* shmUtilAttach with the key it got), uses the memory, and closes it      *)
(* (shmUtilDetach with clearLock set), the sequence of zzdebug.c; or it    *)
(* gives up when shmUtilAttach returns NULL, as smcOpen in smCache.c does. *)
(* Each pass through this is a session.                                    *)
(***************************************************************************)
EXTENDS Naturals, FiniteSets

CONSTANTS
  Procs,        \* the client processes
  Inodes,       \* inodes the file system can give the lock file
  Segs,         \* segment identifiers the kernel can hand out (SHMMNI)
  ERR,          \* the key shmUtilInit returns when it fails
  NoFile,       \* no lock file, or no open descriptor
  NoSeg,        \* no segment: shmget failed, or a NULL address
  Nobody,       \* creator of a segment that was never created
  Sizes,        \* segment sizes the clients ask for
  Creates,      \* values the clients pass for *create
  Exclusive,    \* TRUE: clients serialise opening and closing themselves
  MaxSessions,  \* bound: sessions per process
  MaxCrashes,   \* bound: processes that die without detaching
  MaxFaults     \* bound: fopen calls on the lock file that fail

ASSUME ShmAssumption ==
  /\ IsFiniteSet(Procs)
  /\ ERR \notin Inodes /\ NoFile \notin Inodes /\ NoFile # ERR
  /\ NoSeg \notin Segs
  /\ Nobody \notin Procs
  /\ Sizes \subseteq Nat
  /\ Creates \subseteq BOOLEAN
  /\ Exclusive \in BOOLEAN
  /\ MaxSessions \in Nat /\ MaxCrashes \in Nat /\ MaxFaults \in Nat

Sessions == 1..MaxSessions

\* ftok maps the lock file's inode to the key; ERR is a key like any other
\* to shmget.
Keys == Inodes \cup {ERR}

\* shmUtilDetach looks its segment up with size = 10.
DetachSize == 10

VARIABLES
  lock,     \* the lock file: its inode, and whether anything was written to it
  seg,      \* the kernel's segments
  mem,      \* what a segment's memory holds: zeros, or a client's data
  map,      \* map[p, n]: segment mapped by session n of process p
  pc,       \* where each process is
  sess,     \* number of the current (or next) session of each process
  key,      \* memKey of each process
  fd,       \* inode behind lockFile while shmUtilInit has it open
  new,      \* the *new flag shmUtilInit returned
  create,   \* the *create argument of the current shmUtilAttach
  mFd,      \* the segment id shmget returned
  addr,     \* the segment behind the address the client holds, or NoSeg (NULL)
  nattch,   \* shm_nattch of the IPC_STAT snapshot
  crashes, faults

locals == <<sess, key, new, create, mFd, addr, nattch>>
clientVars == <<locals, fd>>
budgets == <<crashes, faults>>
vars == <<lock, seg, mem, map, pc, clientVars, budgets>>

------------------------------------------------------------------------------
(* The kernel's view. *)

\* The mappings of segment s, and their number (shm_nattch).
Mappings(m, s) == {x \in Procs \X Sessions : m[x] = s}
shm_nattch(s) == Cardinality(Mappings(map, s))

\* The current session of p, and the address it was given.
Cur(p) == <<p, sess[p]>>

\* shmget finds a segment by key only until IPC_RMID hides it.
Live == {s \in Segs : seg[s].state = "live"}
WithKey(k) == {s \in Live : seg[s].key = k}

\* shmget without IPC_CREAT: ENOENT, or EINVAL when more is asked for than
\* the segment holds.
shmget(k, n, r) ==
  \/ /\ r \in WithKey(k) /\ n <= seg[r].size
  \/ /\ r = NoSeg
     /\ \A s \in WithKey(k) : n > seg[s].size

shmUtilExists(k) == WithKey(k) # {}

\* Identifiers for a new segment: the kernel's sequence number keeps an
\* identifier a call still holds from naming another segment.
FreeIds == {s \in Segs : seg[s].state = "free" /\ \A p \in Procs : mFd[p] # s}

\* The segments once mapping x is gone: one marked for destruction goes with
\* its last mapping.
Unmapped(sg, m) ==
  [s \in Segs |-> IF sg[s].state = "dest" /\ Mappings(m, s) = {}
                  THEN [sg[s] EXCEPT !.state = "free"] ELSE sg[s]]

shmctl_IPC_RMID(s) ==
  [seg EXCEPT ![s].state = IF Mappings(map, s) = {} THEN "free" ELSE "dest"]

(* The file system's view. *)

\* An inode stays in use while a descriptor refers to it.
FreeInodes == {i \in Inodes : i # lock.ino /\ \A p \in Procs : fd[p] # i}

\* fopen (SMC_LOCKFILE, "a") leaves the lock file as f, creating it if absent.
fopen_a(f) ==
  \/ lock.ino # NoFile /\ f = lock
  \/ lock.ino = NoFile /\ \E i \in FreeInodes : f = [ino |-> i, written |-> FALSE]

fopenFails == faults < MaxFaults /\ faults' = faults + 1

------------------------------------------------------------------------------
Outside == {"closed", "open", "null", "dead"}
PC == Outside \cup {"append", "ftok", "inited", "shmat", "lockfile", "clear",
                    "stat", "shmdt", "rmid", "unlink"}

Init ==
  /\ lock = [ino |-> NoFile, written |-> FALSE]
  /\ seg = [s \in Segs |-> [state |-> "free", key |-> ERR, size |-> 0, cpid |-> Nobody]]
  /\ mem = [s \in Segs |-> "zero"]
  /\ map = [x \in Procs \X Sessions |-> NoSeg]
  /\ pc = [p \in Procs |-> "closed"]
  /\ sess = [p \in Procs |-> 1]
  /\ key = [p \in Procs |-> ERR]
  /\ fd = [p \in Procs |-> NoFile]
  /\ new = [p \in Procs |-> FALSE]
  /\ create = [p \in Procs |-> FALSE]
  /\ mFd = [p \in Procs |-> NoSeg]
  /\ addr = [p \in Procs |-> NoSeg]
  /\ nattch = [p \in Procs |-> 0]
  /\ crashes = 0
  /\ faults = 0

Goto(p, to) == pc' = [pc EXCEPT ![p] = to]

\* Where clients serialise themselves, a call starts when no other process is
\* between opening the lock file and the return of its call.
MayStart(p) == Exclusive => \A q \in Procs \ {p} : pc[q] \in Outside

------------------------------------------------------------------------------
(* shmUtilInit *)

\* ftell: the segment is new iff the append position is 0.
IsNew(f) == ~f.written

\* fopen and ftell.
shmUtilInit_fopen(p) ==
  /\ pc[p] = "closed"
  /\ sess[p] <= MaxSessions
  /\ MayStart(p)
  /\ Goto(p, "append")
  /\ \E f \in [ino : Inodes, written : BOOLEAN] :
       /\ fopen_a(f)
       /\ lock' = f
       /\ fd' = [fd EXCEPT ![p] = f.ino]
       /\ new' = [new EXCEPT ![p] = IsNew(f)]
  /\ UNCHANGED <<seg, mem, map, sess, key, create, mFd, addr, nattch, budgets>>

\* fopen fails: *new stays FALSE and the key is ERR.
shmUtilInit_fail(p) ==
  /\ pc[p] = "closed"
  /\ sess[p] <= MaxSessions
  /\ MayStart(p)
  /\ Goto(p, "inited")
  /\ fopenFails
  /\ new' = [new EXCEPT ![p] = FALSE]
  /\ key' = [key EXCEPT ![p] = ERR]
  /\ UNCHANGED <<lock, seg, mem, map, sess, fd, create, mFd, addr, nattch, crashes>>

\* fprintf, fflush, fclose: the pid goes to the file that was opened, which
\* may have been unlinked since.
shmUtilInit_append(p) ==
  /\ pc[p] = "append"
  /\ Goto(p, "ftok")
  /\ lock' = IF lock.ino = fd[p] THEN [lock EXCEPT !.written = TRUE] ELSE lock
  /\ fd' = [fd EXCEPT ![p] = NoFile]
  /\ UNCHANGED <<seg, mem, map, sess, key, new, create, mFd, addr, nattch, budgets>>

ftokUnchecked == lock.ino                       \* mutant: no ERR
\* ftok stats the name again: ERR if the file is gone by now.
ftok == IF lock.ino = NoFile THEN ERR ELSE lock.ino

shmUtilInit_ftok(p) ==
  /\ pc[p] = "ftok"
  /\ Goto(p, "inited")
  /\ key' = [key EXCEPT ![p] = ftok]
  /\ UNCHANGED <<lock, seg, mem, map, sess, fd, new, create, mFd, addr, nattch, budgets>>

------------------------------------------------------------------------------
(* shmUtilAttach *)

\* The call returns NULL.
AttachReturnsNull(p) ==
  /\ Goto(p, "null")
  /\ mFd' = [mFd EXCEPT ![p] = NoSeg]
  /\ UNCHANGED <<sess, key, fd, new, addr, nattch>>

\* size == 0 is refused before anything happens.
shmUtilAttach_badParameter(p) ==
  /\ pc[p] = "inited"
  /\ 0 \in Sizes
  /\ AttachReturnsNull(p)
  /\ UNCHANGED <<lock, seg, mem, map, create, budgets>>

CreatesAlways(c, k) == c                        \* mutant: as with IPC_PRIVATE
\* IPC_CREAT makes a segment when the key has none.
CreatesNew(c, k) == c /\ WithKey(k) = {}

\* shmget: the segment of the key, a new one under IPC_CREAT, or an error
\* (ENOENT, EINVAL, or ENOSPC when the kernel has no identifier left).
shmUtilAttach_shmget(p) ==
  /\ pc[p] = "inited"
  /\ \E n \in Sizes \ {0}, c \in Creates :
       /\ create' = [create EXCEPT ![p] = c]
       /\ \/ \E s \in Segs :
               /\ shmget(key[p], n, s)
               /\ Goto(p, "shmat")
               /\ mFd' = [mFd EXCEPT ![p] = s]
               /\ UNCHANGED <<seg, mem>>
          \/ \E s \in Segs :
               /\ CreatesNew(c, key[p]) /\ s \in FreeIds
               /\ Goto(p, "shmat")
               /\ mFd' = [mFd EXCEPT ![p] = s]
               /\ seg' = [seg EXCEPT ![s] = [state |-> "live", key |-> key[p], size |-> n, cpid |-> p]]
               /\ mem' = [mem EXCEPT ![s] = "zero"]
          \/ /\ shmget(key[p], n, NoSeg)
             /\ CreatesNew(c, key[p]) => FreeIds = {}
             /\ Goto(p, "null")
             /\ UNCHANGED <<mFd, seg, mem>>
       /\ UNCHANGED <<lock, map, sess, key, fd, new, addr, nattch, budgets>>

shmatUnchecked(p) == FALSE                      \* mutant: ERR is not looked for
shmatFails(p) == seg[mFd[p]].state = "free"

\* shmat works on an identifier until the segment is gone, even when it is
\* already marked for destruction.
shmUtilAttach_shmat(p) ==
  /\ pc[p] = "shmat"
  /\ IF shmatFails(p)
     THEN AttachReturnsNull(p) /\ UNCHANGED <<map, create>>
     ELSE /\ Goto(p, "lockfile")
          /\ map' = [map EXCEPT ![Cur(p)] = mFd[p]]
          /\ UNCHANGED clientVars
  /\ UNCHANGED <<lock, seg, mem, budgets>>

\* The lock file is opened by name again: recreated (with another inode) if it
\* was unlinked meanwhile.
shmUtilAttach_lockfile(p) ==
  /\ pc[p] = "lockfile"
  /\ Goto(p, "clear")
  /\ \E f \in [ino : Inodes, written : BOOLEAN] :
       fopen_a(f) /\ lock' = [f EXCEPT !.written = TRUE]
  /\ UNCHANGED <<seg, mem, map, clientVars, budgets>>

\* When that fails the call returns NULL with the segment still mapped.
shmUtilAttach_lockfileFails(p) ==
  /\ pc[p] = "lockfile"
  /\ AttachReturnsNull(p)
  /\ fopenFails
  /\ UNCHANGED <<lock, seg, mem, map, create, crashes>>

\* memset of the whole segment if *create, whoever created it.
shmUtilAttach_clear(p) ==
  /\ pc[p] = "clear"
  /\ Goto(p, "open")
  /\ mem' = IF create[p] THEN [mem EXCEPT ![mFd[p]] = "zero"] ELSE mem
  /\ addr' = [addr EXCEPT ![p] = mFd[p]]
  /\ mFd' = [mFd EXCEPT ![p] = NoSeg]
  /\ UNCHANGED <<lock, seg, map, sess, key, fd, new, create, nattch, budgets>>

------------------------------------------------------------------------------
(* shmUtilDetach *)

\* What the calls and the client kept in local variables is gone.
ForgetLocals(p) ==
  /\ key' = [key EXCEPT ![p] = ERR]
  /\ new' = [new EXCEPT ![p] = FALSE]
  /\ create' = [create EXCEPT ![p] = FALSE]
  /\ mFd' = [mFd EXCEPT ![p] = NoSeg]
  /\ addr' = [addr EXCEPT ![p] = NoSeg]
  /\ nattch' = [nattch EXCEPT ![p] = 0]

EndSession(p) ==
  /\ Goto(p, "closed")
  /\ sess' = [sess EXCEPT ![p] = @ + 1]
  /\ ForgetLocals(p)

\* shmget: without a segment of this key the call returns with the memory
\* still mapped.
shmUtilDetach_shmget(p) ==
  /\ pc[p] \in {"open", "null"}
  /\ MayStart(p)
  /\ \/ \E s \in Segs :
          /\ shmget(key[p], DetachSize, s)
          /\ Goto(p, "stat")
          /\ mFd' = [mFd EXCEPT ![p] = s]
          /\ UNCHANGED <<sess, key, new, create, addr, nattch>>
     \/ /\ shmget(key[p], DetachSize, NoSeg)
        /\ EndSession(p)
  /\ UNCHANGED <<lock, seg, mem, map, fd, budgets>>

\* shmctl (IPC_STAT): the snapshot everything below is decided on.
shmUtilDetach_stat(p) ==
  /\ pc[p] = "stat"
  /\ IF seg[mFd[p]].state = "free"
     THEN EndSession(p)
     ELSE /\ Goto(p, "shmdt")
          /\ nattch' = [nattch EXCEPT ![p] = shm_nattch(mFd[p])]
          /\ UNCHANGED <<sess, key, new, create, mFd, addr>>
  /\ UNCHANGED <<lock, seg, mem, map, fd, budgets>>

DetachesIfLast(p) == addr[p] # NoSeg /\ nattch[p] = 1  \* mutant: under the test below
Detaches(p) == addr[p] # NoSeg

\* shmdt (address): fails without consequence on a NULL address, also on one
\* that is NULL although the segment is mapped (shmUtilAttach_lockfileFails).
shmUtilDetach_shmdt(p) ==
  /\ pc[p] = "shmdt"
  /\ Goto(p, "rmid")
  /\ IF Detaches(p)
     THEN /\ map' = [map EXCEPT ![Cur(p)] = NoSeg]
          /\ seg' = Unmapped(seg, map')
     ELSE UNCHANGED <<map, seg>>
  /\ addr' = [addr EXCEPT ![p] = NoSeg]
  /\ UNCHANGED <<lock, mem, sess, key, fd, new, create, mFd, nattch, budgets>>

NoneLeft(p) == nattch[p] = 0                    \* mutant: as if counted after shmdt
LastUser(p) == nattch[p] = 1

NotRemoved(p) == seg                            \* mutant: no IPC_RMID
\* IPC_RMID fails without consequence on a segment that is gone by now.
Removed(p) == IF seg[mFd[p]].state = "live" THEN shmctl_IPC_RMID(mFd[p]) ELSE seg

\* shmctl (IPC_RMID), decided on the snapshot.
shmUtilDetach_rmid(p) ==
  /\ pc[p] = "rmid"
  /\ IF LastUser(p)
     THEN /\ Goto(p, "unlink")
          /\ seg' = Removed(p)
          /\ UNCHANGED locals
     ELSE /\ EndSession(p)
          /\ UNCHANGED seg
  /\ UNCHANGED <<lock, mem, map, fd, budgets>>

\* clearLock: unlink by name, whichever file that is now.
shmUtilDetach_unlink(p) ==
  /\ pc[p] = "unlink"
  /\ EndSession(p)
  /\ lock' = [ino |-> NoFile, written |-> FALSE]
  /\ UNCHANGED <<seg, mem, map, fd, budgets>>

------------------------------------------------------------------------------
(* The clients and their environment. *)

\* A client stores something in the memory it was given.
WriteMemory(p) ==
  /\ pc[p] = "open"
  /\ mem' = [mem EXCEPT ![addr[p]] = "used"]
  /\ UNCHANGED <<lock, seg, map, pc, clientVars, budgets>>

\* smcOpen returns NULL when shmUtilAttach did, and never detaches.
smcOpen_givesUp(p) ==
  /\ pc[p] = "null"
  /\ EndSession(p)
  /\ UNCHANGED <<lock, seg, mem, map, fd, budgets>>

\* The process dies (or exits without detaching): the kernel drops its
\* descriptors and mappings, and nothing else.
Die(p) ==
  /\ pc[p] # "dead"
  /\ crashes < MaxCrashes /\ crashes' = crashes + 1
  /\ Goto(p, "dead")
  /\ map' = [x \in Procs \X Sessions |-> IF x[1] = p THEN NoSeg ELSE map[x]]
  /\ seg' = Unmapped(seg, map')
  /\ fd' = [fd EXCEPT ![p] = NoFile]
  /\ ForgetLocals(p)
  /\ UNCHANGED <<lock, mem, sess, faults>>

Next == \E p \in Procs :
  \/ shmUtilInit_fopen(p) \/ shmUtilInit_fail(p)
  \/ shmUtilInit_append(p) \/ shmUtilInit_ftok(p)
  \/ shmUtilAttach_badParameter(p) \/ shmUtilAttach_shmget(p) \/ shmUtilAttach_shmat(p)
  \/ shmUtilAttach_lockfile(p) \/ shmUtilAttach_lockfileFails(p) \/ shmUtilAttach_clear(p)
  \/ shmUtilDetach_shmget(p) \/ shmUtilDetach_stat(p) \/ shmUtilDetach_shmdt(p)
  \/ shmUtilDetach_rmid(p) \/ shmUtilDetach_unlink(p)
  \/ WriteMemory(p) \/ smcOpen_givesUp(p) \/ Die(p)

Spec == Init /\ [][Next]_vars

------------------------------------------------------------------------------
(* Properties *)

Segments == [state : {"free", "live", "dest"}, key : Keys, size : Nat,
             cpid : Procs \cup {Nobody}]

\* Type correctness of the whole state.
TypeOK ==
  /\ lock \in [ino : Inodes \cup {NoFile}, written : BOOLEAN]
  /\ seg \in [Segs -> Segments]
  /\ mem \in [Segs -> {"zero", "used"}]
  /\ map \in [Procs \X Sessions -> Segs \cup {NoSeg}]
  /\ pc \in [Procs -> PC]
  /\ sess \in [Procs -> 1..(MaxSessions + 1)]
  /\ key \in [Procs -> Keys]
  /\ fd \in [Procs -> Inodes \cup {NoFile}]
  /\ new \in [Procs -> BOOLEAN]
  /\ create \in [Procs -> BOOLEAN]
  /\ mFd \in [Procs -> Segs \cup {NoSeg}]
  /\ addr \in [Procs -> Segs \cup {NoSeg}]
  /\ nattch \in [Procs -> Nat]
  /\ crashes \in 0..MaxCrashes
  /\ faults \in 0..MaxFaults

\* Memory a client was given stays usable until it detaches: whatever the
\* other processes remove, unlink or recreate, the address shmUtilAttach
\* returned is still mapped and its segment is not destroyed.
HeldMemoryIsMapped ==
  \A p \in Procs : addr[p] # NoSeg =>
    map[Cur(p)] = addr[p] /\ seg[addr[p]].state \in {"live", "dest"}

\* A finished session leaves memory mapped only in the ways the code admits:
\* shmUtilDetach's shmget no longer finds the segment, because another process
\* removed it or because it is smaller than the 10 bytes asked for; or the lock
\* file could not be opened in shmUtilAttach.
LeaksOnlyUnfindable ==
  faults = 0 =>
    \A p \in Procs, n \in Sessions :
      n < sess[p] /\ map[<<p, n>>] # NoSeg =>
        seg[map[<<p, n>>]].state = "dest" \/ seg[map[<<p, n>>]].size < DetachSize

\* smcOpen: "If the cache already exists we simply attach to it": two clients
\* that have the cache open at the same time share one segment.
OneCache ==
  \A p, q \in Procs : addr[p] # NoSeg /\ addr[q] # NoSeg => addr[p] = addr[q]

\* shmUtilDetach: "Clear the lock file and completely free the segment if we're
\* the last process using it": when every client has closed the cache and none
\* of them died, neither the segment nor the lock file is left.
LastDetachFrees ==
  crashes = 0 /\ (\A p \in Procs : pc[p] = "closed") =>
    /\ lock.ino = NoFile
    /\ \A s \in Segs : seg[s].state = "free"

\* A segment that a dead client left behind is never out of reach: the lock
\* file that leads shmUtilInit to its key is still there, so the next client
\* finds it (and the last to detach frees it).
LockNamesSegment ==
  \A s \in Live : lock.ino = seg[s].key

\* shmUtilInit's *new flag can be trusted: a client told that the segment is
\* new does not find one in use under its key.
NewMeansUnused ==
  \A p \in Procs : pc[p] = "inited" /\ new[p] => ~shmUtilExists(key[p])

\* What the lock file tells a client is true of the segment: its inode leads to
\* it, and an empty file means that nobody has used it.
FileTellsSegment == LockNamesSegment /\ NewMeansUnused
=============================================================================
