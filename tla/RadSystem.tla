------------------------------ MODULE RadSystem ------------------------------
(***************************************************************************)
(* How processes join and leave a radlib system (radsystem.c, on top of    *)
(* radsemaphores.c and radshmem.c): a global semaphore and a global        *)
(* segment that counts the processes attached, and per system a set of     *)
(* semaphores, the buffer segment and the queue table, made by the first   *)
(* process of the system and destroyed by the last.                        *)
(* A System V object is named by its generation: a handle to a removed     *)
(* object is stale, and semop on it fails, which semTake ignores.          *)
(***************************************************************************)
EXTENDS Integers, FiniteSets, FiniteSetsExt

CONSTANTS
    SysProcs,               \* processes
    Systems,                \* system IDs
    OneAtATime,             \* TRUE: calls of radSystemInit and radSystemExit never overlap
    MaxFaults, MaxCalls     \* bounds: failing system calls and crashes; calls

ASSUME SysAssumption ==
    /\ IsFiniteSet(SysProcs) /\ Systems # {}
    /\ OneAtATime \in BOOLEAN /\ MaxFaults \in Nat /\ MaxCalls \in Nat

Segments == {"buffers", "table"}        \* KEY_BUFFERS_SHMEM, KEY_MSGQ

VARIABLES
    sysSem,                 \* the global semaphore: [gen, val]; gen 0 when there is none
    sysShm,                 \* the global segment: [there, keyed, numAttached, numprocs];
                            \* keyed when each system has keys of its own in it
    semSet,                 \* by the keys of a system, its set: [gen, val]; a val per segment
    segment,                \* by those keys, segment -> generation, 0 when there is none
    sysPc,                  \* where a process is
    sysOf,                  \* the system it is in, or entering
    handle,                 \* its handles: global semaphore, set and segments
    sysTorn,                \* history: a process died between semTake and semGive, or a
                            \* call that failed left a segment behind that it had made
    sysGen, sysFaults, sysCalls     \* generations given out; faults and calls so far

sysVars == <<sysSem, sysShm, semSet, segment, sysPc, sysOf, handle, sysTorn, sysGen,
             sysFaults, sysCalls>>

NoHandle == [sem |-> 0, set |-> 0, buffers |-> 0, table |-> 0]
NoSemSet == [gen |-> 0, val |-> [k \in Segments |-> 0]]
NoShm == [there |-> FALSE, keyed |-> TRUE, numAttached |-> 0, numprocs |-> [s \in Systems |-> 0]]

\* A segment that was made and not yet filled: every keyBase in it is 0, the
\* base of system 0, so that all systems have the same keys.
Zeroed == [NoShm EXCEPT !.there = TRUE, !.keyed = FALSE]
SystemZero == CHOOSE s \in Systems : TRUE

\* Whose keys a process uses (it read them from the segment it is attached to).
Area(p) == IF sysShm.keyed THEN sysOf[p] ELSE SystemZero

\* The steps between semTake and semGive.
Critical == {"shm", "sems", "buffers", "table", "enter", "leave", "detach"}
Inside(p) == sysPc[p] \in Critical
Calling(p) == sysPc[p] \notin {"out", "in", "dead"}

SysGoto(p, from, to) == sysPc[p] = from /\ sysPc' = [sysPc EXCEPT ![p] = to]

Fault == sysFaults < MaxFaults /\ sysFaults' = sysFaults + 1
NewCall ==
    /\ sysCalls < MaxCalls /\ sysCalls' = sysCalls + 1
    /\ OneAtATime => \A p \in SysProcs : ~Calling(p)

-----------------------------------------------------------------------------
(* semInit, semTake, semGive, semDestroy *)

\* semInit makes the semaphore or finds it, and sets it to 1 either way.
semInit(p, s) ==
    /\ NewCall
    /\ SysGoto(p, "out", "take")
    /\ LET g == IF sysSem.gen = 0 THEN sysGen + 1 ELSE sysSem.gen IN
        /\ sysSem' = [gen |-> g, val |-> 1]
        /\ sysGen' = Max({sysGen, g})
        /\ handle' = [handle EXCEPT ![p] = [NoHandle EXCEPT !.sem = g]]
    /\ sysOf' = [sysOf EXCEPT ![p] = s]
    /\ UNCHANGED <<sysShm, semSet, segment, sysFaults, sysTorn>>

\* A semaphore that is gone lets everybody through.
Taken(p) == IF handle[p].sem # sysSem.gen THEN UNCHANGED sysSem
            ELSE sysSem.val > 0 /\ sysSem' = [sysSem EXCEPT !.val = @ - 1]

Given(p) == IF handle[p].sem # sysSem.gen THEN sysSem ELSE [sysSem EXCEPT !.val = @ + 1]

InitTake(p) ==
    /\ SysGoto(p, "take", "shm") /\ Taken(p)
    /\ UNCHANGED <<sysShm, semSet, segment, sysOf, handle, sysGen, sysFaults, sysCalls, sysTorn>>

-----------------------------------------------------------------------------
(* radSystemInitBuffers, inside the critical section *)

\* One more process on a segment that is there.
Attached == [sysShm EXCEPT !.numAttached = @ + 1]

\* The global segment is attached to or made.  A failure returns without
\* semGive; a segment that shmget made and shmat could not attach stays, zeroed.
AttachShm(p) ==
    /\ \/ /\ SysGoto(p, "shm", "sems")
          /\ sysShm' = IF sysShm.there THEN Attached
                       ELSE [NoShm EXCEPT !.there = TRUE, !.numAttached = 1]
          /\ UNCHANGED <<sysFaults, sysTorn>>
       \/ /\ Fault /\ SysGoto(p, "shm", "out")
          /\ UNCHANGED <<sysShm, sysTorn>>
       \/ /\ Fault /\ SysGoto(p, "shm", "out")
          /\ ~sysShm.there /\ sysShm' = Zeroed /\ sysTorn' = TRUE
    /\ UNCHANGED <<sysSem, semSet, segment, sysOf, handle, sysGen, sysCalls>>

FirstAlways(p) == TRUE
FirstOfSystem(p) == sysShm.numprocs[sysOf[p]] = 0

\* Every other failure gives the semaphore back; numAttached stays counted, and
\* the first process destroys the set again.
InitGivesUp(p, at) == SysGoto(p, at, "out") /\ sysSem' = Given(p)
SetGone(p) == [semSet EXCEPT ![Area(p)] = NoSemSet]

\* radSemProcessInit: the first process destroys what set there is, and semget
\* makes one with all counts 0 if there is none.
GetSems(p) ==
    /\ \/ /\ SysGoto(p, "sems", "buffers")
          /\ LET a == Area(p) IN
             IF FirstOfSystem(p) \/ semSet[a].gen = 0
             THEN /\ semSet' = [semSet EXCEPT ![a] = [NoSemSet EXCEPT !.gen = sysGen + 1]]
                  /\ sysGen' = sysGen + 1
             ELSE UNCHANGED <<semSet, sysGen>>
          /\ handle' = [handle EXCEPT ![p].set = semSet'[Area(p)].gen]
          /\ UNCHANGED <<sysSem, sysFaults>>
       \/ /\ Fault /\ InitGivesUp(p, "sems")
          /\ semSet' = IF FirstOfSystem(p) THEN SetGone(p) ELSE semSet
          /\ UNCHANGED <<sysGen, handle>>
    /\ UNCHANGED <<sysShm, segment, sysOf, sysCalls, sysTorn>>

\* radShmemInit: a segment that is there keeps its semaphore; one that is made
\* gets a semaphore with count 1.
SetUp(p, k) ==
    LET a == Area(p) IN
    IF segment[a][k] = 0 /\ semSet[a].gen = handle[p].set
    THEN [semSet EXCEPT ![a].val[k] = 1] ELSE semSet

radShmemInit(p, k) ==
    LET a == Area(p) IN
    /\ semSet' = SetUp(p, k)
    /\ IF segment[a][k] # 0
       THEN /\ handle' = [handle EXCEPT ![p][k] = segment[a][k]]
            /\ UNCHANGED <<segment, sysGen>>
       ELSE /\ segment' = [segment EXCEPT ![a][k] = sysGen + 1]
            /\ handle' = [handle EXCEPT ![p][k] = sysGen + 1]
            /\ sysGen' = sysGen + 1

\* When it fails the others are cleared up, left: but a segment that shmget made
\* and shmat could not attach stays.
radShmemInitFails(p, k, left) ==
    /\ Fault
    /\ \/ /\ segment' = left
          /\ UNCHANGED <<sysGen, sysTorn>>
       \/ /\ segment[Area(p)][k] = 0
          /\ segment' = [left EXCEPT ![Area(p)][k] = sysGen + 1]
          /\ sysGen' = sysGen + 1 /\ sysTorn' = TRUE

\* radBuffersInit: attaching to nothing is an error.
GetBuffers(p) ==
    /\ \/ /\ SysGoto(p, "buffers", "table")
          /\ FirstOfSystem(p) \/ segment[Area(p)]["buffers"] # 0
          /\ radShmemInit(p, "buffers")
          /\ UNCHANGED <<sysSem, sysFaults, sysTorn>>
       \/ /\ InitGivesUp(p, "buffers")
          /\ FirstOfSystem(p) \/ segment[Area(p)]["buffers"] # 0
          /\ radShmemInitFails(p, "buffers", segment)
          /\ semSet' = IF FirstOfSystem(p) THEN SetGone(p) ELSE semSet
          /\ UNCHANGED handle
       \/ /\ InitGivesUp(p, "buffers")
          /\ ~FirstOfSystem(p) /\ segment[Area(p)]["buffers"] = 0
          /\ UNCHANGED <<segment, semSet, handle, sysGen, sysFaults, sysTorn>>
    /\ UNCHANGED <<sysShm, sysOf, sysCalls>>

\* A lock passes when the semaphore has a count, or is gone.
LockPasses(p, k) == semSet'[Area(p)].gen = handle[p].set => semSet'[Area(p)].val[k] > 0

\* radQueueSystemInit: the first process clears the table under its lock, and
\* waits for ever with the global semaphore when that was never set up.
GetTable(p) ==
    /\ \/ /\ SysGoto(p, "table", "enter")
          /\ radShmemInit(p, "table")
          /\ FirstOfSystem(p) => LockPasses(p, "table")
          /\ UNCHANGED <<sysSem, sysFaults, sysTorn>>
       \/ /\ InitGivesUp(p, "table") /\ FirstOfSystem(p)
          /\ radShmemInitFails(p, "table", [segment EXCEPT ![Area(p)]["buffers"] = 0])
          /\ semSet' = SetGone(p)
          /\ UNCHANGED handle
       \/ /\ InitGivesUp(p, "table") /\ ~FirstOfSystem(p)
          /\ radShmemInitFails(p, "table", segment)
          /\ semSet' \in {semSet, SetUp(p, "table")}
          /\ UNCHANGED handle
    /\ UNCHANGED <<sysShm, sysOf, sysCalls>>

Enter(p) ==
    /\ SysGoto(p, "enter", "in")
    /\ sysShm' = [sysShm EXCEPT !.numprocs[sysOf[p]] = @ + 1]
    /\ sysSem' = Given(p)
    /\ UNCHANGED <<semSet, segment, sysOf, handle, sysGen, sysFaults, sysCalls, sysTorn>>

-----------------------------------------------------------------------------
(* radSystemExit *)

SystemExit(p) ==
    /\ NewCall
    /\ SysGoto(p, "in", "exitTake")
    /\ UNCHANGED <<sysSem, sysShm, semSet, segment, sysOf, handle, sysGen, sysFaults, sysTorn>>

ExitTake(p) ==
    /\ SysGoto(p, "exitTake", "leave") /\ Taken(p)
    /\ UNCHANGED <<sysShm, semSet, segment, sysOf, handle, sysGen, sysFaults, sysCalls, sysTorn>>

\* The count the caller leaves behind makes it the last of its system.
LastOfSystem(left) == left = 0

\* The last process of the system destroys the table, the buffers and the set.
Leave(p) ==
    LET s == sysOf[p]
        a == Area(p)
        left == sysShm.numprocs[s] - 1
    IN  /\ SysGoto(p, "leave", "detach")
        /\ sysShm' = [sysShm EXCEPT !.numprocs[s] = left]
        /\ IF LastOfSystem(left)
           THEN /\ semSet' = SetGone(p)
                /\ segment' = [segment EXCEPT ![a] =
                        [k \in Segments |-> IF @[k] = handle[p][k] THEN 0 ELSE @[k]]]
           ELSE UNCHANGED <<semSet, segment>>
        /\ UNCHANGED <<sysSem, sysOf, handle, sysGen, sysFaults, sysCalls, sysTorn>>

\* The last process of all destroys the global segment and semaphore.
Detach(p) ==
    /\ SysGoto(p, "detach", "out")
    /\ IF sysShm.numAttached = 1
       THEN /\ sysShm' = NoShm
            /\ sysSem' = IF handle[p].sem = sysSem.gen THEN [gen |-> 0, val |-> 0] ELSE sysSem
       ELSE /\ sysShm' = [sysShm EXCEPT !.numAttached = @ - 1]
            /\ sysSem' = Given(p)
    /\ handle' = [handle EXCEPT ![p] = NoHandle]
    /\ UNCHANGED <<semSet, segment, sysOf, sysGen, sysFaults, sysCalls, sysTorn>>

\* A process dies anywhere, also between making the global segment and filling
\* it.  No semaphore uses SEM_UNDO.
SysCrash(p) ==
    /\ sysPc[p] # "dead" /\ sysPc[p] # "out" /\ Fault
    /\ sysPc' = [sysPc EXCEPT ![p] = "dead"]
    /\ sysTorn' = (sysTorn \/ Inside(p))
    /\ \/ UNCHANGED sysShm
       \/ sysPc[p] = "shm" /\ ~sysShm.there /\ sysShm' = Zeroed
    /\ UNCHANGED <<sysSem, semSet, segment, sysOf, handle, sysGen, sysCalls>>

-----------------------------------------------------------------------------
SysInit ==
    /\ sysSem = [gen |-> 0, val |-> 0]
    /\ sysShm = NoShm
    /\ semSet = [s \in Systems |-> NoSemSet]
    /\ segment = [s \in Systems |-> [k \in Segments |-> 0]]
    /\ sysPc = [p \in SysProcs |-> "out"]
    /\ sysOf \in [SysProcs -> {CHOOSE s \in Systems : TRUE}]
    /\ handle = [p \in SysProcs |-> NoHandle]
    /\ sysTorn = FALSE /\ sysGen = 0 /\ sysFaults = 0 /\ sysCalls = 0

SysNext ==
    \E p \in SysProcs :
        \/ \E s \in Systems : semInit(p, s)
        \/ InitTake(p) \/ AttachShm(p) \/ GetSems(p) \/ GetBuffers(p) \/ GetTable(p)
        \/ Enter(p) \/ SystemExit(p) \/ ExitTake(p) \/ Leave(p) \/ Detach(p) \/ SysCrash(p)

SysSpec == SysInit /\ [][SysNext]_sysVars

-----------------------------------------------------------------------------
(* Properties *)

\* The facilities a process got from radSystemInit stay until it has left:
\* its handles are those of the objects that exist, and the semaphores that
\* guard the segments were set up.  (Not after a process died half way through
\* radSystemInit or a failed call left a segment it had made: the next first
\* process attaches to that segment with a semaphore of count 0, and every lock
\* of it waits for ever; after a zeroed global segment the systems even share
\* their keys.)
MembersHaveFacilities ==
    ~sysTorn => \A p \in SysProcs : sysPc[p] \in {"in", "exitTake", "leave"} =>
        LET s == sysOf[p] IN
        /\ handle[p].set = semSet[s].gen
        /\ \A k \in Segments : handle[p][k] = segment[s][k] /\ semSet[s].val[k] = 1
        /\ sysShm.numprocs[s] > 0

\* The counts never run ahead of the processes that are there: they can only
\* be too high (after a crash, or an Init that failed), so that nothing is
\* destroyed early.
CountsNeverLow ==
    LET In(s) == {p \in SysProcs : sysPc[p] \in {"in", "exitTake", "leave"} /\ sysOf[p] = s}
    IN  /\ \A s \in Systems : sysShm.numprocs[s] >= Cardinality(In(s))
        /\ sysShm.numAttached >= Cardinality(UNION {In(s) : s \in Systems})

\* Without faults the last process leaves nothing behind.
NothingLeftBehind ==
    (sysFaults = 0 /\ \A p \in SysProcs : sysPc[p] = "out")
        => /\ sysShm = NoShm /\ sysSem.gen = 0
           /\ \A s \in Systems : semSet[s] = NoSemSet /\ \A k \in Segments : segment[s][k] = 0

\* "initialize the system semaphore (just one), or attach to existing"
\* (radsystem.c): the semaphore admits one process to the steps between semTake
\* and semGive, also when another one attaches to it.  (semInit sets it to 1
\* again, so this holds only where calls do not overlap.)
OneInside == \A p, q \in SysProcs : Inside(p) /\ Inside(q) => p = q

\* radSystemInit and radSystemExit: nothing goes while it is used, and nothing
\* stays when it is not.
SystemSound == MembersHaveFacilities /\ CountsNeverLow /\ NothingLeftBehind
===============================================================================
