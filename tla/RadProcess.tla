------------------------------- MODULE RadProcess -------------------------------
(***************************************************************************)
(* The main loop of a radlib process (radprocess.c, radevents.c): a table  *)
(* of descriptors, the fd_set and the fdMax that select is given, the      *)
(* notify pipe that carries self-sent events, the message queue, and the   *)
(* exit flag that a signal handler sets.  Callbacks register and drop      *)
(* descriptors while radProcessWait walks the table, and the kernel hands  *)
(* the number of a closed descriptor out again.                            *)
(***************************************************************************)
EXTENDS Integers, Sequences, FiniteSets, FiniteSetsExt

CONSTANTS
    SlotLast,               \* PROC_FD_USER_LAST
    FdLast,                 \* highest descriptor number the kernel hands out
    Events,                 \* event bits
    SysBufs,                \* system buffers
    LateRegister            \* callbacks register descriptors too, not only the main program

ASSUME ProcessAssumption ==
    /\ SlotLast \in Nat /\ SlotLast > 3 /\ FdLast \in Nat /\ FdLast > 4
    /\ SysBufs \in Nat /\ LateRegister \in BOOLEAN

PIPE_READ == 0
PIPE_WRITE == 1
MSG_QUEUE == 2
USER_FIRST == 3
Slots == PIPE_READ .. SlotLast
UserSlots == USER_FIRST .. SlotLast
NoFd == -1

\* Descriptor numbers in the order the program gets them: stdin, pipe, queue, its own.
Stdin == 0
PipeRead == 1
PipeWrite == 2
QueueFd == 3
UserFds == 4 .. FdLast

VARIABLES
    fds, fdSet, fdMax,      \* procData's table, set and maximum
    exitFlag,               \* procData.exitFlag
    openFds,                \* descriptors that are open in the kernel
    hasData,                \* of stdin and the user's, those with something to read
    selfEvents,             \* self-sent events in the notify pipe
    inbox,                  \* messages in the queue; an event mask or "msg"
    freeBufs, kept,         \* system buffers that are free; that the program kept
    holding,                \* what becomes of the buffer of the running callback
    loop,                   \* where radProcessWait is
    timed,                  \* the program gives radProcessWait a timeout
    slot, readFds,          \* its i and readFds
    missed,                 \* a registered descriptor was closed that the ByFd search did not find
    staleServe              \* a callback ran for a descriptor with nothing to read

procVars == <<fds, fdSet, fdMax, exitFlag, openFds, hasData, selfEvents, inbox, freeBufs, kept,
              holding, loop, timed, slot, readFds, missed, staleServe>>
tableVars == <<fds, fdSet, fdMax>>
msgVars == <<selfEvents, inbox, freeBufs, kept, holding>>
waitVars == <<loop, timed, slot, readFds>>
histVars == <<missed, staleServe>>

-----------------------------------------------------------------------------
(* The table *)

Registered == {fds[i] : i \in Slots \ {PIPE_WRITE}} \ {NoFd}

procAllocIOBlock(i, fd) ==
    /\ fds' = [fds EXCEPT ![i] = fd]
    /\ fdMax' = IF fd > fdMax THEN fd ELSE fdMax
    /\ fdSet' = fdSet \cup {fd}

\* fdMax is recomputed when the highest goes, over the write end of the pipe too.
MaxForgotten(i) == 0
MaxWithout(i) == Max({0} \cup {fds[j] : j \in Slots \ {i}})

procFreeIOBlock(i) ==
    /\ fdSet' = fdSet \ {fds[i]}
    /\ fdMax' = IF fdMax = fds[i] THEN MaxWithout(i) ELSE fdMax
    /\ fds' = [fds EXCEPT ![i] = NoFd]

FreeSlots == {i \in UserSlots : fds[i] = NoFd}

-----------------------------------------------------------------------------
(* Initialisation: after radProcessInit the pipe and the queue are registered *)

ProcInit ==
    /\ fds = [i \in Slots |-> IF i = PIPE_READ THEN PipeRead
                              ELSE IF i = PIPE_WRITE THEN PipeWrite
                              ELSE IF i = MSG_QUEUE THEN QueueFd ELSE NoFd]
    /\ fdSet = {PipeRead, QueueFd}
    /\ fdMax = QueueFd
    /\ exitFlag = FALSE /\ openFds = {Stdin, PipeRead, PipeWrite, QueueFd} /\ hasData = {}
    /\ selfEvents = <<>> /\ inbox = <<>>
    /\ freeBufs = SysBufs /\ kept = 0 /\ holding = "none"
    /\ loop = "idle" /\ timed \in BOOLEAN /\ slot = 0 /\ readFds = {}
    /\ missed = FALSE /\ staleServe = FALSE

-----------------------------------------------------------------------------
(* What the program calls, between waits or from a callback *)

\* A program that has closed a descriptor the loop still selects on makes no more calls here:
\* its next wait fails.
Running == loop \in {"idle", "callback"} /\ ~missed

MayRegister == Running /\ (loop = "callback" => LateRegister)

\* Open a device or a socket: the kernel gives the lowest free number.  A table that is full
\* refuses it and the program closes it.
radProcessIORegisterDescriptor ==
    /\ MayRegister /\ UserFds \ openFds # {}
    /\ LET fd == Min(UserFds \ openFds)
       IN IF FreeSlots = {}
          THEN UNCHANGED <<tableVars, openFds>>
          ELSE /\ procAllocIOBlock(Min(FreeSlots), fd)
               /\ openFds' = openFds \cup {fd}
    /\ UNCHANGED <<exitFlag, hasData, msgVars, waitVars, histVars>>

radProcessIORegisterSTDIN ==
    /\ MayRegister /\ Stdin \notin Registered /\ FreeSlots # {}
    /\ procAllocIOBlock(Min(FreeSlots), Stdin)
    /\ UNCHANGED <<exitFlag, openFds, hasData, msgVars, waitVars, histVars>>

\* Drop a descriptor through its id, and close it.
radProcessIODeRegisterDescriptor(i) ==
    /\ Running /\ fds[i] # NoFd
    /\ procFreeIOBlock(i)
    /\ openFds' = openFds \ ({fds[i]} \ {Stdin})
    /\ hasData' = hasData \ ({fds[i]} \ {Stdin})
    /\ UNCHANGED <<exitFlag, msgVars, waitVars, histVars>>

\* The search ends before USER_LAST.
ByFdSearched == USER_FIRST .. SlotLast - 1

\* Drop a descriptor through its number, and close it whatever the call answered.
radProcessIODeRegisterDescriptorByFd(fd) ==
    /\ Running /\ fd \in Registered
    /\ LET found == {i \in ByFdSearched : fds[i] = fd}
       IN IF found # {}
          THEN procFreeIOBlock(Min(found)) /\ missed' = missed
          ELSE UNCHANGED tableVars /\ missed' = TRUE
    /\ openFds' = openFds \ {fd} /\ hasData' = hasData \ {fd}
    /\ UNCHANGED <<exitFlag, msgVars, waitVars, staleServe>>

\* radEventsSend to itself: a buffer with the event goes through the notify pipe.
SendSelf(e) ==
    /\ Running /\ freeBufs > 0
    /\ freeBufs' = freeBufs - 1
    /\ selfEvents' = Append(selfEvents, e)
    /\ UNCHANGED <<tableVars, exitFlag, openFds, hasData, inbox, kept, holding, waitVars, histVars>>

\* The program is done with a buffer it kept.
ReleaseKept ==
    /\ Running /\ kept > 0
    /\ kept' = kept - 1 /\ freeBufs' = freeBufs + 1
    /\ UNCHANGED <<tableVars, exitFlag, openFds, hasData, selfEvents, inbox, holding, waitVars, histVars>>

-----------------------------------------------------------------------------
(* The outside *)

DataArrives(fd) ==
    /\ fd \in openFds \ hasData /\ hasData' = hasData \cup {fd}
    /\ UNCHANGED <<tableVars, exitFlag, openFds, msgVars, waitVars, histVars>>

\* radEventsSend or radQueueSend of another process.
PeerSends(m) ==
    /\ loop # "stopped" /\ freeBufs > 0
    /\ freeBufs' = freeBufs - 1
    /\ inbox' = Append(inbox, m)
    /\ UNCHANGED <<tableVars, exitFlag, openFds, hasData, selfEvents, kept, holding, waitVars, histVars>>

\* A handler that calls radProcessSetExitFlag; select returns when it is waiting.
ExitSignal ==
    /\ loop # "stopped" /\ ~exitFlag
    /\ exitFlag' = TRUE
    /\ loop' = IF loop = "select" THEN "stopped" ELSE loop
    /\ UNCHANGED <<tableVars, openFds, hasData, msgVars, timed, slot, readFds, histVars>>

\* A signal that leaves the flag alone, SIGALRM, interrupts select: EINTR.
AlarmSignal ==
    /\ loop = "select"
    /\ loop' = IF exitFlag THEN "stopped" ELSE "idle"
    /\ UNCHANGED <<tableVars, exitFlag, openFds, hasData, msgVars, timed, slot, readFds, histVars>>

-----------------------------------------------------------------------------
(* radProcessWait *)

ExitSeen == exitFlag

\* The exit flag is tested; readFds is copied.
WaitEnter ==
    /\ loop = "idle"
    /\ IF ExitSeen
       THEN loop' = "stopped" /\ UNCHANGED readFds
       ELSE loop' = "tested" /\ readFds' = fdSet
    /\ UNCHANGED <<tableVars, exitFlag, openFds, hasData, msgVars, timed, slot, histVars>>

Ready(fd) ==
    \/ fd = PipeRead /\ selfEvents # <<>>
    \/ fd = QueueFd /\ inbox # <<>>
    \/ fd \in hasData
Examined == {fd \in readFds : fd <= fdMax}
ReadyFds == {fd \in Examined : Ready(fd)}

\* EBADF: a descriptor of the set is closed; the process gives up.
SelectFails ==
    /\ loop = "tested" /\ Examined \ openFds # {}
    /\ exitFlag' = TRUE /\ loop' = "stopped"
    /\ UNCHANGED <<tableVars, openFds, hasData, msgVars, timed, slot, readFds, histVars>>

SelectReady ==
    /\ loop \in {"tested", "select"} /\ Examined \subseteq openFds /\ ReadyFds # {}
    /\ readFds' = ReadyFds /\ loop' = "scan" /\ slot' = 0
    /\ UNCHANGED <<tableVars, exitFlag, openFds, hasData, msgVars, timed, histVars>>

SelectBlocks ==
    /\ loop = "tested" /\ Examined \subseteq openFds /\ ReadyFds = {}
    /\ loop' = "select"
    /\ UNCHANGED <<tableVars, exitFlag, openFds, hasData, msgVars, timed, slot, readFds, histVars>>

SelectTimesOut ==
    /\ loop = "select" /\ timed
    /\ loop' = "idle"
    /\ UNCHANGED <<tableVars, exitFlag, openFds, hasData, msgVars, timed, slot, readFds, histVars>>

\* The slots still to come whose descriptor is in the set select left.
Chirping == {i \in slot .. SlotLast : fds[i] # NoFd /\ fds[i] \in readFds}

\* procPipeReadCB, procQueueReadCB or the user's callback starts.
procPipeReadCB ==
    /\ selfEvents # <<>> /\ selfEvents' = Tail(selfEvents)
    /\ holding' = "release"
    /\ UNCHANGED <<inbox, hasData, staleServe>>

procQueueReadCB ==
    /\ inbox # <<>> /\ inbox' = Tail(inbox)
    /\ holding' \in IF Head(inbox) = "msg" THEN {"release", "keep"} ELSE {"release"}
    /\ UNCHANGED <<selfEvents, hasData, staleServe>>

UserCallback(fd) ==
    /\ staleServe' = (staleServe \/ fd \notin hasData)
    /\ hasData' = hasData \ {fd}
    /\ UNCHANGED <<selfEvents, inbox, holding>>

ScanServes ==
    /\ loop = "scan" /\ Chirping # {}
    /\ slot' = Min(Chirping) /\ loop' = "callback"
    /\ CASE slot' = PIPE_READ -> procPipeReadCB
         [] slot' = MSG_QUEUE -> procQueueReadCB
         [] OTHER -> UserCallback(fds[slot'])
    /\ UNCHANGED <<tableVars, exitFlag, openFds, freeBufs, kept, timed, readFds, missed>>

\* The loop goes on behind the slot it served.
FirstOnly == SlotLast + 1
NextSlot == slot + 1

Released == IF holding = "release" THEN 1 ELSE 0

\* The callback returns; the buffer is released unless the handler kept it.
CallbackReturns ==
    /\ loop = "callback"
    /\ freeBufs' = freeBufs + Released
    /\ kept' = kept + (IF holding = "keep" THEN 1 ELSE 0)
    /\ holding' = "none"
    /\ loop' = "scan" /\ slot' = NextSlot
    /\ UNCHANGED <<tableVars, exitFlag, openFds, hasData, selfEvents, inbox, timed, readFds, histVars>>

ScanEnds ==
    /\ loop = "scan" /\ Chirping = {}
    /\ loop' = "idle" /\ slot' = 0 /\ readFds' = {}
    /\ UNCHANGED <<tableVars, exitFlag, openFds, hasData, msgVars, timed, histVars>>

WaitStep == WaitEnter \/ SelectFails \/ SelectReady \/ SelectBlocks \/ ScanServes \/ CallbackReturns \/ ScanEnds

ProcNext ==
    \/ WaitStep \/ SelectTimesOut \/ ExitSignal \/ AlarmSignal
    \/ radProcessIORegisterDescriptor \/ radProcessIORegisterSTDIN \/ ReleaseKept
    \/ \E i \in UserSlots : radProcessIODeRegisterDescriptor(i)
    \/ \E fd \in UserFds : radProcessIODeRegisterDescriptorByFd(fd)
    \/ \E fd \in UserFds \cup {Stdin} : DataArrives(fd)
    \/ \E e \in Events : SendSelf(e) \/ PeerSends(e)
    \/ PeerSends("msg")

ProcSpec == ProcInit /\ [][ProcNext]_procVars

-----------------------------------------------------------------------------
(* Properties *)

\* procAllocIOBlock, procFreeIOBlock: however registrations, drops and reused numbers follow each
\* other, what select is asked about is what the table holds, all of it open (a closed descriptor
\* ends the process at the next wait) and none above fdMax.  The one way out is the descriptor in
\* the last slot, which radProcessIODeRegisterDescriptorByFd does not find.
SelectSeesTable ==
    ~missed => /\ fdSet = Registered /\ fdSet \subseteq openFds
               /\ \A fd \in fdSet : fd <= fdMax

\* radProcessWait works with a copy of the ready set while callbacks drop descriptors, their own
\* and others'.  As long as no callback registers a new one, none runs
\* and blocks in read for a descriptor that has nothing to read.
ServedHasData == LateRegister \/ missed \/ ~staleServe

\* Every system buffer that reaches the process, in the queue or through the notify pipe, is
\* released once or is the program's own; none is lost in the loop.
BuffersAccounted ==
    freeBufs + kept + Len(selfEvents) + Len(inbox) + (IF holding = "none" THEN 0 ELSE 1) = SysBufs

\* radProcessWait serves every registered descriptor that has something to read, however busy the
\* slots before it are.
ReadyIsServed ==
    \A fd \in UserFds : (fd \in Registered /\ fd \in hasData)
        ~> (fd \notin hasData \/ fd \notin Registered \/ loop = "stopped")

\* radProcessSetExitFlag ends the loop, also when the signal arrives between the test of the flag
\* and select: the next alarm ends the wait.
ExitFlagStops == exitFlag ~> loop = "stopped"

\* The tables of radprocess.c agree with the kernel's and with the buffers.
LoopConsistent == SelectSeesTable /\ ServedHasData /\ BuffersAccounted

\* radProcessWait gets round to everything: to what is ready, and to the end.
LoopProgresses == ReadyIsServed /\ ExitFlagStops
=============================================================================
