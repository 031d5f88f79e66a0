------------------------------ MODULE RadTemplate ------------------------------
(***************************************************************************)
(* The life of a radlib program, as template.c and templateStates.c lay it *)
(* out: the lock file against a second copy, the radlib system and process *)
(* set up in stages each of which can fail, the state machine of           *)
(* radstates.c driven by timers and input, and the way out.  Several       *)
(* copies are started in one directory; a copy may be killed anywhere.     *)
(***************************************************************************)
EXTENDS Integers, FiniteSets

CONSTANTS Copies            \* processes that are started as this program

ASSUME CopiesAssumption == IsFiniteSet(Copies)

VARIABLES
    lockFile,               \* template.pid exists
    devDir, confFile,       \* the device directory and template.conf exist
    numprocs,               \* of the radlib system TEMPLATE_SYSTEM_ID
    semTaken,               \* the radlib system's semaphore, taken by a copy that is gone
    at,                     \* per copy, the stage of main it is at
    mstate, stateProc,      \* per copy, the state machine and its handlers
    running,                \* per copy, the timers that run
    expired,                \* per copy, the timers whose callback waits in the pipe
    exiting,                \* per copy, templateWork.exiting
    raced,                  \* pairs that were both between the lock file's test and its creation
    crashed, lockLeft,      \* copies that died; that went without removing the lock file
    leaked                  \* references to the radlib system that dead copies held

templateVars == <<lockFile, devDir, confFile, numprocs, semTaken, at, mstate, stateProc, running,
                  expired, exiting, raced, crashed, lockLeft, leaked>>
fileVars == <<lockFile, devDir, confFile>>
countVars == <<numprocs, semTaken>>
machineVars == <<mstate, stateProc, running, expired>>
endVars == <<raced, crashed, lockLeft, leaked>>

Timers == {"num1", "num2"}
Stub == "statesStub"
States == {"IDLE", "RUN", "ERROR"}

TemplateInit ==
    /\ lockFile = FALSE /\ devDir = FALSE /\ confFile = FALSE /\ numprocs = 0 /\ semTaken = FALSE
    /\ at = [c \in Copies |-> "sysInit"]
    /\ mstate = [c \in Copies |-> "IDLE"]
    /\ stateProc = [c \in Copies |-> [s \in States |-> Stub]]
    /\ running = [c \in Copies |-> {}] /\ expired = [c \in Copies |-> {}]
    /\ exiting = [c \in Copies |-> FALSE]
    /\ raced = {} /\ crashed = {} /\ lockLeft = {} /\ leaked = 0

TmplGoto(c, stage) == at' = [at EXCEPT ![c] = stage]
InWindow == {c \in Copies : at[c] \in {"system", "process", "lock"}}

-----------------------------------------------------------------------------
(* main, stage by stage *)

\* The one test for another copy: stat of the lock file.
LockUnseen == FALSE
LockSeen == lockFile

\* A lock file means another copy; the device directory is made when it is missing.
templateSysInit(c) ==
    /\ at[c] = "sysInit"
    /\ IF LockSeen
       THEN TmplGoto(c, "ended") /\ UNCHANGED <<devDir, raced>>
       ELSE \/ /\ TmplGoto(c, "system") /\ devDir' = TRUE
               /\ raced' = raced \cup {{c, d} : d \in InWindow}
            \/ /\ ~devDir /\ TmplGoto(c, "ended") /\ UNCHANGED <<devDir, raced>>
    /\ UNCHANGED <<lockFile, confFile, countVars, machineVars, exiting, crashed, lockLeft, leaked>>

\* radSystemInit sets the semaphore to 1 before it takes it, so one that was left taken is free
\* again; a failing shmat returns with the semaphore.
SystemInit(c) ==
    /\ at[c] = "system"
    /\ \/ TmplGoto(c, "process") /\ numprocs' = numprocs + 1 /\ semTaken' = FALSE
       \/ TmplGoto(c, "ended") /\ semTaken' \in BOOLEAN /\ UNCHANGED numprocs
    /\ UNCHANGED <<fileVars, machineVars, exiting, endVars>>

\* A failed radProcessInit has called radBuffersExit, which radSystemExit will call again.
ProcessInit(c) ==
    /\ at[c] = "process"
    /\ TmplGoto(c, "lock") \/ TmplGoto(c, "leavingTwice")
    /\ UNCHANGED <<fileVars, countVars, machineVars, exiting, endVars>>

\* The lock file is created, or written over, not tested again.
CreateLock(c) ==
    /\ at[c] = "lock"
    /\ \/ TmplGoto(c, "config") /\ lockFile' = TRUE
       \/ TmplGoto(c, "leaving") /\ UNCHANGED lockFile
    /\ UNCHANGED <<devDir, confFile, countVars, machineVars, exiting, endVars>>

\* The way out of every later stage that fails: radProcessExit, radSystemExit, exit, without
\* templateSysExit.
TemplateGivesUp(c) == TmplGoto(c, "leaving") /\ lockLeft' = lockLeft \cup {c}

\* A missing configuration is written with defaults, then it is read.
Configure(c) ==
    /\ at[c] = "config"
    /\ \/ TmplGoto(c, "stdin") /\ confFile' = TRUE /\ UNCHANGED lockLeft
       \/ TemplateGivesUp(c) /\ confFile' \in {confFile, TRUE}
    /\ UNCHANGED <<lockFile, devDir, countVars, machineVars, exiting, raced, crashed, leaked>>

RegisterAndJoin(c) ==
    /\ at[c] = "stdin"
    /\ \/ TmplGoto(c, "states") /\ UNCHANGED lockLeft
       \/ TemplateGivesUp(c)
    /\ UNCHANGED <<fileVars, countVars, machineVars, exiting, raced, crashed, leaked>>

\* radStatesInit fills the table with the stub, radStatesAddHandler sets the three handlers.
CreateMachine(c) ==
    /\ at[c] = "states"
    /\ \/ /\ TmplGoto(c, "timers")
          /\ stateProc' = [stateProc EXCEPT ![c] = [s \in States |-> s]]
          /\ mstate' = [mstate EXCEPT ![c] = "IDLE"]
          /\ UNCHANGED lockLeft
       \/ TemplateGivesUp(c) /\ UNCHANGED <<mstate, stateProc>>
    /\ UNCHANGED <<fileVars, countVars, running, expired, exiting, raced, crashed, leaked>>

CreateTimers(c) ==
    /\ at[c] = "timers"
    /\ \/ TmplGoto(c, "dummy") /\ UNCHANGED lockLeft
       \/ TemplateGivesUp(c)
    /\ UNCHANGED <<fileVars, countVars, machineVars, exiting, raced, crashed, leaked>>

-----------------------------------------------------------------------------
(* The state machine: what a handler returns and which timers it starts *)

Result(state, start) == [state |-> state, start |-> start]

templateIdleState(stim) == IF stim = "dummy" THEN Result("RUN", Timers) ELSE Result("IDLE", {})
templateRunState(stim) ==
    IF stim \in Timers THEN Result("RUN", {stim})
    ELSE IF stim = "readError" THEN Result("ERROR", {})
    ELSE Result("RUN", {})
templateErrorState(stim) == Result("ERROR", {})
statesStub(state) == Result(state, {})

\* radStatesProcess: the handler of the current state decides the next one.
Processed(c, stim) ==
    CASE stateProc[c][mstate[c]] = "IDLE" -> templateIdleState(stim)
      [] stateProc[c][mstate[c]] = "RUN" -> templateRunState(stim)
      [] stateProc[c][mstate[c]] = "ERROR" -> templateErrorState(stim)
      [] OTHER -> statesStub(mstate[c])

radStatesProcess(c, stim) ==
    /\ mstate' = [mstate EXCEPT ![c] = Processed(c, stim).state]
    /\ running' = [running EXCEPT ![c] = @ \cup Processed(c, stim).start]
    /\ UNCHANGED stateProc

Kickoff(c) ==
    /\ at[c] = "dummy" /\ TmplGoto(c, "loop")
    /\ radStatesProcess(c, "dummy")
    /\ UNCHANGED <<fileVars, countVars, expired, exiting, endVars>>

\* SIGALRM: the timer is off its list and its callback is in the notify pipe.
TimerExpiry(c, t) ==
    /\ at[c] = "loop" /\ t \in running[c]
    /\ running' = [running EXCEPT ![c] = @ \ {t}]
    /\ expired' = [expired EXCEPT ![c] = @ \cup {t}]
    /\ UNCHANGED <<fileVars, countVars, at, mstate, stateProc, exiting, endVars>>

\* timer1Handler and timer2Handler, from radProcessWait.
TimerHandler(c, t) ==
    /\ at[c] = "loop" /\ ~exiting[c] /\ t \in expired[c]
    /\ expired' = [expired EXCEPT ![c] = @ \ {t}]
    /\ radStatesProcess(c, t)
    /\ UNCHANGED <<fileVars, countVars, at, exiting, endVars>>

\* msgHandler, evtHandler, stdinDataCallback.
OtherStimulus(c, stim) ==
    /\ at[c] = "loop" /\ ~exiting[c]
    /\ radStatesProcess(c, stim)
    /\ UNCHANGED <<fileVars, countVars, at, expired, exiting, endVars>>

-----------------------------------------------------------------------------
(* The way out *)

InSystem(c) == at[c] \notin {"sysInit", "system", "ended"}
Catching(c) == at[c] \in {"config", "stdin", "states", "timers", "dummy", "loop"}

\* defaultSigHandler, for every signal: SIGCHLD too.
defaultSigHandler(c) ==
    /\ Catching(c) /\ ~exiting[c]
    /\ exiting' = [exiting EXCEPT ![c] = TRUE]
    /\ UNCHANGED <<fileVars, countVars, at, machineVars, endVars>>

\* templateSysExit looks for the lock file and removes it.
LockRemoved == FALSE

\* The loop ends: timers, state machine, lock file if it is there, process; radSystemExit is left.
templateSysExit(c) ==
    /\ at[c] = "loop" /\ exiting[c]
    /\ TmplGoto(c, "leaving")
    /\ \/ lockFile' = LockRemoved /\ UNCHANGED lockLeft
       \/ lockFile /\ lockLeft' = lockLeft \cup {c} /\ UNCHANGED lockFile
    /\ running' = [running EXCEPT ![c] = {}] /\ expired' = [expired EXCEPT ![c] = {}]
    /\ stateProc' = [stateProc EXCEPT ![c] = [s \in States |-> Stub]]
    /\ UNCHANGED <<devDir, confFile, countVars, mstate, exiting, raced, crashed, leaked>>

Leaving(c) == at[c] \in {"leaving", "leavingTwice"}

\* radSystemExit waits for a semaphore that was left taken.
LeaveSystem(c) ==
    /\ Leaving(c) /\ ~semTaken
    /\ TmplGoto(c, "ended") /\ numprocs' = numprocs - 1
    /\ UNCHANGED <<fileVars, semTaken, machineVars, exiting, endVars>>

\* The second radBuffersExit uses and frees an id that the first one freed, which is undefined: the
\* copy may get through (LeaveSystem), or die in it, with the count lowered and the semaphore taken.
\* A kill at that place does the same to any copy that leaves.
DiesInSystemExit(c) ==
    /\ Leaving(c) /\ ~semTaken
    /\ TmplGoto(c, "ended") /\ numprocs' = numprocs - 1 /\ semTaken' = TRUE
    /\ crashed' = crashed \cup {c}
    /\ UNCHANGED <<fileVars, machineVars, exiting, raced, lockLeft, leaked>>

\* A kill inside radSystemInit, before the count is raised or after.
DiesInSystemInit(c) ==
    /\ at[c] = "system"
    /\ TmplGoto(c, "ended") /\ semTaken' = TRUE /\ crashed' = crashed \cup {c}
    /\ \/ numprocs' = numprocs + 1 /\ leaked' = leaked + 1
       \/ UNCHANGED <<numprocs, leaked>>
    /\ UNCHANGED <<fileVars, machineVars, exiting, raced, lockLeft>>

\* SIGKILL, or a signal before the handlers are set, outside of the two calls above.
Killed(c) ==
    /\ at[c] \notin {"sysInit", "ended"}
    /\ leaked' = leaked + (IF InSystem(c) THEN 1 ELSE 0)
    /\ TmplGoto(c, "ended") /\ crashed' = crashed \cup {c}
    /\ UNCHANGED <<fileVars, countVars, machineVars, exiting, raced, lockLeft>>

TemplateNext ==
    \E c \in Copies :
        \/ templateSysInit(c) \/ SystemInit(c) \/ ProcessInit(c) \/ CreateLock(c) \/ Configure(c)
        \/ RegisterAndJoin(c) \/ CreateMachine(c) \/ CreateTimers(c) \/ Kickoff(c)
        \/ defaultSigHandler(c) \/ templateSysExit(c) \/ LeaveSystem(c)
        \/ DiesInSystemExit(c) \/ DiesInSystemInit(c) \/ Killed(c)
        \/ \E t \in Timers : TimerExpiry(c, t) \/ TimerHandler(c, t)
        \/ \E stim \in {"message", "readError"} : OtherStimulus(c, stim)

TemplateSpec == TemplateInit /\ [][TemplateNext]_templateVars

-----------------------------------------------------------------------------
(* Properties *)

PastLock(c) == Catching(c)

\* "lock file exists, older copy may be running - aborting!": two copies run at once only when both
\* were between the test of the lock file and its creation, or one of a pair of that kind removed
\* the lock file of the other.
OneCopyUnlessRaced ==
    raced = {} => \A c, d \in Copies : PastLock(c) /\ PastLock(d) => c = d

\* template.pid is left behind only by a copy that died, gave up after it had created it, or could
\* not unlink it; after every other end the program can be started again.
StaleLockHasCause ==
    (lockFile /\ raced = {}) => \/ \E c \in Copies : PastLock(c)
                               \/ crashed \cup lockLeft # {}

\* Every way out of main but a death leaves the radlib system, once, and a death inside the leaving
\* has lowered the count already: the last one to leave destroys its semaphores, buffers and queues,
\* so a count that is too low pulls them from under the others.
SystemCountRight ==
    numprocs = Cardinality({c \in Copies : InSystem(c)}) + leaked

\* templateRunState: while a copy runs each of its timers is running or about to be handled.
RunKeepsTimers ==
    \A c \in Copies : at[c] = "loop" /\ mstate[c] = "RUN" => running[c] \cup expired[c] = Timers

\* One copy of the program at a time comes, keeps its timers and goes, and what it leaves behind
\* has a cause.
ProgramComesAndGoes ==
    OneCopyUnlessRaced /\ StaleLockHasCause /\ SystemCountRight /\ RunKeepsTimers
=============================================================================
