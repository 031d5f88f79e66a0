------------------------------ MODULE MCRadLive ------------------------------
(***************************************************************************)
(* The parts of a running radlib process that must make progress, one      *)
(* after the other in one run: a behaviour is a behaviour of the component *)
(* that active names, and every other component stays in its initial       *)
(* state.  The fairness of a component binds where that component runs.    *)
(* Process lists run twice: one list with MaxChildren processes, and two   *)
(* parents on one semaphore with PairChildren processes and nodes per list.*)
(***************************************************************************)
EXTENDS RadReflector, RadTimers, RadProcess, RadProclist

CONSTANT PairChildren       \* bound on the processes, and on a list, of two parents

VARIABLE active

ListParts == {"one list", "two lists"}

MCInit ==
    /\ active \in {"reflector", "timers", "process"} \cup ListParts
    /\ ReflInit /\ TimersInit /\ ProcInit /\ PlistInit
    /\ timed => active = "process"

ListsBound ==
    IF active = "one list"
    THEN madeLists' \subseteq {CHOOSE l \in ProcLists : TRUE}
    ELSE Len(child') <= PairChildren /\ \A l \in ProcLists : Len(procList'[l]) <= PairChildren

MCNext ==
    \/ /\ active = "reflector" /\ ReflNext
       /\ UNCHANGED <<active, timerVars, procVars, plistVars>>
    \/ /\ active = "timers" /\ TimersNext
       /\ UNCHANGED <<active, reflVars, procVars, plistVars>>
    \/ /\ active = "process" /\ ProcNext
       /\ UNCHANGED <<active, reflVars, timerVars, plistVars>>
    \/ /\ active \in ListParts /\ PlistNext /\ ListsBound
       /\ UNCHANGED <<active, reflVars, timerVars, procVars>>

\* The child that reflects and the process that receives keep running.
ReflFairness ==
    /\ WF_reflVars(active = "reflector" /\ ChildRead)
    /\ WF_reflVars(active = "reflector" /\ ChildWrite)
    /\ WF_reflVars(active = "reflector" /\ ReflRecv)

\* The clock goes on, the signal is delivered and its handler finishes, a call
\* returns, and the main loop comes back to radProcessWait.
TimersFairness ==
    /\ WF_timerVars(active = "timers" /\ Tick)
    /\ WF_timerVars(active = "timers" /\ SignalArrives)
    /\ WF_timerVars(active = "timers" /\ (TimerExpires \/ HandlerReturns))
    /\ WF_timerVars(active = "timers" /\ (Unlink \/ radTimerStart \/ radTimerDelete))
    /\ WF_timerVars(active = "timers" /\ RunCallback)

\* The scheduler runs the process; its callbacks return; a timer of the process
\* is running, so that SIGALRM keeps coming.
ProcFairness ==
    /\ WF_procVars(active = "process" /\ WaitStep)
    /\ WF_procVars(active = "process" /\ AlarmSignal)

\* The parents run; a child that does not exit becomes ready.
PlistFairness ==
    /\ \A l \in ProcLists : WF_plistVars(active \in ListParts /\ ParentStep(l))
    /\ \A p \in 1 .. MaxChildren :
          WF_plistVars(active \in ListParts /\ p \in Pids /\ radPlistProcessReady(p))

MCSpec ==
    /\ MCInit /\ [][MCNext]_<<active, reflVars, timerVars, procVars, plistVars>>
    /\ ReflFairness /\ TimersFairness /\ ProcFairness /\ PlistFairness
===============================================================================
