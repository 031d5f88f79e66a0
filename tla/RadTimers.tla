------------------------------- MODULE RadTimers -------------------------------
(***************************************************************************)
(* The timers of a radlib process (radtimers.c, radsysutils.c): a delta    *)
(* list of running timers threaded between head and tail, a free list      *)
(* through the same next pointers, and SIGALRM.  The handler runs on top   *)
(* of the main program wherever the signal is not blocked; it takes the    *)
(* expired timers off and writes their callbacks into the notify pipe that *)
(* radProcessWait reads.                                                   *)
(***************************************************************************)
EXTENDS Integers, Sequences, FiniteSets

CONSTANTS
    NumTimers,              \* noTimers
    Times,                  \* arguments of radTimerStart, in ticks
    MaxElapsed,             \* where counting elapsed time saturates: more than every list's sum
    NotifyCapacity,         \* callbacks the notify pipe holds
    MaxTimerOps,            \* bound on timer calls; 0: no bound
    SignalInStop            \* SIGALRM may arrive between radTimerStop's test and its block

ASSUME TimerAssumption ==
    /\ {NumTimers, MaxElapsed, NotifyCapacity} \subseteq Nat \ {0}
    /\ Times \subseteq Nat /\ MaxTimerOps \in Nat /\ SignalInStop \in BOOLEAN

TimerIds == 1 .. NumTimers
THead == 0
TTail == NumTimers + 1
Nil == -1

VARIABLES
    tNext, tPrev, tDelta,   \* next, prev and deltaTime of the timers, head and tail
    tPending, tInUse,       \* timer->pending; the timers the program holds
    tFree,                  \* freeList
    elapsed,                \* ticks since lastTick
    alarm,                  \* ticks until ITIMER_REAL expires, Nil when it is off
    sigPending,             \* SIGALRM has been raised and not handled
    handler,                \* "off", or the handler's loop with the ticks it has left
    ticksLeft,
    tPc,                    \* the main program: idle, or past radTimerStop's test
    notify,                 \* callbacks in the notify pipe
    tOps

timerVars == <<sigPending, tNext, tPrev, tDelta, tPending, tInUse, tFree, elapsed, alarm, handler, ticksLeft,
               tPc, notify, tOps>>
deltaVars == <<tNext, tPrev, tDelta, tPending>>

Idle == [at |-> "idle", timer |-> Nil, next |-> "none", time |-> 0]

Empty == tNext[THead] = TTail

-----------------------------------------------------------------------------
(* The clock and the signal *)

\* Time passes, whether or not the signal that is due has been handled.
Tick ==
    /\ handler = "off"
    /\ elapsed' = IF elapsed < MaxElapsed THEN elapsed + 1 ELSE elapsed
    /\ alarm' = IF alarm > 1 THEN alarm - 1 ELSE Nil
    /\ sigPending' = (sigPending \/ alarm = 1)
    /\ UNCHANGED <<deltaVars, tInUse, tFree, handler, ticksLeft, tPc, notify, tOps>>

\* The ticks between lastTick and now.
NoTicks == 0
TicksSince == elapsed

\* timerSignalHandler starts timerProcess: lastTick becomes now.
SignalArrives ==
    /\ sigPending /\ handler = "off"
    /\ SignalInStop \/ tPc.at # "unlink"
    /\ handler' = "run" /\ ticksLeft' = TicksSince
    /\ elapsed' = 0 /\ sigPending' = FALSE
    /\ UNCHANGED <<deltaVars, alarm, tInUse, tFree, tPc, notify, tOps>>

\* One turn of timerProcess's loop: the first timer has expired.
TimerExpires ==
    LET t == tNext[THead] IN
    /\ handler = "run" /\ t # TTail /\ t # Nil /\ tDelta[t] <= ticksLeft
    /\ Len(notify) < NotifyCapacity                 \* write blocks on a full pipe
    /\ ticksLeft' = ticksLeft - tDelta[t]
    /\ tPending' = [tPending EXCEPT ![t] = FALSE]
    /\ tNext' = [tNext EXCEPT ![THead] = tNext[t]]
    /\ tPrev' = [tPrev EXCEPT ![tNext[t]] = THead]
    /\ notify' = Append(notify, t)
    /\ UNCHANGED <<sigPending, tDelta, tInUse, tFree, elapsed, alarm, handler, tPc, tOps>>

\* radSysSetTimer with what is left of the first timer.
AlarmForgotten(t) == Nil
NextAlarm(t) == tDelta[t] - ticksLeft

\* The loop ends; the interval timer is set for the next one, if there is any.
HandlerReturns ==
    LET t == tNext[THead] IN
    /\ handler = "run" /\ (t = TTail \/ tDelta[t] > ticksLeft)
    /\ handler' = "off" /\ ticksLeft' = 0
    /\ IF t = TTail
       THEN UNCHANGED <<tDelta, alarm>>               \* setitimer refuses -1
       ELSE /\ alarm' = NextAlarm(t)
            /\ tDelta' = [tDelta EXCEPT ![t] = @ - ticksLeft]
    /\ UNCHANGED <<sigPending, tNext, tPrev, tPending, tInUse, tFree, elapsed, tPc, notify, tOps>>

-----------------------------------------------------------------------------
(* The main program's calls; each blocks SIGALRM around its work *)

MainRuns == handler = "off" /\ (MaxTimerOps = 0 \/ tOps < MaxTimerOps)
Count == tOps' = IF MaxTimerOps = 0 THEN 0 ELSE tOps + 1

radTimerCreate ==
    /\ MainRuns /\ tPc = Idle /\ tFree # Nil /\ Count
    /\ tInUse' = tInUse \cup {tFree}
    /\ tFree' = tNext[tFree]
    /\ tPending' = [tPending EXCEPT ![tFree] = FALSE]
    /\ UNCHANGED <<sigPending, tNext, tPrev, tDelta, elapsed, alarm, handler, ticksLeft, tPc, notify>>

\* A timer that is pending is stopped before anything else is done to it.
StoppedFirst(t, next) == IF tPending[t] THEN "unlink" ELSE next

\* radTimerStop, up to its test of pending; radTimerStart and radTimerDelete
\* come here first.
StopTest(t, next, time) ==
    /\ MainRuns /\ tPc = Idle /\ t \in tInUse /\ Count
    /\ tPending[t] \/ next # "none"
    /\ tPc' = [at |-> StoppedFirst(t, next), timer |-> t, next |-> next, time |-> time]
    /\ UNCHANGED <<sigPending, deltaVars, tInUse, tFree, elapsed, alarm, handler, ticksLeft, notify>>

\* radTimerStop with the signal blocked.
Unlink ==
    LET t == tPc.timer n == tNext[t] p == tPrev[t] IN
    /\ handler = "off" /\ tPc.at = "unlink"
    /\ tPending' = [tPending EXCEPT ![t] = FALSE]
    /\ tDelta' = IF n # TTail THEN [tDelta EXCEPT ![n] = @ + tDelta[t]] ELSE tDelta
    /\ tPrev' = [tPrev EXCEPT ![n] = p]
    /\ tNext' = [tNext EXCEPT ![p] = n]
    /\ tPc' = IF tPc.next = "none" THEN Idle ELSE [tPc EXCEPT !.at = tPc.next]
    /\ UNCHANGED <<sigPending, tInUse, tFree, elapsed, alarm, handler, ticksLeft, notify, tOps>>

\* The loop of radTimerStart: how far along the list the new timer goes, and
\* what is left of its time there.  Times add up from lastTick on.
Walk == LET f[n \in 0 .. NumTimers + 1] ==
              IF n = 0 THEN [prev |-> THead, left |-> IF tPc.time = 0 THEN 1 ELSE tPc.time]
              ELSE LET q == f[n - 1]
                       x == tNext[q.prev]
                   IN  IF x = TTail \/ tDelta[x] >= q.left THEN q
                       ELSE [prev |-> x, left |-> q.left - tDelta[x]]
        IN  f[NumTimers + 1]

radTimerStart ==
    LET t == tPc.timer p == Walk.prev n == tNext[p] left == Walk.left IN
    /\ handler = "off" /\ tPc.at = "start"
    /\ tPending' = [tPending EXCEPT ![t] = TRUE]
    /\ tDelta' = [[tDelta EXCEPT ![t] = left] EXCEPT ![n] = IF n # TTail THEN @ - left ELSE @]
    /\ tNext' = [tNext EXCEPT ![p] = t, ![t] = n]
    /\ tPrev' = [tPrev EXCEPT ![t] = p, ![n] = t]
    /\ elapsed' = IF Empty THEN 0 ELSE elapsed              \* lastTick, for the first timer only
    /\ alarm' = IF p = THead THEN left ELSE alarm
    /\ tPc' = Idle
    /\ UNCHANGED <<sigPending, tInUse, tFree, handler, ticksLeft, notify, tOps>>

radTimerDelete ==
    LET t == tPc.timer IN
    /\ handler = "off" /\ tPc.at = "delete"
    /\ tNext' = [tNext EXCEPT ![t] = tFree]
    /\ tFree' = t /\ tInUse' = tInUse \ {t}
    /\ tPc' = Idle
    /\ UNCHANGED <<sigPending, tPrev, tDelta, tPending, elapsed, alarm, handler, ticksLeft, notify, tOps>>

\* radProcessWait reads a callback from the pipe and runs it.
RunCallback ==
    /\ handler = "off" /\ tPc = Idle /\ notify # <<>>
    /\ notify' = SubSeq(notify, 2, Len(notify))
    /\ UNCHANGED <<sigPending, deltaVars, tInUse, tFree, elapsed, alarm, handler, ticksLeft, tPc, tOps>>

-----------------------------------------------------------------------------
\* radTimerListCreate
TimersInit ==
    /\ tNext = [t \in THead .. TTail |-> IF t = THead THEN TTail ELSE IF t = TTail \/ t = 1 THEN Nil ELSE t - 1]
    /\ tPrev = [t \in THead .. TTail |-> IF t = TTail THEN THead ELSE Nil]
    /\ tDelta = [t \in THead .. TTail |-> 0]
    /\ tPending = [t \in THead .. TTail |-> FALSE]
    /\ tInUse = {} /\ tFree = NumTimers
    /\ elapsed = 0 /\ alarm = Nil /\ sigPending = FALSE /\ handler = "off" /\ ticksLeft = 0
    /\ tPc = Idle /\ notify = <<>> /\ tOps = 0

TimersNext ==
    \/ Tick \/ SignalArrives \/ TimerExpires \/ HandlerReturns
    \/ radTimerCreate \/ Unlink \/ radTimerStart \/ radTimerDelete \/ RunCallback
    \/ \E t \in TimerIds :
         \/ StopTest(t, "none", 0) \/ StopTest(t, "delete", 0)
         \/ \E time \in Times : StopTest(t, "start", time)

TimersSpec == TimersInit /\ [][TimersNext]_timerVars

-----------------------------------------------------------------------------
\* The timers met from head to tail, and whether tail is reached at all.
Listed == LET f[n \in 0 .. NumTimers + 1] ==
                IF n = 0 THEN <<THead>>
                ELSE LET x == f[n - 1][Len(f[n - 1])]
                     IN  IF x = Nil \/ x = TTail THEN f[n - 1] ELSE Append(f[n - 1], tNext[x])
          IN  f[NumTimers + 1]
OnList(t) == \E i \in DOMAIN Listed : Listed[i] = t

\* radTimerStatus tells whether the timer is running: a timer is pending exactly
\* while it is linked between head and tail, so that no stopped timer fires and
\* no deleted one leads into the free list.
StatusMeansListed ==
    /\ OnList(TTail)
    /\ \A t \in TimerIds : tPending[t] <=> OnList(t)
    /\ \A i \in DOMAIN Listed : i > 1 => tPrev[Listed[i]] = Listed[i - 1]

\* While a timer runs, an alarm is set, has come, or its handler is at work:
\* stopping, restarting and deleting timers never leaves the list unattended.
ListAttended == ~Empty => alarm # Nil \/ sigPending \/ handler = "run"

\* A started timer expires or is stopped, once the program calls no timer
\* function for long enough.
TimerFires == \A t \in TimerIds : tPending[t] ~> ~tPending[t]

\* The list of radtimers.c: what is pending is on it, and somebody watches it.
TimersWatched == StatusMeansListed /\ ListAttended
===============================================================================
