------------------------------ MODULE RadProclist ------------------------------
(***************************************************************************)
(* Process lists (radproclist.c, radprocutils.c): a parent starts the      *)
(* processes of its list in the order of their priorities; before each     *)
(* next one it takes the semaphore SEM_INDEX_PROCLIST, which the new       *)
(* process gives when it has initialised itself.  The semaphore is one per *)
(* radlib system, whatever the number of lists, and counts; a child that   *)
(* dies first never gives it.                                              *)
(***************************************************************************)
EXTENDS Integers, Sequences, FiniteSets, SequencesExt

CONSTANTS
    ProcLists,              \* the parents of one radlib system that keep a list
    Priorities,             \* arguments of radPlistAdd
    MaxChildren             \* bound on the processes that are ever forked

ASSUME ProclistAssumption ==
    IsFiniteSet(ProcLists) /\ Priorities \subseteq Int /\ MaxChildren \in Nat

NotStarted == 0             \* node->pid before the start
ForkFailed == -1            \* radStartProcess returned ERROR
LastPriority == 101

VARIABLES
    procList,               \* per list, the nodes: priority and pid
    hasStarted,             \* per list
    parent,                 \* per list, what its parent does: idle, taking the semaphore
    cursor,                 \* per list, the node radPlistStart is at
    readySem,               \* the semaphore's count
    child,                  \* what each forked process is doing, by pid
    started,                \* per list, the pids in the order radPlistStart forked them
    madeLists,              \* the lists that were ever created in the system
    giveLost                \* a fork failed, or a new list wiped out a give that was not taken yet

plistVars == <<procList, hasStarted, parent, cursor, readySem, child, started, madeLists, giveLost>>
plistHistory == <<madeLists, giveLost>>

Pids == 1 .. Len(child)
Node(prio, pid) == [prio |-> prio, pid |-> pid]
Live(p) == child[p] \in {"init", "running"}

PlistInit ==
    /\ procList = [l \in ProcLists |-> <<>>] /\ hasStarted = [l \in ProcLists |-> FALSE]
    /\ parent = [l \in ProcLists |-> "none"] /\ cursor = [l \in ProcLists |-> 0]
    /\ readySem = 0 /\ child = <<>> /\ started = [l \in ProcLists |-> <<>>]
    /\ madeLists = {} /\ giveLost = FALSE

-----------------------------------------------------------------------------
(* The list *)

\* insertAscending: behind the nodes of the same priority.
InsertPos(l, prio) ==
    1 + Cardinality({i \in DOMAIN procList[l] :
                        \A j \in 1 .. i : procList[l][j].prio <= prio})
insertAscending(l, node) ==
    procList' = [procList EXCEPT ![l] = InsertAt(procList[l], InsertPos(l, node.prio), node)]

\* The count of the shared semaphore is set to 0, whoever uses it.
radProcListCreate(l) ==
    /\ parent[l] = "none"
    /\ parent' = [parent EXCEPT ![l] = "idle"]
    /\ hasStarted' = [hasStarted EXCEPT ![l] = FALSE]
    /\ readySem' = 0
    /\ madeLists' = madeLists \cup {l} /\ giveLost' = (giveLost \/ readySem > 0)
    /\ UNCHANGED <<procList, cursor, child, started>>

radPlistDestroy(l) ==
    /\ parent[l] = "idle"
    /\ parent' = [parent EXCEPT ![l] = "none"]
    /\ procList' = [procList EXCEPT ![l] = <<>>]
    /\ started' = [started EXCEPT ![l] = <<>>]
    /\ UNCHANGED <<hasStarted, cursor, readySem, child, plistHistory>>

radPlistAdd(l, prio) ==
    /\ parent[l] = "idle" /\ prio \in 1 .. 100
    /\ Len(procList[l]) < MaxChildren
    /\ insertAscending(l, Node(prio, NotStarted))
    /\ UNCHANGED <<hasStarted, parent, cursor, readySem, child, started, plistHistory>>

\* A process the program started by itself is entered behind all others.  As the header asks, after
\* radPlistStart, which forks every node of the list, also one that has a pid.
radPlistAddPid(l) ==
    /\ parent[l] = "idle" /\ hasStarted[l] /\ Len(child) < MaxChildren
    /\ child' = Append(child, "running")
    /\ insertAscending(l, Node(LastPriority, Len(child) + 1))
    /\ UNCHANGED <<hasStarted, parent, cursor, readySem, started, plistHistory>>

\* When a process has ended; the first node with its pid goes.
radPlistRemovePid(l, p) ==
    /\ parent[l] = "idle" /\ child[p] = "dead"
    /\ \E i \in DOMAIN procList[l] :
          /\ procList[l][i].pid = p
          /\ \A j \in 1 .. i - 1 : procList[l][j].pid # p
          /\ procList' = [procList EXCEPT ![l] = RemoveAt(procList[l], i)]
    /\ UNCHANGED <<hasStarted, parent, cursor, readySem, child, started, plistHistory>>

-----------------------------------------------------------------------------
(* Starting *)

\* radPlistStart refuses a list that has started.
radPlistStart(l) ==
    /\ parent[l] = "idle" /\ ~hasStarted[l]
    /\ hasStarted' = [hasStarted EXCEPT ![l] = TRUE]
    /\ parent' = [parent EXCEPT ![l] = "starting"] /\ cursor' = [cursor EXCEPT ![l] = 1]
    /\ UNCHANGED <<procList, readySem, child, started, plistHistory>>

\* radStartProcess: the node gets the new pid, or ERROR when fork fails.
radStartProcess(l) ==
    /\ parent[l] = "starting" /\ cursor[l] <= Len(procList[l])
    /\ \/ /\ Len(child) < MaxChildren
          /\ child' = Append(child, "init")
          /\ procList' = [procList EXCEPT ![l][cursor[l]].pid = Len(child) + 1]
          /\ started' = [started EXCEPT ![l] = Append(@, Len(child) + 1)]
          /\ UNCHANGED giveLost
       \/ /\ procList' = [procList EXCEPT ![l][cursor[l]].pid = ForkFailed]
          /\ giveLost' = TRUE /\ UNCHANGED <<child, started>>
    /\ parent' = [parent EXCEPT ![l] = "taking"]
    /\ UNCHANGED <<hasStarted, cursor, readySem, madeLists>>

\* radSemTake, whether or not there is a child that will give.
TakeAtOnce(l) ==
    /\ parent[l] = "taking"
    /\ parent' = [parent EXCEPT ![l] = "starting"] /\ cursor' = [cursor EXCEPT ![l] = @ + 1]
    /\ UNCHANGED <<procList, hasStarted, readySem, child, started, plistHistory>>
TakeReady(l) ==
    /\ parent[l] = "taking" /\ readySem > 0
    /\ readySem' = readySem - 1
    /\ parent' = [parent EXCEPT ![l] = "starting"] /\ cursor' = [cursor EXCEPT ![l] = @ + 1]
    /\ UNCHANGED <<procList, hasStarted, child, started, plistHistory>>

StartEnds(l) ==
    /\ parent[l] = "starting" /\ cursor[l] > Len(procList[l])
    /\ parent' = [parent EXCEPT ![l] = "idle"]
    /\ UNCHANGED <<procList, hasStarted, cursor, readySem, child, started, plistHistory>>

\* radPlistAddandStart: insert, fork, wait.  cursor is past the list: the wait is the last one.
radPlistAddandStart(l) ==
    /\ parent[l] = "idle" /\ hasStarted[l]
    /\ \/ /\ Len(child) < MaxChildren
          /\ child' = Append(child, "init")
          /\ insertAscending(l, Node(LastPriority, Len(child) + 1))
          /\ started' = [started EXCEPT ![l] = Append(@, Len(child) + 1)]
          /\ UNCHANGED giveLost
       \/ /\ Len(procList[l]) < MaxChildren
          /\ insertAscending(l, Node(LastPriority, ForkFailed))
          /\ giveLost' = TRUE /\ UNCHANGED <<child, started>>
    /\ parent' = [parent EXCEPT ![l] = "taking"]
    /\ cursor' = [cursor EXCEPT ![l] = Len(procList'[l])]
    /\ UNCHANGED <<hasStarted, readySem, madeLists>>

-----------------------------------------------------------------------------
(* The children *)

\* radSemGive on the semaphore of the process lists
NotGiven == readySem
ReadyGiven == readySem + 1

\* radSystemInit, radProcessInit, then the semaphore of the system is given.
radPlistProcessReady(p) ==
    /\ child[p] = "init"
    /\ child' = [child EXCEPT ![p] = "running"]
    /\ readySem' = ReadyGiven
    /\ UNCHANGED <<procList, hasStarted, parent, cursor, started, plistHistory>>

\* A child ends, perhaps before it was ready: radStartProcess exits with entry's result.
ChildExits(p) ==
    /\ Live(p)
    /\ child' = [child EXCEPT ![p] = IF @ = "init" THEN "stillborn" ELSE "dead"]
    /\ UNCHANGED <<procList, hasStarted, parent, cursor, readySem, started, plistHistory>>

ParentStep(l) == radStartProcess(l) \/ TakeReady(l) \/ StartEnds(l)

PlistNext ==
    \/ \E l \in ProcLists :
          \/ radProcListCreate(l) \/ radPlistDestroy(l) \/ radPlistAddPid(l) \/ radPlistStart(l)
          \/ ParentStep(l) \/ radPlistAddandStart(l)
          \/ \E prio \in Priorities : radPlistAdd(l, prio)
          \/ \E p \in Pids : radPlistRemovePid(l, p)
    \/ \E p \in Pids : radPlistProcessReady(p) \/ ChildExits(p)

PlistSpec == PlistInit /\ [][PlistNext]_plistVars

-----------------------------------------------------------------------------
(* Properties *)

PrioOf(l, p) == LET i == CHOOSE i \in DOMAIN procList[l] : procList[l][i].pid = p IN procList[l][i].prio

\* radPlistStart with radPlistProcessReady: as long as no other list was created in its system, a
\* process is forked only after all that were forked before it said they are ready, and it has no
\* better priority than they.
StartsInOrder ==
    \A l \in ProcLists : madeLists \subseteq {l} =>
        \A i, j \in DOMAIN started[l] :
            i < j => /\ child[started[l][i]] \in {"running", "dead"}
                     /\ (Live(started[l][i]) /\ Live(started[l][j])) =>
                            PrioOf(l, started[l][i]) <= PrioOf(l, started[l][j])

\* insertAscending, radPlistRemovePid: the list has one node for every process of it that lives, so
\* that radPlistExecAll reaches each of them once, and stays in the order of the priorities.
ListKnowsChildren ==
    \A l \in ProcLists :
        /\ \A i, j \in DOMAIN procList[l] : i < j => procList[l][i].prio <= procList[l][j].prio
        /\ \A i \in DOMAIN started[l] : Live(started[l][i]) =>
              Cardinality({j \in DOMAIN procList[l] : procList[l][j].pid = started[l][i]}) = 1

\* radPlistStart and radPlistAddandStart return, also where parents share the semaphore and one takes
\* what the other's child gave, unless a fork failed, a child ended before it was ready, or a new
\* list set the count to 0 over a give: then a parent waits for a semaphore that nobody gives.
StartReturns ==
    \A l \in ProcLists :
        parent[l] \in {"starting", "taking"}
            ~> \/ parent[l] = "idle"
               \/ giveLost \/ \E p \in Pids : child[p] = "stillborn"

\* A list knows its processes, and they were started in its order.
ProcessesInOrder == StartsInOrder /\ ListKnowsChildren
=============================================================================
