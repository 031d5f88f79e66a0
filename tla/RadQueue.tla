------------------------------- MODULE RadQueue -------------------------------
(***************************************************************************)
(* radlib's message queues (radqueue.c).  Every process owns one FIFO,     *)
(* named after it, and lists itself in a table in shared memory, once per  *)
(* group.  To send, a process keeps a list of the FIFOs it has opened; the *)
(* nodes of that list, like the messages, are system buffers (RadBuffers,  *)
(* whose calls are atomic here: that is what ImplementsPool shows).        *)
(* An operation on the table holds the table's semaphore and is one step;  *)
(* everything between two of them interleaves.                             *)
(***************************************************************************)
EXTENDS Integers, Sequences, FiniteSets, SequencesExt, FiniteSetsExt, Functions

CONSTANTS
    QNames,                 \* queue names, one process each
    QGroups,                \* group numbers
    GroupAll,               \* QUEUE_GROUP_ALL
    MaxQueueRecords,        \* MAX_QUEUE_RECORDS
    NumQBufs,               \* system buffers
    PipeCapacity,           \* messages a FIFO holds
    ClientReleases,         \* TRUE: clients release the message when a group send fails
    MaxOps                  \* bound: calls per behaviour, a message and its sends counted once

NoQBuf == 0
QBufs == 1 .. NumQBufs
NoName == "no queue"

ASSUME QAssumption ==
    /\ MaxQueueRecords \in Nat /\ NumQBufs \in Nat /\ PipeCapacity \in Nat \ {0}
    /\ ClientReleases \in BOOLEAN
    /\ GroupAll \notin QGroups /\ NoName \notin QNames

VARIABLES
    qTable,                 \* MSGQ_TABLE.recs: sequence of [name, group, updateFlag]
    qUp,                    \* the queues whose process has the FIFO open for reading
    sendQueues,             \* T_QUEUE.sendQueues: sequence of [name, group, node]
    qOpened,                \* FIFOs a process has open for writing: no call closes one
    pipe,                   \* the contents of a FIFO: sequence of [src, bfr]
    qFree, qOwned,          \* free system buffers; those a client holds
    qPc,                    \* where a process is inside a call
    qReg,                   \* its locals: group, index, target, the message (sys), a new buffer,
                            \* where to go back to, and the message of a failed group send
    qDelivery,              \* history: whom the last group send had to reach, and did
    qDisturbed,             \* history: "gone" once a process has left, "missed" once a client
                            \* quit or dettached, or a buffer, open or write failed a group call
    qOps                    \* client calls so far

qVars == <<qTable, qUp, sendQueues, qOpened, pipe, qFree, qOwned, qPc, qReg,
           qDelivery, qDisturbed, qOps>>

NoReg == [group |-> GroupAll, index |-> 0, target |-> NoName,
          sys |-> NoQBuf, new |-> NoQBuf, failed |-> NoQBuf, back |-> "idle"]

NoDelivery == [group |-> GroupAll, due |-> {}, got |-> {}]

Rec(n, g) == [name |-> n, group |-> g, updateFlag |-> 1]

Has(seq, n, g) == \E i \in DOMAIN seq : seq[i].name = n /\ seq[i].group = g

-----------------------------------------------------------------------------
(* The table: qdb... *)

\* qdbAddQueue on a table that has room: the record, and the update flag of
\* every member of the group.  A duplicate changes nothing.
AddUnannounced(t, n, g) == IF Has(t, n, g) THEN t ELSE Append(t, Rec(n, g))
AddAgain(t, n, g) == Append(t, Rec(n, g))
qdbAddQueue(t, n, g) ==
    IF Has(t, n, g) THEN t
    ELSE Append([i \in DOMAIN t |->
                    IF t[i].group = g THEN [t[i] EXCEPT !.updateFlag = 1] ELSE t[i]],
                Rec(n, g))

qdbFull(t, n, g) == ~Has(t, n, g) /\ Len(t) >= MaxQueueRecords

\* qdbDeleteQueue for one group: members up to the record are flagged, the
\* record goes, the scan ends.
DeleteOne(t, n, g) ==
    LET found == {i \in DOMAIN t : t[i].name = n /\ t[i].group = g}
        Flag(to) == [i \in DOMAIN t |-> IF i <= to /\ t[i].group = g
                                        THEN [t[i] EXCEPT !.updateFlag = 1] ELSE t[i]]
    IN  IF found = {} THEN Flag(Len(t))
        ELSE RemoveAt(Flag(Min(found)), Min(found))

\* ... for QUEUE_GROUP_ALL: the scan goes on behind the record that moved into
\* the gap, and so never looks at it.  s is the place of the scan and the table.
LookAt(s, n) ==
    IF s.at > Len(s.table) THEN s
    ELSE LET r == s.table[s.at]
             flagged == IF r.group = GroupAll THEN [s.table EXCEPT ![s.at].updateFlag = 1]
                        ELSE s.table
         IN  [at |-> s.at + 1,
              table |-> IF r.name = n THEN RemoveAt(flagged, s.at) ELSE flagged]

DeleteAll(t, n) ==
    LET Scan[k \in 0 .. Len(t)] == IF k = 0 THEN [at |-> 1, table |-> t]
                                   ELSE LookAt(Scan[k - 1], n)
    IN  Scan[Len(t)].table

qdbDeleteQueue(t, n, g) == IF g = GroupAll THEN DeleteAll(t, n) ELSE DeleteOne(t, n, g)

\* qdbGetNextGroupName looks from *currentIndex + 1 on, and every traversal
\* starts with *currentIndex = 0: record 0 is never seen.  Here index counts
\* from 0 as in the code, so the record at index i is qTable[i + 1].
NextIndexes(index, g) ==
    {i \in index + 1 .. Len(qTable) - 1 : qTable[i + 1].group = g \/ g = GroupAll}

\* The locals of p once its traversal has moved on to the next name.
Upcoming(p) == NextIndexes(qReg[p].index, qReg[p].group)
Advanced(p) == LET i == Min(Upcoming(p)) IN
               [qReg[p] EXCEPT !.index = i, !.target = qTable[i + 1].name]

-----------------------------------------------------------------------------
(* Helpers of the actions *)

QGoto(p, pc, reg) ==
    /\ qPc' = [qPc EXCEPT ![p] = pc]
    /\ qReg' = [qReg EXCEPT ![p] = reg]

Return(p) == QGoto(p, "idle", NoReg)

\* radQueueSendGroup gives up: it releases the message and returns ERROR.
SendGroupFails(p) ==
    /\ qFree' = qFree \cup {qReg[p].sys}
    /\ QGoto(p, IF ClientReleases THEN "failed" ELSE "idle",
            IF ClientReleases THEN [NoReg EXCEPT !.failed = qReg[p].sys] ELSE NoReg)

NewOp == qOps < MaxOps /\ qOps' = qOps + 1

AnyFree == CHOOSE b \in qFree : TRUE

\* qSendListGetFD # -1, for a name that is not the caller's own
GetFD(p, n) == \E i \in DOMAIN sendQueues[p] : sendQueues[p][i].name = n

\* A FIFO forgets what it holds when nobody has it open any more.
PipesAfterClose(up, opened) ==
    [n \in QNames |-> IF n \in up \/ \E p \in QNames : n \in opened[p] THEN pipe[n] ELSE <<>>]

-----------------------------------------------------------------------------
(* radQueueInit and radQueueExit *)

\* The reflector child (RadReflector) holds the FIFO open for writing, so that
\* opening it for reading does not block.  A full table closes everything.
QueueInit(p) ==
    /\ NewOp /\ qPc[p] = "down"
    /\ IF qdbFull(qTable, p, GroupAll)
       THEN UNCHANGED <<qTable, qUp, qPc, qReg>>
       ELSE /\ qTable' = qdbAddQueue(qTable, p, GroupAll)
            /\ qUp' = qUp \cup {p}
            /\ Return(p)
    /\ UNCHANGED <<sendQueues, qOpened, pipe, qFree, qOwned, qDelivery, qDisturbed>>

\* radQueueFreeSendList: the nodes are released, their descriptors stay open.
Exit(p) ==
    /\ NewOp /\ qPc[p] = "idle" /\ qOwned[p] = {}
    /\ QGoto(p, "exit", NoReg)
    /\ qFree' = qFree \cup {sendQueues[p][i].node : i \in DOMAIN sendQueues[p]}
    /\ sendQueues' = [sendQueues EXCEPT ![p] = <<>>]
    /\ UNCHANGED <<qTable, qUp, qOpened, pipe, qOwned, qDelivery, qDisturbed>>

ExitDelete(p) ==
    /\ qPc[p] = "exit"
    /\ QGoto(p, "close", NoReg)
    /\ qTable' = qdbDeleteQueue(qTable, p, GroupAll)
    /\ qDisturbed' = qDisturbed \cup {"gone"}
    /\ UNCHANGED <<qUp, sendQueues, qOpened, pipe, qFree, qOwned, qDelivery, qOps>>

\* The process ends: its descriptors are closed, the reflector is killed.
Ends(p) ==
    /\ QGoto(p, "down", NoReg)
    /\ qUp' = qUp \ {p}
    /\ qOpened' = [qOpened EXCEPT ![p] = {}]
    /\ pipe' = PipesAfterClose(qUp', qOpened')
    /\ qDelivery' = [qDelivery EXCEPT ![p] = NoDelivery]

ExitClose(p) ==
    /\ qPc[p] = "close"
    /\ Ends(p)
    /\ UNCHANGED <<qTable, sendQueues, qFree, qOwned, qDisturbed, qOps>>

\* A process is killed, inside a call or not: its records stay in the table, and
\* nobody releases its nodes, its messages and what its calls had got.
Die(p) ==
    /\ NewOp /\ qPc[p] # "down"
    /\ Ends(p)
    /\ sendQueues' = [sendQueues EXCEPT ![p] = <<>>]
    /\ qOwned' = [qOwned EXCEPT ![p] = {}]
    /\ qDisturbed' = qDisturbed \cup {"gone"}
    /\ UNCHANGED <<qTable, qFree>>

-----------------------------------------------------------------------------
(* radQueueAttach, as a routine: reg.back is where it returns to. *)

\* A client attaches to a queue, its own too, whoever has that FIFO open.
ClientAttach(p, n, g) ==
    /\ NewOp /\ qPc[p] = "idle"
    /\ QGoto(p, "attach", [NoReg EXCEPT !.group = g, !.target = n])
    /\ UNCHANGED <<qTable, qUp, sendQueues, qOpened, pipe, qFree, qOwned, qDelivery, qDisturbed>>

AttachReturns(p) ==
    QGoto(p, qReg[p].back,
          IF qReg[p].back = "idle" THEN NoReg ELSE [qReg[p] EXCEPT !.new = NoQBuf])

\* A node that is there already is success; without a buffer for a node the call
\* is refused.
AttachGet(p) ==
    /\ qPc[p] = "attach"
    /\ IF Has(sendQueues[p], qReg[p].target, qReg[p].group)
       THEN AttachReturns(p) /\ UNCHANGED qFree
       ELSE IF qFree = {}
       THEN QGoto(p, "refused", qReg[p]) /\ UNCHANGED qFree
       ELSE /\ QGoto(p, "open", [qReg[p] EXCEPT !.new = AnyFree])
            /\ qFree' = qFree \ {AnyFree}
    /\ UNCHANGED <<qTable, qUp, sendQueues, qOpened, pipe, qOwned, qDelivery, qDisturbed, qOps>>

\* Opening a FIFO for writing waits for a reader.
AttachOpen(p) ==
    LET n == qReg[p].target IN
    /\ qPc[p] = "open" /\ n \in qUp
    /\ sendQueues' = [sendQueues EXCEPT ![p] =
            Append(@, [name |-> n, group |-> qReg[p].group, node |-> qReg[p].new])]
    /\ qOpened' = [qOpened EXCEPT ![p] = @ \cup {n}]
    /\ AttachReturns(p)
    /\ UNCHANGED <<qTable, qUp, pipe, qFree, qOwned, qDelivery, qDisturbed, qOps>>

\* It may fail at any time: no such FIFO, no descriptor left, a signal while it
\* waits.  The node is released.
AttachOpenFails(p) ==
    /\ qPc[p] = "open"
    /\ QGoto(p, "refused", [qReg[p] EXCEPT !.new = NoQBuf])
    /\ qFree' = qFree \cup {qReg[p].new}
    /\ UNCHANGED <<qTable, qUp, sendQueues, qOpened, pipe, qOwned, qDelivery, qDisturbed, qOps>>

\* The caller gets ERROR: radQueueJoinGroup takes its record back, a group send
\* gives up, a client is told.
AttachRefused(p) ==
    /\ qPc[p] = "refused"
    /\ \/ /\ qReg[p].back = "idle" /\ Return(p)
          /\ UNCHANGED <<qTable, qFree, qDisturbed>>
       \/ /\ qReg[p].back = "join" /\ Return(p)
          /\ qTable' = qdbDeleteQueue(qTable, p, qReg[p].group)
          /\ qDisturbed' = qDisturbed \cup {"missed"}
          /\ UNCHANGED qFree
       \/ /\ qReg[p].back = "update" /\ SendGroupFails(p)
          /\ qDisturbed' = qDisturbed \cup {"missed"}
          /\ UNCHANGED qTable
    /\ UNCHANGED <<qUp, sendQueues, qOpened, pipe, qOwned, qDelivery, qOps>>

-----------------------------------------------------------------------------
(* radQueueJoinGroup and radQueueQuitGroup *)

Join(p, g) ==
    /\ NewOp /\ qPc[p] = "idle"
    /\ IF qdbFull(qTable, p, g)
       THEN UNCHANGED <<qTable, qPc, qReg>>
       ELSE /\ qTable' = qdbAddQueue(qTable, p, g)
            /\ QGoto(p, "join", [NoReg EXCEPT !.group = g, !.back = "join"])
    /\ UNCHANGED <<qUp, sendQueues, qOpened, pipe, qFree, qOwned, qDelivery, qDisturbed>>

\* radQueueAttachGroup: one name after the other
JoinNext(p) ==
    /\ qPc[p] = "join"
    /\ IF Upcoming(p) = {} THEN Return(p)
       ELSE QGoto(p, IF Advanced(p).target = p THEN "join" ELSE "attach", Advanced(p))
    /\ UNCHANGED <<qTable, qUp, sendQueues, qOpened, pipe, qFree, qOwned, qDelivery,
                   qDisturbed, qOps>>

Quit(p, g) ==
    /\ NewOp /\ qPc[p] = "idle"
    /\ QGoto(p, "quit", [NoReg EXCEPT !.group = g])
    /\ UNCHANGED <<qTable, qUp, sendQueues, qOpened, pipe, qFree, qOwned, qDelivery, qDisturbed>>

\* radQueueDettach: the first node of that name and group goes; its descriptor
\* stays open.  Not finding one is an error that nobody looks at.
DettachTwice(p, n, g) ==
    /\ qFree' = qFree \cup {sendQueues[p][i].node : i \in DOMAIN sendQueues[p]}
    /\ UNCHANGED sendQueues
DettachNode(p, n, g) ==
    LET at == {i \in DOMAIN sendQueues[p] :
                  sendQueues[p][i].name = n /\ sendQueues[p][i].group = g}
    IN  IF at = {} THEN UNCHANGED <<sendQueues, qFree>>
        ELSE /\ sendQueues' = [sendQueues EXCEPT ![p] = RemoveAt(@, Min(at))]
             /\ qFree' = qFree \cup {sendQueues[p][Min(at)].node}

\* A client dettaches from a queue.
ClientDettach(p, n, g) ==
    /\ NewOp /\ qPc[p] = "idle"
    /\ DettachNode(p, n, g)
    /\ qDisturbed' = IF Has(sendQueues[p], n, g) THEN qDisturbed \cup {"missed"} ELSE qDisturbed
    /\ UNCHANGED <<qTable, qUp, qOpened, pipe, qOwned, qPc, qReg, qDelivery>>

\* radQueueDettachGroup, then the record
QuitNext(p) ==
    /\ qPc[p] = "quit"
    /\ IF Upcoming(p) = {}
       THEN /\ qTable' = qdbDeleteQueue(qTable, p, qReg[p].group)
            /\ qDisturbed' = qDisturbed \cup {"missed"}
            /\ Return(p)
            /\ UNCHANGED <<sendQueues, qFree>>
       ELSE /\ QGoto(p, "quit", Advanced(p))
            /\ IF Advanced(p).target = p THEN UNCHANGED <<sendQueues, qFree>>
               ELSE DettachNode(p, Advanced(p).target, qReg[p].group)
            /\ UNCHANGED <<qTable, qDisturbed>>
    /\ UNCHANGED <<qUp, qOpened, pipe, qOwned, qDelivery, qOps>>

-----------------------------------------------------------------------------
(* radQueueSend *)

\* The client takes a buffer for a message: with it begins a send.
Alloc(p) ==
    /\ NewOp /\ qPc[p] = "idle" /\ qFree # {} /\ qOwned[p] = {}
    /\ qFree' = qFree \ {AnyFree}
    /\ qOwned' = [qOwned EXCEPT ![p] = {AnyFree}]
    /\ UNCHANGED <<qTable, qUp, sendQueues, qOpened, pipe, qPc, qReg, qDelivery, qDisturbed>>

\* How the write into the FIFO of n ends: the reader is gone (SIGPIPE,
\* ERROR_ABORT), it is taken, or, whatever n does, it fails (ERROR).  A header is
\* shorter than PIPE_BUF: it is written as a whole or not at all.  The FIFO may
\* also be full; then the write waits.
WriteAborts(n) == n \notin qUp
WriteTaken(n)  == n \in qUp /\ Len(pipe[n]) < PipeCapacity

\* To a queue that is not in the list, or when the write fails: ERROR, the
\* client keeps the buffer.  On ERROR_ABORT it keeps it too and detaches, as the
\* header asks.
Send(p, n) ==
    /\ qPc[p] = "idle" /\ n # p
    /\ \E b \in qOwned[p] :
        \/ UNCHANGED <<pipe, qOwned, sendQueues, qFree>>
        \/ /\ GetFD(p, n) /\ WriteAborts(n)
           /\ LET i == Min({j \in DOMAIN sendQueues[p] : sendQueues[p][j].name = n})
              IN  DettachNode(p, n, sendQueues[p][i].group)
           /\ UNCHANGED <<pipe, qOwned>>
        \/ /\ GetFD(p, n) /\ WriteTaken(n)
           /\ pipe' = [pipe EXCEPT ![n] = Append(@, [src |-> p, bfr |-> b])]
           /\ qOwned' = [qOwned EXCEPT ![p] = @ \ {b}]
           /\ UNCHANGED <<sendQueues, qFree>>
    /\ UNCHANGED <<qTable, qUp, qOpened, qPc, qReg, qDelivery, qDisturbed, qOps>>

-----------------------------------------------------------------------------
(* radQueueSendGroup *)

\* The queues of a group, but for that of record 0, which no traversal sees.
Members(g) == {qTable[i].name : i \in {j \in DOMAIN qTable : j > 1 /\ qTable[j].group = g}}

\* qdbIsUpdateFlagSet clears the flag it reports.
SendGroup(p, g) ==
    /\ qPc[p] = "idle"
    /\ \E b \in qOwned[p] :
        LET mine == {i \in DOMAIN qTable : qTable[i].name = p /\ qTable[i].group = g}
            flagged == {i \in mine : qTable[i].updateFlag = 1}
        IN  /\ qOwned' = [qOwned EXCEPT ![p] = @ \ {b}]
            /\ QGoto(p, IF flagged # {} THEN "update" ELSE "group",
                    [NoReg EXCEPT !.group = g, !.sys = b, !.back = "update"])
            /\ qTable' = [i \in DOMAIN qTable |->
                            IF i \in flagged THEN [qTable[i] EXCEPT !.updateFlag = 0]
                            ELSE qTable[i]]
            /\ qDelivery' = [qDelivery EXCEPT ![p] =
                    [group |-> g, got |-> {},
                     due |-> IF mine # {} THEN Members(g) \ {p} ELSE {}]]
    /\ UNCHANGED <<qUp, sendQueues, qOpened, pipe, qFree, qDisturbed, qOps>>

\* qSendListUpdate: attach to the names that are not in the list.
UpdateNext(p) ==
    /\ qPc[p] = "update"
    /\ IF Upcoming(p) = {} THEN QGoto(p, "group", [qReg[p] EXCEPT !.index = 0])
       ELSE QGoto(p, IF Advanced(p).target = p \/ GetFD(p, Advanced(p).target)
                    THEN "update" ELSE "attach", Advanced(p))
    /\ UNCHANGED <<qTable, qUp, sendQueues, qOpened, pipe, qFree, qOwned, qDelivery,
                   qDisturbed, qOps>>

\* One name, one copy of the message.  Without a buffer for the copy the call
\* ends and releases the message; after the last name too.
GroupNext(p) ==
    /\ qPc[p] = "group"
    /\ IF Upcoming(p) = {}
       THEN Return(p) /\ qFree' = qFree \cup {qReg[p].sys} /\ UNCHANGED qDisturbed
       ELSE IF Advanced(p).target = p
       THEN QGoto(p, "group", Advanced(p)) /\ UNCHANGED <<qFree, qDisturbed>>
       ELSE IF qFree = {}
       THEN SendGroupFails(p) /\ qDisturbed' = qDisturbed \cup {"missed"}
       ELSE /\ QGoto(p, "write", [Advanced(p) EXCEPT !.new = AnyFree])
            /\ qFree' = qFree \ {AnyFree}
            /\ UNCHANGED qDisturbed
    /\ UNCHANGED <<qTable, qUp, sendQueues, qOpened, pipe, qOwned, qDelivery, qOps>>

\* The copy is released on ERROR, because the queue is not in the list or the
\* write failed, and by nobody when its reader is gone (ERROR_ABORT).  The call
\* goes on with the next name, and answers OK in the end.
GroupWrite(p) ==
    LET n == qReg[p].target IN
    /\ qPc[p] = "write"
    /\ \/ /\ qFree' = qFree \cup {qReg[p].new}
          /\ qDisturbed' = IF GetFD(p, n) THEN qDisturbed \cup {"missed"} ELSE qDisturbed
          /\ UNCHANGED <<pipe, qDelivery>>
       \/ /\ GetFD(p, n) /\ WriteAborts(n)
          /\ UNCHANGED <<qFree, pipe, qDelivery, qDisturbed>>
       \/ /\ GetFD(p, n) /\ WriteTaken(n)
          /\ pipe' = [pipe EXCEPT ![n] = Append(@, [src |-> p, bfr |-> qReg[p].new])]
          /\ qDelivery' = [qDelivery EXCEPT ![p].got = @ \cup {n}]
          /\ UNCHANGED <<qFree, qDisturbed>>
    /\ QGoto(p, "group", [qReg[p] EXCEPT !.new = NoQBuf])
    /\ UNCHANGED <<qTable, qUp, sendQueues, qOpened, qOwned, qOps>>

-----------------------------------------------------------------------------
(* radQueueRecv, after which the receiver releases the buffer *)

Recv(p) ==
    /\ qPc[p] = "idle" /\ pipe[p] # <<>>
    /\ pipe' = [pipe EXCEPT ![p] = Tail(@)]
    /\ qFree' = qFree \cup {Head(pipe[p]).bfr}
    /\ UNCHANGED <<qTable, qUp, sendQueues, qOpened, qOwned, qPc, qReg, qDelivery,
                   qDisturbed, qOps>>

Release(p) ==
    /\ qPc[p] = "idle" /\ qOwned[p] # {}
    /\ qFree' = qFree \cup qOwned[p]
    /\ qOwned' = [qOwned EXCEPT ![p] = {}]
    /\ UNCHANGED <<qTable, qUp, sendQueues, qOpened, pipe, qPc, qReg, qDelivery,
                   qDisturbed, qOps>>

\* A client that releases the message of a failed group send, as the API
\* reference asks; it is not in QNext.  radBufferRls refuses a buffer that is
\* free, and takes one that is somebody else's by now.
ReleaseFailed(p) ==
    /\ qPc[p] = "failed"
    /\ Return(p)
    /\ qFree' = qFree \cup {qReg[p].failed}
    /\ UNCHANGED <<qTable, qUp, sendQueues, qOpened, pipe, qOwned, qDelivery,
                   qDisturbed, qOps>>

-----------------------------------------------------------------------------
\* radQueueSystemInit with initFlag: an empty table
QInit ==
    /\ qTable = <<>> /\ qUp = {} /\ qDisturbed = {} /\ qOps = 0
    /\ sendQueues = [p \in QNames |-> <<>>]
    /\ qOpened = [p \in QNames |-> {}]
    /\ pipe = [p \in QNames |-> <<>>]
    /\ qFree = QBufs /\ qOwned = [p \in QNames |-> {}]
    /\ qPc = [p \in QNames |-> "down"]
    /\ qReg = [p \in QNames |-> NoReg]
    /\ qDelivery = [p \in QNames |-> NoDelivery]

\* What process p may do next.
QStep(p) ==
    \/ QueueInit(p) \/ Exit(p) \/ ExitDelete(p) \/ ExitClose(p) \/ Die(p)
    \/ \E n \in QNames, g \in QGroups \cup {GroupAll} :
          ClientAttach(p, n, g) \/ ClientDettach(p, n, g)
    \/ AttachGet(p) \/ AttachOpen(p) \/ AttachOpenFails(p) \/ AttachRefused(p)
    \/ \E g \in QGroups : Join(p, g) \/ Quit(p, g)
    \/ JoinNext(p) \/ QuitNext(p)
    \/ Alloc(p) \/ Release(p) \/ Recv(p)
    \/ \E n \in QNames : Send(p, n)
    \/ \E g \in QGroups \cup {GroupAll} : SendGroup(p, g)
    \/ UpdateNext(p) \/ GroupNext(p) \/ GroupWrite(p)

QNext == \E p \in QNames : QStep(p)

QSpec == QInit /\ [][QNext]_qVars

-----------------------------------------------------------------------------
(* Properties *)

QTypeOK ==
    /\ qTable \in Seq([name : QNames, group : QGroups \cup {GroupAll}, updateFlag : {0, 1}])
    /\ Len(qTable) <= MaxQueueRecords
    /\ qUp \subseteq QNames /\ qOpened \in [QNames -> SUBSET QNames]
    /\ \A p \in QNames : Len(pipe[p]) <= PipeCapacity
    /\ qFree \subseteq QBufs /\ qOwned \in [QNames -> SUBSET QBufs]
    /\ qPc \in [QNames -> {"down", "idle", "exit", "close", "attach", "open", "refused",
                           "join", "quit", "update", "group", "write", "failed"}]

\* The places that hold buffer b: the free pool, a client, a node of a send
\* list, a message in a FIFO, a call under way.
Holders(b) ==
    (IF b \in qFree THEN {<<"free">>} ELSE {})
    \cup {<<"client", p>> : p \in {q \in QNames : b \in qOwned[q]}}
    \cup (UNION {{<<"node", p, i>> : i \in {j \in DOMAIN sendQueues[p] :
                                               sendQueues[p][j].node = b}} : p \in QNames})
    \cup (UNION {{<<"pipe", p, i>> : i \in {j \in DOMAIN pipe[p] :
                                               pipe[p][j].bfr = b}} : p \in QNames})
    \cup {<<"sys", p>> : p \in {q \in QNames : qReg[q].sys = b}}
    \cup {<<"new", p>> : p \in {q \in QNames : qReg[q].new = b}}

\* Ownership of a system buffer passes from hand to hand (radQueueSend): no
\* buffer has two holders, so none is released twice or read after release.
OneHolder == \A b \in QBufs : Cardinality(Holders(b)) <= 1

\* A buffer is leaked only once a process has gone: with the one that was killed,
\* by the ERROR_ABORT that radQueueSendGroup does not look at, or with what was
\* unread in a FIFO.
LeakNeedsExit ==
    "gone" \notin qDisturbed => \A b \in QBufs : Holders(b) # {}

\* A group send of a member reaches every other queue of the group that a
\* traversal can see, as long as nothing has disturbed it: no process has gone,
\* no client has quit a group or dettached, and no group call was refused a
\* buffer, an open or a write.  Clients may attach to whom they like.
GroupSendReachesAll ==
    \A p \in QNames :
        qPc[p] = "idle" /\ qDisturbed = {} => qDelivery[p].due \subseteq qDelivery[p].got

\* A queue is listed with QUEUE_GROUP_ALL as long as it is up, never twice in
\* one group, and every send list names an open FIFO, once per group.
ListsSound ==
    /\ \A p \in QNames : qPc[p] \notin {"down", "close"} => Has(qTable, p, GroupAll)
    /\ \A i, j \in DOMAIN qTable :
          i # j => qTable[i].name # qTable[j].name \/ qTable[i].group # qTable[j].group
    /\ \A p \in QNames : LET s == sendQueues[p] IN
          \A i \in DOMAIN s : /\ s[i].name \in qOpened[p]
                              /\ \A j \in DOMAIN s : i # j => s[i].name # s[j].name
                                                             \/ s[i].group # s[j].group

\* The table, the send lists and the buffers between them: what is listed is
\* open, what is open is listed, and no buffer is lost but with its reader.
QueuesSound == QTypeOK /\ ListsSound /\ LeakNeedsExit
===============================================================================
