--------------------------- MODULE RadQueueProofs ---------------------------
(***************************************************************************)
(* Theorems about RadQueue, for any number of queues, groups and buffers,  *)
(* any size of the table and of the FIFOs, and for every interleaving of   *)
(* the calls, about RadReflector, for any lengths of headers, reads and    *)
(* FIFOs, and about Mm, for any pool, blocks and processes that share it.  *)
(***************************************************************************)
EXTENDS RadQueue, RadReflector, Mm, CommonLemmas, FiniteSetTheorems

------------------------------------------------------------------------------
(* The invariant *)

AnyGroup == QGroups \cup {GroupAll}
QRec == [name : QNames, group : AnyGroup, updateFlag : {0, 1}]
SendNode == [name : QNames, group : AnyGroup, node : QBufs]
Message == [src : QNames, bfr : QBufs]

\* The locals of a call.
QRegs == [group : AnyGroup, index : Nat, target : QNames \cup {NoName},
          sys : QBufs \cup {NoQBuf}, new : QBufs \cup {NoQBuf},
          failed : QBufs \cup {NoQBuf}, back : {"idle", "join", "update"}]

\* The states of the variables whose changes need no thought.
QueueTypes ==
    /\ qUp \subseteq QNames /\ qOpened \in [QNames -> SUBSET QNames]
    /\ qFree \subseteq QBufs /\ qOwned \in [QNames -> SUBSET QBufs]
    /\ qPc \in [QNames -> {"down", "idle", "exit", "close", "attach", "open", "refused",
                           "join", "quit", "update", "group", "write", "failed"}]
    /\ qReg \in [QNames -> QRegs]
    /\ DOMAIN sendQueues = QNames /\ DOMAIN pipe = QNames

\* No record is there twice, and the table does not outgrow its room.
NoDup(t) == \A i, j \in DOMAIN t : i # j => t[i].name # t[j].name \/ t[i].group # t[j].group
TableOK(t) == t \in Seq(QRec) /\ Len(t) <= MaxQueueRecords /\ NoDup(t)

\* A send list: what it names is in o, the FIFOs that are open; no two nodes
\* are for the same FIFO and group, nor in the same buffer.
SendList(s, o) ==
    /\ s \in Seq(SendNode)
    /\ \A i \in DOMAIN s :
          /\ s[i].name \in o
          /\ \A j \in DOMAIN s : i # j => /\ s[i].name # s[j].name \/ s[i].group # s[j].group
                                          /\ s[i].node # s[j].node

\* A FIFO: no buffer is in it twice.
Fifo(s) ==
    /\ s \in Seq(Message) /\ Len(s) <= PipeCapacity
    /\ \A i, j \in DOMAIN s : s[i].bfr = s[j].bfr => i = j

\* Which of its locals a process uses where: only radQueueAttach and the write
\* of a group send have a new buffer, only a group send has a message.
Sending(pc, reg) == \/ pc \in {"update", "group", "write"}
                    \/ pc \in {"attach", "open", "refused"} /\ reg.back = "update"

\* pc and reg fit together, for a process that holds own and has list s.
Locals(pc, reg, own, s) ==
    /\ reg.new # NoQBuf <=> pc \in {"open", "write"}
    /\ reg.sys # NoQBuf <=> Sending(pc, reg)
    /\ pc \in {"attach", "open", "refused"} =>
          /\ reg.back \in {"idle", "join", "update"} /\ reg.target \in QNames
          /\ reg.back = "join" => reg.group \in QGroups
    /\ pc \in {"join", "quit"} => reg.group \in QGroups
    /\ pc = "open" => ~Has(s, reg.target, reg.group)
    /\ pc = "write" => reg.target \in QNames
    /\ pc = "update" => reg.back = "update"
    /\ pc = "join" => reg.back = "join"
    /\ pc \in {"exit", "close", "down"} => own = {} /\ s = <<>>

\* The places a buffer can be in, and what is in them.
QPlaces == {<<"free", NoName>>} \cup ({"client", "node", "pipe", "sys", "new"} \X QNames)

NodesOf(s) == {s[i].node : i \in DOMAIN s}
MsgsOf(s) == {s[i].bfr : i \in DOMAIN s}
HeldIn(r) == IF r = NoQBuf THEN {} ELSE {r}

InPlace ==
    [x \in QPlaces |-> CASE x[1] = "free" -> qFree
                         [] x[1] = "client" -> qOwned[x[2]]
                         [] x[1] = "node" -> NodesOf(sendQueues[x[2]])
                         [] x[1] = "pipe" -> MsgsOf(pipe[x[2]])
                         [] x[1] = "sys" -> HeldIn(qReg[x[2]].sys)
                         [] x[1] = "new" -> HeldIn(qReg[x[2]].new)]

Disjoint(h) == \A x, y \in QPlaces : x # y => h[x] \cap h[y] = {}
AllIn(h) == \A b \in QBufs : \E x \in QPlaces : b \in h[x]

\* Until a process has gone every buffer is somewhere, and the FIFOs that are open
\* for writing have a reader.
NothingLost ==
    "gone" \notin qDisturbed =>
        /\ AllIn(InPlace)
        /\ \A p \in QNames : qOpened[p] \subseteq qUp /\ qPc[p] # "close"

\* A process that has not begun to exit is listed with QUEUE_GROUP_ALL.
Listed == \A p \in QNames : qPc[p] \notin {"down", "close"} => Has(qTable, p, GroupAll)

ListsKept == \A p \in QNames : SendList(sendQueues[p], qOpened[p])
FifosKept == \A p \in QNames : Fifo(pipe[p])
LocalsFit == \A p \in QNames : Locals(qPc[p], qReg[p], qOwned[p], sendQueues[p])

QueueInv ==
    /\ QueueTypes /\ TableOK(qTable) /\ ListsKept /\ FifosKept /\ LocalsFit
    /\ Listed /\ Disjoint(InPlace) /\ NothingLost

------------------------------------------------------------------------------
(* The table: what the routines qdb... keep *)

\* Setting update flags changes no name and no group.
LEMMA Reflagged ==
  ASSUME NEW t, TableOK(t), NEW u, DOMAIN u = DOMAIN t, u = [i \in DOMAIN u |-> u[i]],
         \A i \in DOMAIN t : u[i] = t[i] \/ \E v \in {0, 1} : u[i] = [t[i] EXCEPT !.updateFlag = v]
  PROVE  /\ TableOK(u) /\ Len(u) = Len(t)
         /\ \A i \in DOMAIN t : u[i].name = t[i].name /\ u[i].group = t[i].group
         /\ \A q, g : Has(u, q, g) <=> Has(t, q, g)
<1>1. t \in Seq(QRec) /\ Len(t) \in Nat /\ DOMAIN t = 1..Len(t) /\ \A i \in DOMAIN t : t[i] \in QRec
  BY DEF TableOK
<1>2. ASSUME NEW i \in DOMAIN t
      PROVE  u[i] \in QRec /\ u[i].name = t[i].name /\ u[i].group = t[i].group
  <2>1. t[i] \in QRec
    BY <1>1
  <2>2. CASE u[i] = t[i]
    BY <2>1, <2>2
  <2>3. ASSUME NEW v \in {0, 1}, u[i] = [t[i] EXCEPT !.updateFlag = v]
        PROVE  u[i] \in QRec /\ u[i].name = t[i].name /\ u[i].group = t[i].group
    BY <2>1, <2>3 DEF QRec
  <2> QED BY <2>2, <2>3
<1>3. u \in Seq(QRec)
  <2>1. u \in [1..Len(t) -> QRec]
    BY <1>1, <1>2
  <2> QED BY <1>1, <2>1
<1>4. Len(u) = Len(t)
  BY <1>1, <1>3
<1>5. NoDup(u)
  BY <1>2 DEF NoDup, TableOK
<1>6. \A q, g : Has(u, q, g) <=> Has(t, q, g)
  BY <1>2 DEF Has
<1> QED BY <1>2, <1>3, <1>4, <1>5, <1>6 DEF TableOK

\* Removing a record keeps every other one.
LEMMA RecordRemoved ==
  ASSUME NEW t, TableOK(t), NEW i \in DOMAIN t
  PROVE  /\ TableOK(RemoveAt(t, i)) /\ Len(RemoveAt(t, i)) < Len(t)
         /\ \A q, g : Has(t, q, g) /\ (q # t[i].name \/ g # t[i].group) => Has(RemoveAt(t, i), q, g)
<1> DEFINE u == RemoveAt(t, i)
<1>1. t \in Seq(QRec) /\ Len(t) \in Nat /\ DOMAIN t = 1..Len(t) /\ i \in 1..Len(t)
      /\ Len(t) <= MaxQueueRecords /\ MaxQueueRecords \in Nat
  BY QAssumption DEF TableOK
<1>2. /\ u \in Seq(QRec) /\ Len(u) = Len(t) - 1 /\ DOMAIN u = 1..(Len(t) - 1)
      /\ \A j \in 1..(Len(t) - 1) : u[j] = IF j < i THEN t[j] ELSE t[j + 1]
  <2>1. /\ u \in Seq(QRec) /\ Len(u) = Len(t) - 1
        /\ \A j \in 1..(Len(t) - 1) : u[j] = IF j < i THEN t[j] ELSE t[j + 1]
    BY <1>1, RemoveAtIs
  <2> HIDE DEF u
  <2> QED BY SMTT(60), <2>1, <1>1, LenProperties
<1> HIDE DEF u
<1>3. NoDup(u)
  <2> SUFFICES ASSUME NEW j \in DOMAIN u, NEW k \in DOMAIN u, j # k
               PROVE  u[j].name # u[k].name \/ u[j].group # u[k].group
    BY DEF NoDup
  <2> DEFINE J == IF j < i THEN j ELSE j + 1
             K == IF k < i THEN k ELSE k + 1
  <2>1. J \in DOMAIN t /\ K \in DOMAIN t /\ J # K
    BY <1>1, <1>2
  <2>2. u[j] = t[J] /\ u[k] = t[K]
    BY <1>2
  <2> HIDE DEF J, K
  <2> QED BY <2>1, <2>2 DEF TableOK, NoDup
<1>4. ASSUME NEW q, NEW g, Has(t, q, g), q # t[i].name \/ g # t[i].group PROVE Has(u, q, g)
  <2>1. PICK j \in DOMAIN t : t[j].name = q /\ t[j].group = g
    BY <1>4 DEF Has
  <2>2. j # i
    BY <1>4, <2>1
  <2>3. CASE j < i
    <3>1. j \in 1..(Len(t) - 1) /\ u[j] = t[j]
      BY <2>3, <1>1, <1>2
    <3> QED BY <3>1, <2>1, <1>2 DEF Has
  <2>4. CASE j > i
    <3>1. j - 1 \in 1..(Len(t) - 1) /\ ~(j - 1 < i) /\ (j - 1) + 1 = j
      BY <2>4, <1>1
    <3>2. u[j - 1] = t[j]
      BY <3>1, <1>2
    <3> QED BY <3>1, <3>2, <2>1, <1>2 DEF Has
  <2> QED BY <2>2, <2>3, <2>4, <1>1
<1>5. Len(u) < Len(t) /\ Len(u) <= MaxQueueRecords
  BY <1>1, <1>2
<1> QED BY <1>2, <1>3, <1>4, <1>5 DEF TableOK, u

\* qdbAddQueue lists the name, and keeps what is listed.
LEMMA AddIs ==
  ASSUME NEW t, TableOK(t), NEW n \in QNames, NEW g \in AnyGroup, ~qdbFull(t, n, g)
  PROVE  /\ TableOK(qdbAddQueue(t, n, g)) /\ Has(qdbAddQueue(t, n, g), n, g)
         /\ \A q, h : Has(t, q, h) => Has(qdbAddQueue(t, n, g), q, h)
<1>1. CASE Has(t, n, g)
  BY <1>1 DEF qdbAddQueue
<1>2. CASE ~Has(t, n, g)
  <2> DEFINE u == [i \in DOMAIN t |-> IF t[i].group = g THEN [t[i] EXCEPT !.updateFlag = 1]
                                      ELSE t[i]]
             v == Append(u, Rec(n, g))
  <2>1. qdbAddQueue(t, n, g) = v
    BY <1>2 DEF qdbAddQueue
  <2>2. DOMAIN u = DOMAIN t /\ u = [i \in DOMAIN u |-> u[i]]
    OBVIOUS
  <2>3. \A i \in DOMAIN t : u[i] = t[i] \/ \E f \in {0, 1} : u[i] = [t[i] EXCEPT !.updateFlag = f]
    OBVIOUS
  <2> HIDE DEF u
  <2>4. /\ TableOK(u) /\ Len(u) = Len(t)
        /\ \A q, h : Has(u, q, h) <=> Has(t, q, h)
    BY <2>2, <2>3, Reflagged
  <2>5. /\ u \in Seq(QRec) /\ Len(u) \in Nat /\ DOMAIN u = 1..Len(u)
        /\ MaxQueueRecords \in Nat /\ Len(u) < MaxQueueRecords
    <3>1. u \in Seq(QRec)
      BY <2>4 DEF TableOK
    <3>2. Len(t) \in Nat /\ Len(t) < MaxQueueRecords /\ MaxQueueRecords \in Nat
      BY <1>2, QAssumption DEF qdbFull, TableOK
    <3> QED BY <2>4, <3>1, <3>2
  <2>6. Rec(n, g) \in QRec /\ Rec(n, g).name = n /\ Rec(n, g).group = g
    BY DEF Rec, QRec
  <2>7. /\ v \in Seq(QRec) /\ Len(v) = Len(u) + 1 /\ DOMAIN v = 1..(Len(u) + 1)
        /\ v[Len(u) + 1] = Rec(n, g) /\ \A i \in 1..Len(u) : v[i] = u[i]
    BY <2>5, <2>6
  <2> HIDE DEF v
  <2>8. ~Has(u, n, g)
    BY <1>2, <2>4
  <2>9. NoDup(v)
    <3> SUFFICES ASSUME NEW i \in DOMAIN v, NEW j \in DOMAIN v, i # j
                 PROVE  v[i].name # v[j].name \/ v[i].group # v[j].group
      BY DEF NoDup
    <3>1. CASE i \in 1..Len(u) /\ j \in 1..Len(u)
      BY <3>1, <2>4, <2>5, <2>7 DEF TableOK, NoDup
    <3>2. CASE i = Len(u) + 1
      <4>1. j \in 1..Len(u) /\ v[j] = u[j] /\ v[i] = Rec(n, g)
        BY <3>2, <2>5, <2>7
      <4> QED BY <4>1, <2>5, <2>6, <2>8 DEF Has
    <3>3. CASE j = Len(u) + 1
      <4>1. i \in 1..Len(u) /\ v[i] = u[i] /\ v[j] = Rec(n, g)
        BY <3>3, <2>5, <2>7
      <4> QED BY <4>1, <2>5, <2>6, <2>8 DEF Has
    <3> QED BY <3>1, <3>2, <3>3, <2>5, <2>7
  <2>10. Has(v, n, g)
    <3>1. Len(u) + 1 \in DOMAIN v
      BY <2>5, <2>7
    <3> QED BY <3>1, <2>6, <2>7 DEF Has
  <2>11. \A q, h : Has(t, q, h) => Has(v, q, h)
    <3> SUFFICES ASSUME NEW q, NEW h, Has(u, q, h) PROVE Has(v, q, h)
      BY <2>4
    <3>1. PICK i \in 1..Len(u) : u[i].name = q /\ u[i].group = h
      BY <2>5 DEF Has
    <3>2. i \in DOMAIN v /\ v[i] = u[i]
      BY <2>5, <2>7
    <3> QED BY <3>1, <3>2 DEF Has
  <2>12. Len(v) <= MaxQueueRecords
    BY <2>5, <2>7
  <2> QED BY <2>1, <2>7, <2>9, <2>10, <2>11, <2>12 DEF TableOK
<1> QED BY <1>1, <1>2

\* qdbDeleteQueue for one group removes no record but the one it was asked for.
LEMMA DeleteOneIs ==
  ASSUME NEW t, TableOK(t), NEW n, NEW g
  PROVE  /\ TableOK(DeleteOne(t, n, g))
         /\ \A q, h : Has(t, q, h) /\ (q # n \/ h # g) => Has(DeleteOne(t, n, g), q, h)
<1> DEFINE found == {i \in DOMAIN t : t[i].name = n /\ t[i].group = g}
           Flag(to) == [i \in DOMAIN t |-> IF i <= to /\ t[i].group = g
                                           THEN [t[i] EXCEPT !.updateFlag = 1] ELSE t[i]]
<1>1. DeleteOne(t, n, g) = IF found = {} THEN Flag(Len(t))
                           ELSE RemoveAt(Flag(Min(found)), Min(found))
  BY DEF DeleteOne
<1>2. ASSUME NEW to
      PROVE  /\ TableOK(Flag(to)) /\ DOMAIN Flag(to) = DOMAIN t
             /\ \A i \in DOMAIN t : Flag(to)[i].name = t[i].name /\ Flag(to)[i].group = t[i].group
             /\ \A q, h : Has(Flag(to), q, h) <=> Has(t, q, h)
  <2> DEFINE u == Flag(to)
  <2>1. DOMAIN u = DOMAIN t /\ u = [i \in DOMAIN u |-> u[i]]
    OBVIOUS
  <2>2. \A i \in DOMAIN t : u[i] = t[i] \/ \E f \in {0, 1} : u[i] = [t[i] EXCEPT !.updateFlag = f]
    OBVIOUS
  <2> HIDE DEF u, found, Flag
  <2>3. TableOK(u) /\ \A q, h : Has(u, q, h) <=> Has(t, q, h)
    BY <2>1, <2>2, Reflagged
  <2>4. ASSUME NEW i \in DOMAIN t PROVE u[i].name = t[i].name /\ u[i].group = t[i].group
    <3>1. t[i] \in QRec
      BY DEF TableOK
    <3>2. CASE u[i] = t[i]
      BY <3>2
    <3>3. ASSUME NEW f \in {0, 1}, u[i] = [t[i] EXCEPT !.updateFlag = f]
          PROVE  u[i].name = t[i].name /\ u[i].group = t[i].group
      BY <3>1, <3>3 DEF QRec
    <3> QED BY <2>2, <3>2, <3>3
  <2> QED BY <2>1, <2>3, <2>4 DEF u
<1>3. CASE found = {}
  <2> HIDE DEF Flag
  <2> QED BY <1>1, <1>2, <1>3
<1>4. CASE found # {}
  <2>1. Min(found) \in found
    <3>1. t \in Seq(QRec)
      BY DEF TableOK
    <3>2. found \in SUBSET Nat
      BY <3>1
    <3> HIDE DEF found
    <3> QED BY <1>4, <3>2, LeastNat DEF Min
  <2> DEFINE k == Min(found)
  <2>2. k \in DOMAIN t /\ t[k].name = n /\ t[k].group = g
    BY <2>1
  <2> HIDE DEF found, Flag, k
  <2>3. DeleteOne(t, n, g) = RemoveAt(Flag(k), k)
    BY <1>1, <1>4 DEF k
  <2> QED BY <1>2, <2>2, <2>3, RecordRemoved
<1> QED BY <1>3, <1>4

\* What a scan for QUEUE_GROUP_ALL leaves of table t.
LeavesOf(t, n) ==
    {u \in Seq(QRec) : /\ TableOK(u) /\ Len(u) <= Len(t)
                       /\ \A q, g : Has(t, q, g) /\ q # n => Has(u, q, g)}

LEMMA LookAtIs ==
  ASSUME NEW t, NEW n, NEW s \in [at : Nat \ {0}, table : LeavesOf(t, n)], t \in Seq(QRec)
  PROVE  LookAt(s, n) \in [at : Nat \ {0}, table : LeavesOf(t, n)]
<1> DEFINE u == s.table
           a == s.at
           flagged == IF u[a].group = GroupAll THEN [u EXCEPT ![a].updateFlag = 1] ELSE u
<1>1. /\ a \in Nat \ {0} /\ u \in Seq(QRec) /\ TableOK(u) /\ Len(u) <= Len(t)
      /\ Len(u) \in Nat /\ Len(t) \in Nat
      /\ \A q, g : Has(t, q, g) /\ q # n => Has(u, q, g)
  <2>1. a \in Nat \ {0} /\ u \in LeavesOf(t, n)
    OBVIOUS
  <2> HIDE DEF u
  <2> QED BY <2>1 DEF LeavesOf
<1>2. CASE a > Len(u)
  BY <1>2 DEF LookAt
<1>3. CASE ~(a > Len(u))
  <2>1. a \in DOMAIN u /\ a \in 1..Len(u)
    BY <1>1, <1>3
  <2>2. LookAt(s, n) = [at |-> a + 1,
                        table |-> IF u[a].name = n THEN RemoveAt(flagged, a) ELSE flagged]
    BY <1>3 DEF LookAt
  <2> HIDE DEF a, u
  <2>3. DOMAIN flagged = DOMAIN u /\ flagged = [i \in DOMAIN flagged |-> flagged[i]]
    BY SMTT(60), <1>1
  <2>4. \A i \in DOMAIN u : \/ flagged[i] = u[i]
                            \/ \E f \in {0, 1} : flagged[i] = [u[i] EXCEPT !.updateFlag = f]
    <3>1. CASE u[a].group = GroupAll
      <4>1. flagged = [u EXCEPT ![a] = [u[a] EXCEPT !.updateFlag = 1]]
        BY <3>1
      <4> QED BY <4>1, <2>1
    <3>2. CASE u[a].group # GroupAll
      BY <3>2
    <3> QED BY <3>1, <3>2
  <2> HIDE DEF flagged
  <2>5. /\ TableOK(flagged) /\ Len(flagged) = Len(u)
        /\ \A i \in DOMAIN u : flagged[i].name = u[i].name /\ flagged[i].group = u[i].group
        /\ \A q, g : Has(flagged, q, g) <=> Has(u, q, g)
    BY <1>1, <2>3, <2>4, Reflagged
  <2>6. flagged \in LeavesOf(t, n)
    BY <1>1, <2>5 DEF LeavesOf, TableOK
  <2>7. ASSUME u[a].name = n PROVE RemoveAt(flagged, a) \in LeavesOf(t, n)
    <3>1. /\ TableOK(RemoveAt(flagged, a)) /\ Len(RemoveAt(flagged, a)) < Len(flagged)
          /\ \A q, g : Has(flagged, q, g) /\ (q # flagged[a].name \/ g # flagged[a].group)
                          => Has(RemoveAt(flagged, a), q, g)
      BY <2>1, <2>3, <2>5, RecordRemoved
    <3>2. RemoveAt(flagged, a) \in Seq(QRec) /\ Len(RemoveAt(flagged, a)) \in Nat
      BY <3>1 DEF TableOK
    <3>3. Len(RemoveAt(flagged, a)) <= Len(t)
      BY <1>1, <2>5, <3>1, <3>2
    <3>4. \A q, g : Has(t, q, g) /\ q # n => Has(RemoveAt(flagged, a), q, g)
      BY <1>1, <2>1, <2>5, <2>7, <3>1
    <3> QED BY <3>1, <3>2, <3>3, <3>4 DEF LeavesOf
  <2>8. a + 1 \in Nat \ {0}
    BY <1>1
  <2> QED BY <2>2, <2>6, <2>7, <2>8
<1> QED BY <1>2, <1>3

\* qdbDeleteQueue for QUEUE_GROUP_ALL removes no record of another queue.
LEMMA DeleteAllIs ==
  ASSUME NEW t, TableOK(t), NEW n
  PROVE  DeleteAll(t, n) \in LeavesOf(t, n)
<1> DEFINE L == Len(t)
           S == [at : Nat \ {0}, table : LeavesOf(t, n)]
           start == [at |-> 1, table |-> t]
           eqn(g) == [k \in 0..L |-> IF k = 0 THEN start ELSE LookAt(g[k - 1], n)]
           Scan == CHOOSE g : g = eqn(g)
           step == [x \in Nat \X S |-> LookAt(x[2], n)]
<1>1. DeleteAll(t, n) = Scan[L].table
  BY DEF DeleteAll
<1>2. t \in Seq(QRec) /\ L \in Nat /\ start \in S
  <2>1. t \in Seq(QRec) /\ L \in Nat
    BY DEF TableOK
  <2>2. t \in LeavesOf(t, n)
    BY <2>1 DEF LeavesOf
  <2> QED BY <2>1, <2>2
<1> HIDE DEF start, L
<1>3. \A s \in S : LookAt(s, n) \in S
  BY <1>2, LookAtIs
<1> HIDE DEF S
<1>4. PICK f \in [Nat -> S] : f[0] = start /\ \A k \in Nat : f[k + 1] = LookAt(f[k], n)
  <2>1. step \in [Nat \X S -> S]
    BY <1>3
  <2>2. Iterates(S, start, step)
    <3> HIDE DEF step
    <3> QED BY <1>2, <2>1, Recursion
  <2>3. PICK f \in [Nat -> S] : f[0] = start /\ \A k \in Nat : f[k + 1] = step[<<k, f[k]>>]
    <3> HIDE DEF step
    <3> QED BY <2>2 DEF Iterates
  <2>4. \A k \in Nat : f[k + 1] = LookAt(f[k], n)
    BY <2>3
  <2> QED BY <2>3, <2>4
<1>5. \E g : g = eqn(g)
  <2> DEFINE g == [k \in 0..L |-> f[k]]
  <2>1. ASSUME NEW k \in 0..L PROVE g[k] = eqn(g)[k]
    <3>1. CASE k = 0
      BY <3>1, <1>4
    <3>2. CASE k # 0
      <4>1. k - 1 \in Nat /\ (k - 1) + 1 = k /\ k - 1 \in 0..L
        BY <3>2, <1>2
      <4>2. f[k] = LookAt(f[k - 1], n)
        BY <4>1, <1>4
      <4> QED BY <3>2, <4>1, <4>2
    <3> QED BY <3>1, <3>2
  <2>2. g = eqn(g)
    BY <2>1
  <2> QED BY <2>2
<1>6. Scan = eqn(Scan)
  <2> HIDE DEF eqn
  <2> QED BY <1>5
<1> HIDE DEF Scan
<1> DEFINE T == {k \in Nat : k <= L => Scan[k] \in S}
<1>7. 0 \in T
  BY <1>2, <1>6
<1>8. ASSUME NEW k \in T PROVE k + 1 \in T
  <2> SUFFICES ASSUME k + 1 <= L PROVE Scan[k + 1] \in S
    OBVIOUS
  <2>1. k \in Nat /\ Scan[k] \in S /\ k + 1 \in 0..L /\ k + 1 # 0 /\ (k + 1) - 1 = k
    BY <1>2
  <2>2. Scan[k + 1] = LookAt(Scan[k], n)
    BY <1>6, <2>1
  <2> QED BY <1>3, <2>1, <2>2
<1>9. T = Nat
  <2>1. T \subseteq Nat
    OBVIOUS
  <2> HIDE DEF T
  <2> QED BY <1>7, <1>8, <2>1, NatInd
<1>10. Scan[L] \in S
  <2>1. L \in T
    BY <1>2, <1>9
  <2> QED BY <1>2, <2>1
<1> QED BY <1>1, <1>10 DEF S

\* Either way only records of n go, and of one group only the one asked for.
LEMMA DeleteIs ==
  ASSUME NEW t, TableOK(t), NEW n, NEW g
  PROVE  /\ TableOK(qdbDeleteQueue(t, n, g))
         /\ \A q, h : Has(t, q, h) /\ q # n => Has(qdbDeleteQueue(t, n, g), q, h)
         /\ \A q, h : g # GroupAll /\ Has(t, q, h) /\ h # g => Has(qdbDeleteQueue(t, n, g), q, h)
<1>1. CASE g = GroupAll
  <2>1. DeleteAll(t, n) \in LeavesOf(t, n)
    BY DeleteAllIs
  <2> QED BY <1>1, <2>1 DEF qdbDeleteQueue, LeavesOf
<1>2. CASE g # GroupAll
  BY <1>2, DeleteOneIs DEF qdbDeleteQueue
<1> QED BY <1>1, <1>2

------------------------------------------------------------------------------
(* The send lists and the FIFOs *)

\* A new node at the end of a send list.
LEMMA NodeAdded ==
  ASSUME NEW s, NEW o, SendList(s, o), NEW nd \in SendNode,
         ~Has(s, nd.name, nd.group), nd.node \notin NodesOf(s)
  PROVE  /\ SendList(Append(s, nd), o \cup {nd.name})
         /\ \A b : b \in NodesOf(Append(s, nd)) <=> b \in NodesOf(s) \/ b = nd.node
<1> DEFINE t == Append(s, nd)
<1>1. s \in Seq(SendNode) /\ Len(s) \in Nat /\ DOMAIN s = 1..Len(s)
  BY DEF SendList
<1>2. /\ t \in Seq(SendNode) /\ Len(t) = Len(s) + 1 /\ DOMAIN t = 1..(Len(s) + 1)
      /\ t[Len(s) + 1] = nd /\ \A i \in 1..Len(s) : t[i] = s[i]
  BY <1>1
<1> HIDE DEF t
<1>3. \A i \in DOMAIN t : i \in DOMAIN s \/ i = Len(s) + 1
  BY <1>1, <1>2
<1>4. \A i \in DOMAIN s : i \in DOMAIN t /\ t[i] = s[i] /\ i # Len(s) + 1
  BY <1>1, <1>2
<1>5. Len(s) + 1 \in DOMAIN t
  BY <1>1, <1>2
<1>6. ASSUME NEW i \in DOMAIN s
      PROVE  /\ s[i].name \in o
             /\ s[i].name # nd.name \/ s[i].group # nd.group
             /\ s[i].node # nd.node
  BY DEF SendList, Has, NodesOf
<1>7. ASSUME NEW i \in DOMAIN t, NEW j \in DOMAIN t, i # j
      PROVE  /\ t[i].name # t[j].name \/ t[i].group # t[j].group
             /\ t[i].node # t[j].node
  <2>1. CASE i \in DOMAIN s /\ j \in DOMAIN s
    BY <1>4, <1>7, <2>1 DEF SendList
  <2>2. CASE i = Len(s) + 1
    BY <1>2, <1>3, <1>4, <1>6, <1>7, <2>2
  <2>3. CASE j = Len(s) + 1
    BY <1>2, <1>3, <1>4, <1>6, <1>7, <2>3
  <2> QED BY <1>3, <2>1, <2>2, <2>3
<1>8. ASSUME NEW i \in DOMAIN t PROVE t[i].name \in o \cup {nd.name}
  BY <1>2, <1>3, <1>4, <1>6
<1>9. ASSUME NEW b PROVE b \in NodesOf(t) <=> b \in NodesOf(s) \/ b = nd.node
  <2>1. ASSUME b \in NodesOf(t) PROVE b \in NodesOf(s) \/ b = nd.node
    BY <2>1, <1>2, <1>3, <1>4 DEF NodesOf
  <2>2. ASSUME b \in NodesOf(s) PROVE b \in NodesOf(t)
    BY <2>2, <1>4 DEF NodesOf
  <2>3. nd.node \in NodesOf(t)
    BY <1>2, <1>5 DEF NodesOf
  <2> QED BY <2>1, <2>2, <2>3
<1>10. SendList(t, o \cup {nd.name})
  BY <1>2, <1>7, <1>8 DEF SendList
<1> QED BY <1>9, <1>10 DEF t

\* A node leaves a send list, and with it its buffer.
LEMMA NodeRemoved ==
  ASSUME NEW s, NEW o, SendList(s, o), NEW i \in DOMAIN s
  PROVE  /\ SendList(RemoveAt(s, i), o)
         /\ s[i].node \in QBufs
         /\ \A b : b \in NodesOf(RemoveAt(s, i)) <=> b \in NodesOf(s) /\ b # s[i].node
<1> DEFINE t == RemoveAt(s, i)
           From(j) == IF j < i THEN j ELSE j + 1
<1>1. s \in Seq(SendNode) /\ Len(s) \in Nat /\ DOMAIN s = 1..Len(s) /\ i \in 1..Len(s)
  BY DEF SendList
<1>2. /\ t \in Seq(SendNode) /\ DOMAIN t = 1..(Len(s) - 1)
      /\ \A j \in 1..(Len(s) - 1) : t[j] = IF j < i THEN s[j] ELSE s[j + 1]
  <2>1. /\ t \in Seq(SendNode) /\ Len(t) = Len(s) - 1
        /\ \A j \in 1..(Len(s) - 1) : t[j] = IF j < i THEN s[j] ELSE s[j + 1]
    BY <1>1, RemoveAtIs
  <2> HIDE DEF t
  <2> QED BY SMTT(60), <2>1, <1>1, LenProperties
<1> HIDE DEF t
<1>3. ASSUME NEW j \in DOMAIN t
      PROVE  From(j) \in DOMAIN s /\ From(j) # i /\ t[j] = s[From(j)] /\ j \in Int
  BY <1>1, <1>2
<1>4. ASSUME NEW j \in DOMAIN t, NEW k \in DOMAIN t, j # k PROVE From(j) # From(k)
  BY <1>2, <1>4, <1>1
<1>5. ASSUME NEW k \in DOMAIN s, k # i PROVE \E j \in DOMAIN t : t[j] = s[k]
  <2>1. CASE k < i
    <3>1. k \in 1..(Len(s) - 1) /\ t[k] = s[k]
      BY <2>1, <1>1, <1>2
    <3> QED BY <3>1, <1>2
  <2>2. CASE k > i
    <3>1. k - 1 \in 1..(Len(s) - 1) /\ ~(k - 1 < i) /\ (k - 1) + 1 = k
      BY <2>2, <1>1
    <3>2. t[k - 1] = s[k]
      BY <3>1, <1>2
    <3> QED BY <3>1, <3>2, <1>2
  <2> QED BY <2>1, <2>2, <1>1, <1>5
<1> HIDE DEF From
<1>6. SendList(t, o)
  <2>1. ASSUME NEW j \in DOMAIN t PROVE t[j].name \in o
    BY <1>3 DEF SendList
  <2>2. ASSUME NEW j \in DOMAIN t, NEW k \in DOMAIN t, j # k
        PROVE  /\ t[j].name # t[k].name \/ t[j].group # t[k].group
               /\ t[j].node # t[k].node
    <3>1. /\ From(j) \in DOMAIN s /\ From(k) \in DOMAIN s /\ From(j) # From(k)
          /\ t[j] = s[From(j)] /\ t[k] = s[From(k)]
      BY <1>3, <1>4, <2>2
    <3> QED BY <3>1 DEF SendList
  <2> QED BY <1>2, <2>1, <2>2 DEF SendList
<1>7. s[i].node \in QBufs
  <2>1. s[i] \in SendNode
    BY <1>1
  <2> QED BY <2>1 DEF SendNode
<1>8. ASSUME NEW b PROVE b \in NodesOf(t) <=> b \in NodesOf(s) /\ b # s[i].node
  <2>1. ASSUME b \in NodesOf(t) PROVE b \in NodesOf(s) /\ b # s[i].node
    <3>1. PICK j \in DOMAIN t : b = t[j].node
      BY <2>1 DEF NodesOf
    <3>2. From(j) \in DOMAIN s /\ From(j) # i /\ b = s[From(j)].node
      BY <1>3, <3>1
    <3> QED BY <3>2 DEF SendList, NodesOf
  <2>2. ASSUME b \in NodesOf(s), b # s[i].node PROVE b \in NodesOf(t)
    <3>1. PICK k \in DOMAIN s : b = s[k].node
      BY <2>2 DEF NodesOf
    <3>2. PICK j \in DOMAIN t : t[j] = s[k]
      BY <1>5, <2>2, <3>1
    <3> QED BY <3>1, <3>2 DEF NodesOf
  <2> QED BY <2>1, <2>2
<1> QED BY <1>6, <1>7, <1>8 DEF t

\* A message at the end of a FIFO that is not full.
LEMMA MessageWritten ==
  ASSUME NEW s, Fifo(s), Len(s) < PipeCapacity, NEW m \in Message, m.bfr \notin MsgsOf(s)
  PROVE  /\ Fifo(Append(s, m))
         /\ \A b : b \in MsgsOf(Append(s, m)) <=> b \in MsgsOf(s) \/ b = m.bfr
<1> DEFINE t == Append(s, m)
<1>1. s \in Seq(Message) /\ Len(s) \in Nat /\ DOMAIN s = 1..Len(s) /\ PipeCapacity \in Nat
  BY QAssumption DEF Fifo
<1>2. /\ t \in Seq(Message) /\ Len(t) = Len(s) + 1 /\ DOMAIN t = 1..(Len(s) + 1)
      /\ t[Len(s) + 1] = m /\ \A i \in 1..Len(s) : t[i] = s[i]
  BY <1>1
<1> HIDE DEF t
<1>3. \A i \in DOMAIN t : i \in DOMAIN s \/ i = Len(s) + 1
  BY <1>1, <1>2
<1>4. \A i \in DOMAIN s : i \in DOMAIN t /\ t[i] = s[i] /\ s[i].bfr # m.bfr
  BY <1>1, <1>2 DEF MsgsOf
<1>5. Len(s) + 1 \in DOMAIN t /\ Len(t) <= PipeCapacity
  BY <1>1, <1>2
<1>6. ASSUME NEW i \in DOMAIN t, NEW j \in DOMAIN t, t[i].bfr = t[j].bfr PROVE i = j
  BY <1>2, <1>3, <1>4, <1>6 DEF Fifo
<1>7. ASSUME NEW b PROVE b \in MsgsOf(t) <=> b \in MsgsOf(s) \/ b = m.bfr
  <2>1. ASSUME b \in MsgsOf(t) PROVE b \in MsgsOf(s) \/ b = m.bfr
    BY <2>1, <1>2, <1>3, <1>4 DEF MsgsOf
  <2>2. ASSUME b \in MsgsOf(s) PROVE b \in MsgsOf(t)
    BY <2>2, <1>4 DEF MsgsOf
  <2>3. m.bfr \in MsgsOf(t)
    BY <1>2, <1>5 DEF MsgsOf
  <2> QED BY <2>1, <2>2, <2>3
<1>8. Fifo(t)
  BY <1>2, <1>5, <1>6 DEF Fifo
<1> QED BY <1>7, <1>8 DEF t

\* The oldest message leaves a FIFO.
LEMMA MessageTaken ==
  ASSUME NEW s, Fifo(s), s # <<>>
  PROVE  /\ Fifo(Tail(s)) /\ Head(s).bfr \in MsgsOf(s) /\ Head(s).bfr \in QBufs
         /\ \A b : b \in MsgsOf(Tail(s)) <=> b \in MsgsOf(s) /\ b # Head(s).bfr
<1> DEFINE t == Tail(s)
<1>1. /\ s \in Seq(Message) /\ Len(s) \in Nat \ {0} /\ DOMAIN s = 1..Len(s)
      /\ PipeCapacity \in Nat /\ Len(s) <= PipeCapacity
  BY QAssumption DEF Fifo
<1>2. /\ t \in Seq(Message) /\ Len(t) = Len(s) - 1 /\ DOMAIN t = 1..(Len(s) - 1)
      /\ Head(s) = s[1] /\ \A i \in 1..(Len(s) - 1) : t[i] = s[i + 1]
  BY <1>1
<1> HIDE DEF t
<1>3. 1 \in DOMAIN s /\ Len(t) <= PipeCapacity /\ s[1] \in Message
  BY <1>1, <1>2
<1>4. \A i \in DOMAIN t : i + 1 \in DOMAIN s /\ i + 1 # 1 /\ t[i] = s[i + 1] /\ i \in Int
  BY <1>1, <1>2
<1>5. \A k \in DOMAIN s : k # 1 => k - 1 \in DOMAIN t /\ t[k - 1] = s[k]
  <2> SUFFICES ASSUME NEW k \in DOMAIN s, k # 1
               PROVE  k - 1 \in DOMAIN t /\ t[k - 1] = s[k]
    OBVIOUS
  <2>1. k - 1 \in 1..(Len(s) - 1) /\ (k - 1) + 1 = k
    BY <1>1
  <2> QED BY <2>1, <1>2
<1>6. ASSUME NEW i \in DOMAIN t, NEW j \in DOMAIN t, t[i].bfr = t[j].bfr PROVE i = j
  <2>1. i + 1 = j + 1
    BY <1>4, <1>6 DEF Fifo
  <2> QED BY <1>4, <2>1
<1>7. ASSUME NEW b PROVE b \in MsgsOf(t) <=> b \in MsgsOf(s) /\ b # s[1].bfr
  <2>1. ASSUME b \in MsgsOf(t) PROVE b \in MsgsOf(s) /\ b # s[1].bfr
    <3>1. PICK i \in DOMAIN t : b = t[i].bfr
      BY <2>1 DEF MsgsOf
    <3>2. i + 1 \in DOMAIN s /\ i + 1 # 1 /\ b = s[i + 1].bfr
      BY <1>4, <3>1
    <3> QED BY <3>2, <1>3 DEF Fifo, MsgsOf
  <2>2. ASSUME b \in MsgsOf(s), b # s[1].bfr PROVE b \in MsgsOf(t)
    <3>1. PICK k \in DOMAIN s : b = s[k].bfr
      BY <2>2 DEF MsgsOf
    <3>2. k - 1 \in DOMAIN t /\ t[k - 1] = s[k]
      BY <1>5, <2>2, <3>1
    <3> QED BY <3>1, <3>2 DEF MsgsOf
  <2> QED BY <2>1, <2>2
<1>8. s[1].bfr \in MsgsOf(s) /\ s[1].bfr \in QBufs
  BY <1>3 DEF MsgsOf, Message
<1>9. Fifo(t)
  BY <1>2, <1>3, <1>6 DEF Fifo
<1> QED BY <1>2, <1>7, <1>8, <1>9 DEF t

------------------------------------------------------------------------------
(* The places *)

\* What is in which place, before and after a step.
LEMMA PlacesAre ==
  ASSUME NEW p \in QNames
  PROVE  /\ /\ InPlace[<<"free", NoName>>] = qFree
            /\ InPlace[<<"client", p>>] = qOwned[p]
            /\ InPlace[<<"node", p>>] = NodesOf(sendQueues[p])
            /\ InPlace[<<"pipe", p>>] = MsgsOf(pipe[p])
            /\ InPlace[<<"sys", p>>] = HeldIn(qReg[p].sys)
            /\ InPlace[<<"new", p>>] = HeldIn(qReg[p].new)
         /\ /\ InPlace'[<<"free", NoName>>] = qFree'
            /\ InPlace'[<<"client", p>>] = qOwned'[p]
            /\ InPlace'[<<"node", p>>] = NodesOf(sendQueues'[p])
            /\ InPlace'[<<"pipe", p>>] = MsgsOf(pipe'[p])
            /\ InPlace'[<<"sys", p>>] = HeldIn(qReg'[p].sys)
            /\ InPlace'[<<"new", p>>] = HeldIn(qReg'[p].new)
<1>1. /\ <<"free", NoName>> \in QPlaces
      /\ \A k \in {"client", "node", "pipe", "sys", "new"} : <<k, p>> \in QPlaces
  BY DEF QPlaces
<1> QED BY <1>1 DEF InPlace

LEMMA PlaceKinds ==
  ASSUME NEW x \in QPlaces
  PROVE  \/ x = <<"free", NoName>>
         \/ \E p \in QNames : \/ x = <<"client", p>> \/ x = <<"node", p>> \/ x = <<"pipe", p>>
                              \/ x = <<"sys", p>> \/ x = <<"new", p>>
BY DEF QPlaces

\* The buffers of B go from place a to place c.
Moves(h, g, a, c, B) ==
    /\ a \in QPlaces /\ c \in QPlaces /\ a # c
    /\ \A b \in B : b \in h[a]
    /\ \A b : b \in g[a] <=> b \in h[a] /\ b \notin B
    /\ \A b : b \in g[c] <=> b \in h[c] \/ b \in B
    /\ \A x \in QPlaces : x # a /\ x # c => g[x] = h[x]

LEMMA MovesKeep ==
  ASSUME NEW h, NEW g, NEW a, NEW c, NEW B, Moves(h, g, a, c, B)
  PROVE  (Disjoint(h) => Disjoint(g)) /\ (AllIn(h) => AllIn(g))
<1>1. /\ \A b \in B : b \in h[a]
      /\ \A b : b \in g[a] <=> b \in h[a] /\ b \notin B
      /\ \A b : b \in g[c] <=> b \in h[c] \/ b \in B
      /\ \A x \in QPlaces : x # a /\ x # c => g[x] = h[x]
      /\ a \in QPlaces /\ c \in QPlaces /\ a # c
  BY DEF Moves
<1>2. ASSUME Disjoint(h) PROVE Disjoint(g)
  <2> SUFFICES ASSUME NEW x \in QPlaces, NEW y \in QPlaces, x # y, NEW b, b \in g[x], b \in g[y]
               PROVE  FALSE
    BY DEF Disjoint
  <2>1. \A u, v \in QPlaces : u # v => ~(b \in h[u] /\ b \in h[v])
    BY <1>2 DEF Disjoint
  <2>2. CASE b \in B
    <3>1. b \in h[a] /\ b \notin g[a]
      BY <1>1, <2>2
    <3>2. \A u \in QPlaces : u # c => b \notin g[u]
      BY <1>1, <2>1, <3>1
    <3> QED BY <3>2
  <2>3. CASE b \notin B
    <3>1. \A u \in QPlaces : b \in g[u] => b \in h[u]
      BY <1>1, <2>3
    <3> QED BY <2>1, <3>1
  <2> QED BY <2>2, <2>3
<1>3. ASSUME AllIn(h) PROVE AllIn(g)
  <2> SUFFICES ASSUME NEW b \in QBufs PROVE \E x \in QPlaces : b \in g[x]
    BY DEF AllIn
  <2>1. PICK x \in QPlaces : b \in h[x]
    BY <1>3 DEF AllIn
  <2> QED BY <1>1, <2>1
<1> QED BY <1>2, <1>3

\* Nothing comes to a place.
Shrinks(h, g) == \A x \in QPlaces : \A b : b \in g[x] => b \in h[x]

LEMMA ShrinksKeeps ==
  ASSUME NEW h, NEW g, Shrinks(h, g), Disjoint(h) PROVE Disjoint(g)
BY DEF Shrinks, Disjoint

------------------------------------------------------------------------------
(* One step *)

\* Whoever is not p keeps what is his, but for what is in his FIFO.
OnlyMine(p) ==
    /\ qPc' = [q \in QNames |-> qPc'[q]] /\ qReg' = [q \in QNames |-> qReg'[q]]
    /\ qOwned' = [q \in QNames |-> qOwned'[q]] /\ qOpened' = [q \in QNames |-> qOpened'[q]]
    /\ DOMAIN sendQueues' = QNames /\ DOMAIN pipe' = QNames
    /\ \A q \in QNames \ {p} :
          /\ qPc'[q] = qPc[q] /\ qReg'[q] = qReg[q] /\ qOwned'[q] = qOwned[q]
          /\ qOpened'[q] = qOpened[q] /\ sendQueues'[q] = sendQueues[q]

LEMMA OthersKeep ==
  ASSUME QueueTypes, NEW p \in QNames, QStep(p) PROVE OnlyMine(p)
<1>1. /\ qPc = [q \in QNames |-> qPc[q]] /\ qReg = [q \in QNames |-> qReg[q]]
      /\ qOwned = [q \in QNames |-> qOwned[q]] /\ qOpened = [q \in QNames |-> qOpened[q]]
      /\ DOMAIN sendQueues = QNames /\ DOMAIN pipe = QNames
  BY DEF QueueTypes
<1>2. CASE QueueInit(p)
  BY <1>1, <1>2 DEF QueueInit, Return, QGoto, OnlyMine
<1>3. CASE Exit(p)
  BY <1>1, <1>3 DEF Exit, QGoto, OnlyMine
<1>4. CASE ExitDelete(p)
  BY <1>1, <1>4 DEF ExitDelete, QGoto, OnlyMine
<1>5. CASE ExitClose(p)
  BY <1>1, <1>5 DEF ExitClose, Ends, QGoto, PipesAfterClose, OnlyMine
<1>6. CASE AttachGet(p)
  <2>1. UNCHANGED <<sendQueues, qOpened, pipe, qOwned>>
    BY <1>6 DEF AttachGet
  <2>2. \E pc, reg : QGoto(p, pc, reg)
    BY <1>6 DEF AttachGet, AttachReturns
  <2> QED BY <1>1, <2>1, <2>2 DEF QGoto, OnlyMine
<1>7. CASE AttachOpen(p)
  BY <1>1, <1>7 DEF AttachOpen, AttachReturns, QGoto, OnlyMine
<1>8. ASSUME NEW g, Join(p, g) PROVE OnlyMine(p)
  BY <1>1, <1>8 DEF Join, QGoto, OnlyMine
<1>9. ASSUME NEW g, Quit(p, g) PROVE OnlyMine(p)
  BY <1>1, <1>9 DEF Quit, QGoto, OnlyMine
<1>10. CASE JoinNext(p)
  BY <1>1, <1>10 DEF JoinNext, Return, QGoto, OnlyMine
<1>11. CASE QuitNext(p)
  <2>1. UNCHANGED <<qOpened, pipe, qOwned>>
    BY <1>11 DEF QuitNext
  <2>2. \E pc, reg : QGoto(p, pc, reg)
    BY <1>11 DEF QuitNext, Return
  <2>3. DOMAIN sendQueues' = QNames /\ \A q \in QNames \ {p} : sendQueues'[q] = sendQueues[q]
    BY <1>1, <1>11 DEF QuitNext, DettachNode
  <2> QED BY <1>1, <2>1, <2>2, <2>3 DEF QGoto, OnlyMine
<1>12. CASE Alloc(p)
  BY <1>1, <1>12 DEF Alloc, OnlyMine
<1>13. CASE Release(p)
  BY <1>1, <1>13 DEF Release, OnlyMine
<1>14. CASE Recv(p)
  BY <1>1, <1>14 DEF Recv, OnlyMine
<1>15. ASSUME NEW n \in QNames, Send(p, n) PROVE OnlyMine(p)
  <2>1. UNCHANGED <<qOpened, qPc, qReg>>
    BY SMTT(30), <1>15 DEF Send
  <2>2. DOMAIN sendQueues' = QNames /\ \A q \in QNames \ {p} : sendQueues'[q] = sendQueues[q]
    BY <1>1, <1>15 DEF Send, DettachNode
  <2>3. /\ qOwned' = [q \in QNames |-> qOwned'[q]] /\ DOMAIN pipe' = QNames
        /\ \A q \in QNames \ {p} : qOwned'[q] = qOwned[q]
    BY <1>1, <1>15 DEF Send
  <2> QED BY <1>1, <2>1, <2>2, <2>3 DEF OnlyMine
<1>16. ASSUME NEW g, SendGroup(p, g) PROVE OnlyMine(p)
  BY <1>1, <1>16 DEF SendGroup, QGoto, OnlyMine
<1>17. CASE UpdateNext(p)
  BY <1>1, <1>17 DEF UpdateNext, QGoto, OnlyMine
<1>18. CASE GroupNext(p)
  <2>1. UNCHANGED <<sendQueues, qOpened, pipe, qOwned>>
    BY <1>18 DEF GroupNext
  <2>2. \E pc, reg : QGoto(p, pc, reg)
    BY <1>18 DEF GroupNext, Return, SendGroupFails
  <2> QED BY <1>1, <2>1, <2>2 DEF QGoto, OnlyMine
<1>19. CASE GroupWrite(p)
  BY <1>1, <1>19 DEF GroupWrite, QGoto, OnlyMine
<1>20. CASE Die(p)
  BY <1>1, <1>20 DEF Die, Ends, QGoto, PipesAfterClose, OnlyMine
<1>21. ASSUME NEW n \in QNames, NEW g, ClientAttach(p, n, g) PROVE OnlyMine(p)
  BY <1>1, <1>21 DEF ClientAttach, QGoto, OnlyMine
<1>22. ASSUME NEW n \in QNames, NEW g, ClientDettach(p, n, g) PROVE OnlyMine(p)
  <2>1. UNCHANGED <<qOpened, pipe, qOwned, qPc, qReg>>
    BY <1>22 DEF ClientDettach
  <2>2. DOMAIN sendQueues' = QNames /\ \A q \in QNames \ {p} : sendQueues'[q] = sendQueues[q]
    BY <1>1, <1>22 DEF ClientDettach, DettachNode
  <2> QED BY <1>1, <2>1, <2>2 DEF OnlyMine
<1>23. CASE AttachOpenFails(p)
  BY <1>1, <1>23 DEF AttachOpenFails, QGoto, OnlyMine
<1>24. CASE AttachRefused(p)
  <2>1. UNCHANGED <<sendQueues, qOpened, pipe, qOwned>>
    BY <1>24 DEF AttachRefused
  <2>2. \E pc, reg : QGoto(p, pc, reg)
    BY <1>24 DEF AttachRefused, Return, SendGroupFails
  <2> QED BY <1>1, <2>1, <2>2 DEF QGoto, OnlyMine
<1> QED BY <1>2, <1>3, <1>4, <1>5, <1>6, <1>7, <1>8, <1>9, <1>10, <1>11, <1>12, <1>13, <1>14,
           <1>15, <1>16, <1>17, <1>18, <1>19, <1>20, <1>21, <1>22, <1>23, <1>24 DEF QStep

\* What a step does to the places: buffers go from one to another, or, once a
\* process has gone, get lost.
OneMove(h, g, lost) ==
    \/ \E a, c, B : Moves(h, g, a, c, B)
    \/ lost /\ Shrinks(h, g)

Lossy == "gone" \in qDisturbed'

\* A step of p that changes two places is a move between them.
LEMMA MoveIs ==
  ASSUME NEW p \in QNames, OnlyMine(p), NEW a \in QPlaces, NEW c \in QPlaces, a # c, NEW B,
         \A b \in B : b \in InPlace[a],
         \A b : b \in InPlace'[a] <=> b \in InPlace[a] /\ b \notin B,
         \A b : b \in InPlace'[c] <=> b \in InPlace[c] \/ b \in B,
         <<"free", NoName>> \in {a, c} \/ qFree' = qFree,
         <<"client", p>> \in {a, c} \/ qOwned'[p] = qOwned[p],
         <<"node", p>> \in {a, c} \/ sendQueues'[p] = sendQueues[p],
         <<"sys", p>> \in {a, c} \/ qReg'[p].sys = qReg[p].sys,
         <<"new", p>> \in {a, c} \/ qReg'[p].new = qReg[p].new,
         \A q \in QNames : <<"pipe", q>> \in {a, c} \/ pipe'[q] = pipe[q]
  PROVE  OneMove(InPlace, InPlace', Lossy)
<1>1. ASSUME NEW x \in QPlaces, x # a, x # c PROVE InPlace'[x] = InPlace[x]
  <2>1. CASE x = <<"free", NoName>>
    BY <1>1, <2>1, PlacesAre
  <2>2. ASSUME NEW q \in QNames, x = <<"client", q>> PROVE InPlace'[x] = InPlace[x]
    <3>1. qOwned'[q] = qOwned[q]
      BY <1>1, <2>2 DEF OnlyMine
    <3> QED BY <2>2, <3>1, PlacesAre
  <2>3. ASSUME NEW q \in QNames, x = <<"node", q>> PROVE InPlace'[x] = InPlace[x]
    <3>1. sendQueues'[q] = sendQueues[q]
      BY <1>1, <2>3 DEF OnlyMine
    <3>2. InPlace[<<"node", q>>] = NodesOf(sendQueues[q]) /\ InPlace'[<<"node", q>>] = NodesOf(sendQueues'[q])
      BY PlacesAre
    <3> QED BY <2>3, <3>1, <3>2
  <2>4. ASSUME NEW q \in QNames, x = <<"pipe", q>> PROVE InPlace'[x] = InPlace[x]
    <3>1. pipe'[q] = pipe[q]
      BY <1>1, <2>4 DEF OnlyMine
    <3>2. InPlace[<<"pipe", q>>] = MsgsOf(pipe[q]) /\ InPlace'[<<"pipe", q>>] = MsgsOf(pipe'[q])
      BY PlacesAre
    <3> QED BY <2>4, <3>1, <3>2
  <2>5. ASSUME NEW q \in QNames, x = <<"sys", q>> PROVE InPlace'[x] = InPlace[x]
    <3>1. qReg'[q].sys = qReg[q].sys
      BY <1>1, <2>5 DEF OnlyMine
    <3>2. InPlace[<<"sys", q>>] = HeldIn(qReg[q].sys) /\ InPlace'[<<"sys", q>>] = HeldIn(qReg'[q].sys)
      BY PlacesAre
    <3> QED BY <2>5, <3>1, <3>2
  <2>6. ASSUME NEW q \in QNames, x = <<"new", q>> PROVE InPlace'[x] = InPlace[x]
    <3>1. qReg'[q].new = qReg[q].new
      BY <1>1, <2>6 DEF OnlyMine
    <3>2. InPlace[<<"new", q>>] = HeldIn(qReg[q].new) /\ InPlace'[<<"new", q>>] = HeldIn(qReg'[q].new)
      BY PlacesAre
    <3> QED BY <2>6, <3>1, <3>2
  <2> QED BY <2>1, <2>2, <2>3, <2>4, <2>5, <2>6, PlaceKinds
<1>2. Moves(InPlace, InPlace', a, c, B)
  BY <1>1 DEF Moves
<1> QED BY <1>2 DEF OneMove

\* The places there are, and which differ.
LEMMA PlacesOf ==
  ASSUME NEW p \in QNames, NEW q \in QNames
  PROVE  /\ <<"free", NoName>> \in QPlaces
         /\ \A k \in {"client", "node", "pipe", "sys", "new"} :
               <<k, p>> \in QPlaces /\ <<k, p>> # <<"free", NoName>>
         /\ \A k, l \in {"client", "node", "pipe", "sys", "new"} : k # l => <<k, p>> # <<l, q>>
BY DEF QPlaces

\* A step that passes no buffer on.
LEMMA NoMove ==
  ASSUME NEW p \in QNames, OnlyMine(p), UNCHANGED <<qFree, qOwned, sendQueues, pipe>>,
         qReg'[p].sys = qReg[p].sys, qReg'[p].new = qReg[p].new
  PROVE  OneMove(InPlace, InPlace', Lossy)
<1> DEFINE a == <<"free", NoName>>
           c == <<"client", p>>
           B == {}
<1>1. a \in QPlaces /\ c \in QPlaces /\ a # c
  BY PlacesOf
<1>2. InPlace'[a] = InPlace[a] /\ InPlace'[c] = InPlace[c]
  BY PlacesAre
<1> HIDE DEF a, c
<1>3. \A b \in B : b \in InPlace[a]
  OBVIOUS
<1>4. \A b : b \in InPlace'[a] <=> b \in InPlace[a] /\ b \notin B
  BY <1>2
<1>5. \A b : b \in InPlace'[c] <=> b \in InPlace[c] \/ b \in B
  BY <1>2
<1> HIDE DEF B
<1>6. /\ qFree' = qFree /\ qOwned'[p] = qOwned[p] /\ sendQueues'[p] = sendQueues[p]
      /\ \A q \in QNames : pipe'[q] = pipe[q]
  OBVIOUS
<1> QED BY <1>1, <1>3, <1>4, <1>5, <1>6, MoveIs

\* What a step reads and writes.
LEMMA GotoIs ==
  ASSUME QueueTypes, NEW p \in QNames, NEW pc, NEW reg, QGoto(p, pc, reg)
  PROVE  qPc'[p] = pc /\ qReg'[p] = reg
BY DEF QueueTypes, QGoto

LEMMA AdvancedIs ==
  ASSUME QueueTypes, TableOK(qTable), NEW p \in QNames, Upcoming(p) # {}
  PROVE  /\ Advanced(p) \in QRegs /\ Advanced(p).target \in QNames
         /\ Advanced(p).group = qReg[p].group /\ Advanced(p).back = qReg[p].back
         /\ Advanced(p).sys = qReg[p].sys /\ Advanced(p).new = qReg[p].new
<1> DEFINE i == Min(Upcoming(p))
<1>1. qReg[p] \in QRegs /\ qReg[p].index \in Nat
  <2>1. qReg[p] \in QRegs
    BY DEF QueueTypes
  <2> QED BY <2>1 DEF QRegs
<1>2. qTable \in Seq(QRec) /\ Len(qTable) \in Nat
  BY DEF TableOK
<1>3. Upcoming(p) \subseteq (qReg[p].index + 1) .. (Len(qTable) - 1)
  BY DEF Upcoming, NextIndexes
<1>4. Upcoming(p) \in SUBSET Nat
  BY <1>1, <1>2, <1>3
<1>5. i \in Upcoming(p)
  BY <1>4, LeastNat DEF Min
<1> HIDE DEF i
<1>6. i \in Nat /\ i + 1 \in 1..Len(qTable)
  BY <1>1, <1>2, <1>3, <1>5
<1>7. qTable[i + 1].name \in QNames
  <2>1. qTable[i + 1] \in QRec
    BY <1>2, <1>6
  <2> QED BY <2>1 DEF QRec
<1>8. Advanced(p) = [qReg[p] EXCEPT !.index = i, !.target = qTable[i + 1].name]
  BY DEF Advanced, i
<1> QED BY <1>1, <1>6, <1>7, <1>8 DEF QRegs

LEMMA DettachIs ==
  ASSUME QueueTypes, ListsKept, NEW p \in QNames, NEW n, NEW g, DettachNode(p, n, g)
  PROVE  \/ UNCHANGED <<sendQueues, qFree>>
         \/ \E i \in DOMAIN sendQueues[p] :
               /\ sendQueues'[p] = RemoveAt(sendQueues[p], i)
               /\ qFree' = qFree \cup {sendQueues[p][i].node}
<1> DEFINE s == sendQueues[p]
           at == {i \in DOMAIN s : s[i].name = n /\ s[i].group = g}
<1>1. CASE at = {}
  BY <1>1 DEF DettachNode
<1>2. CASE at # {}
  <2>1. at \in SUBSET Nat
    <3>1. s \in Seq(SendNode)
      BY DEF ListsKept, SendList
    <3> HIDE DEF s
    <3> QED BY <3>1
  <2>2. Min(at) \in at
    <3> HIDE DEF at
    <3> QED BY <1>2, <2>1, LeastNat DEF Min
  <2>3. /\ sendQueues' = [sendQueues EXCEPT ![p] = RemoveAt(@, Min(at))]
        /\ qFree' = qFree \cup {sendQueues[p][Min(at)].node}
    BY <1>2 DEF DettachNode
  <2>4. Min(at) \in DOMAIN s
    BY <2>2
  <2> HIDE DEF at
  <2> QED BY <2>3, <2>4 DEF QueueTypes
<1> QED BY <1>1, <1>2

LEMMA DettachMoves ==
  ASSUME QueueTypes, ListsKept, NEW p \in QNames, OnlyMine(p), NEW n, NEW g,
         DettachNode(p, n, g), UNCHANGED <<qOwned, pipe>>,
         qReg'[p].sys = qReg[p].sys, qReg'[p].new = qReg[p].new
  PROVE  OneMove(InPlace, InPlace', Lossy)
<1>1. CASE UNCHANGED <<sendQueues, qFree>>
  BY <1>1, NoMove
<1>2. ASSUME NEW i \in DOMAIN sendQueues[p],
             sendQueues'[p] = RemoveAt(sendQueues[p], i),
             qFree' = qFree \cup {sendQueues[p][i].node}
      PROVE  OneMove(InPlace, InPlace', Lossy)
  <2> DEFINE a == <<"node", p>>
             c == <<"free", NoName>>
             B == {sendQueues[p][i].node}
  <2>1. a \in QPlaces /\ c \in QPlaces /\ a # c
    BY PlacesOf
  <2>2. \A b : b \in NodesOf(sendQueues'[p]) <=> b \in NodesOf(sendQueues[p]) /\ b \notin B
    <3>1. SendList(sendQueues[p], qOpened[p])
      BY DEF ListsKept
    <3> QED BY <1>2, <3>1, NodeRemoved
  <2>3. /\ InPlace[a] = NodesOf(sendQueues[p]) /\ InPlace'[a] = NodesOf(sendQueues'[p])
        /\ InPlace[c] = qFree /\ InPlace'[c] = qFree'
    BY PlacesAre
  <2>4. \A b \in B : b \in InPlace[a]
    BY <2>3 DEF NodesOf
  <2>5. \A b : b \in InPlace'[c] <=> b \in InPlace[c] \/ b \in B
    BY <1>2, <2>3
  <2>6. \A b : b \in InPlace'[a] <=> b \in InPlace[a] /\ b \notin B
    BY <2>2, <2>3
  <2>7. /\ c = <<"free", NoName>> /\ a = <<"node", p>> /\ qOwned'[p] = qOwned[p]
        /\ \A q \in QNames : pipe'[q] = pipe[q]
    OBVIOUS
  <2> HIDE DEF a, c, B
  <2> QED BY <2>1, <2>4, <2>5, <2>6, <2>7, MoveIs
<1> QED BY <1>1, <1>2, DettachIs

\* The message of a group send is released.
LEMMA SysReleased ==
  ASSUME QueueInv, NEW p \in QNames, OnlyMine(p),
         qReg[p].sys # NoQBuf, qReg'[p].sys = NoQBuf, qReg'[p].new = qReg[p].new,
         qFree' = qFree \cup {qReg[p].sys}, UNCHANGED <<qOwned, sendQueues, pipe>>
  PROVE  OneMove(InPlace, InPlace', Lossy)
<1> DEFINE a == <<"sys", p>>
           c == <<"free", NoName>>
           B == {qReg[p].sys}
<1>1. a \in QPlaces /\ c \in QPlaces /\ a # c
  BY PlacesOf
<1>2. /\ InPlace[a] = HeldIn(qReg[p].sys) /\ InPlace'[a] = HeldIn(qReg'[p].sys)
      /\ InPlace[c] = qFree /\ InPlace'[c] = qFree'
  BY PlacesAre
<1>4. \A b \in B : b \in InPlace[a]
  BY <1>2 DEF HeldIn
<1>5. \A b : b \in InPlace'[a] <=> b \in InPlace[a] /\ b \notin B
  BY <1>2 DEF HeldIn
<1>6. \A b : b \in InPlace'[c] <=> b \in InPlace[c] \/ b \in B
  BY <1>2
<1>7. /\ a = <<"sys", p>> /\ c = <<"free", NoName>>
      /\ qOwned'[p] = qOwned[p] /\ sendQueues'[p] = sendQueues[p]
      /\ \A q \in QNames : pipe'[q] = pipe[q]
  OBVIOUS
<1> HIDE DEF a, c, B
<1> QED BY <1>1, <1>4, <1>5, <1>6, <1>7, MoveIs

\* A new buffer is released.
LEMMA NewReleased ==
  ASSUME QueueInv, NEW p \in QNames, OnlyMine(p),
         qReg[p].new # NoQBuf, qReg'[p].new = NoQBuf, qReg'[p].sys = qReg[p].sys,
         qFree' = qFree \cup {qReg[p].new}, UNCHANGED <<qOwned, sendQueues, pipe>>
  PROVE  OneMove(InPlace, InPlace', Lossy)
<1> DEFINE a == <<"new", p>>
           c == <<"free", NoName>>
           B == {qReg[p].new}
<1>1. a \in QPlaces /\ c \in QPlaces /\ a # c
  BY PlacesOf
<1>2. /\ InPlace[a] = HeldIn(qReg[p].new) /\ InPlace'[a] = HeldIn(qReg'[p].new)
      /\ InPlace[c] = qFree /\ InPlace'[c] = qFree'
  BY PlacesAre
<1>4. \A b \in B : b \in InPlace[a]
  BY <1>2 DEF HeldIn
<1>5. \A b : b \in InPlace'[a] <=> b \in InPlace[a] /\ b \notin B
  BY <1>2 DEF HeldIn
<1>6. \A b : b \in InPlace'[c] <=> b \in InPlace[c] \/ b \in B
  BY <1>2
<1>7. /\ a = <<"new", p>> /\ c = <<"free", NoName>>
      /\ qOwned'[p] = qOwned[p] /\ sendQueues'[p] = sendQueues[p]
      /\ \A q \in QNames : pipe'[q] = pipe[q]
  OBVIOUS
<1> HIDE DEF a, c, B
<1> QED BY <1>1, <1>4, <1>5, <1>6, <1>7, MoveIs

\* A new buffer is taken.
LEMMA NewTaken ==
  ASSUME QueueInv, NEW p \in QNames, OnlyMine(p),
         qReg[p].new = NoQBuf, qFree # {}, qReg'[p].new = AnyFree, qReg'[p].sys = qReg[p].sys,
         qFree' = qFree \ {AnyFree}, UNCHANGED <<qOwned, sendQueues, pipe>>
  PROVE  OneMove(InPlace, InPlace', Lossy)
<1> DEFINE a == <<"free", NoName>>
           c == <<"new", p>>
           B == {AnyFree}
<1>1. a \in QPlaces /\ c \in QPlaces /\ a # c
  BY PlacesOf
<1>2. /\ InPlace[a] = qFree /\ InPlace'[a] = qFree'
      /\ InPlace[c] = HeldIn(qReg[p].new) /\ InPlace'[c] = HeldIn(qReg'[p].new)
  BY PlacesAre
<1>3. AnyFree \in qFree /\ AnyFree # NoQBuf
  <2>1. AnyFree \in qFree /\ qFree \subseteq QBufs
    BY DEF AnyFree, QueueInv, QueueTypes
  <2> QED BY <2>1, QAssumption DEF QBufs, NoQBuf
<1>4. \A b \in B : b \in InPlace[a]
  BY <1>2, <1>3
<1>5. \A b : b \in InPlace'[a] <=> b \in InPlace[a] /\ b \notin B
  BY <1>2
<1>6. \A b : b \in InPlace'[c] <=> b \in InPlace[c] \/ b \in B
  BY <1>2, <1>3 DEF HeldIn
<1>7. /\ a = <<"free", NoName>> /\ c = <<"new", p>>
      /\ qOwned'[p] = qOwned[p] /\ sendQueues'[p] = sendQueues[p]
      /\ \A q \in QNames : pipe'[q] = pipe[q]
  OBVIOUS
<1> HIDE DEF a, c, B
<1> QED BY <1>1, <1>4, <1>5, <1>6, <1>7, MoveIs

\* A client takes a buffer.
LEMMA ClientTakes ==
  ASSUME QueueInv, NEW p \in QNames, OnlyMine(p),
         qFree # {}, qOwned[p] = {}, qFree' = qFree \ {AnyFree},
         qOwned' = [qOwned EXCEPT ![p] = {AnyFree}], UNCHANGED <<qReg, sendQueues, pipe>>
  PROVE  OneMove(InPlace, InPlace', Lossy)
<1> DEFINE a == <<"free", NoName>>
           c == <<"client", p>>
           B == {AnyFree}
<1>1. a \in QPlaces /\ c \in QPlaces /\ a # c
  BY PlacesOf
<1>2. /\ InPlace[a] = qFree /\ InPlace'[a] = qFree'
      /\ InPlace[c] = qOwned[p] /\ InPlace'[c] = qOwned'[p]
  BY PlacesAre
<1>3. AnyFree \in qFree /\ qOwned'[p] = {AnyFree}
  BY DEF AnyFree, QueueInv, QueueTypes
<1>4. \A b \in B : b \in InPlace[a]
  BY <1>2, <1>3
<1>5. \A b : b \in InPlace'[a] <=> b \in InPlace[a] /\ b \notin B
  BY <1>2
<1>6. \A b : b \in InPlace'[c] <=> b \in InPlace[c] \/ b \in B
  BY <1>2, <1>3
<1>7. /\ a = <<"free", NoName>> /\ c = <<"client", p>>
      /\ qReg'[p] = qReg[p] /\ sendQueues'[p] = sendQueues[p]
      /\ \A q \in QNames : pipe'[q] = pipe[q]
  OBVIOUS
<1> HIDE DEF a, c, B
<1> QED BY <1>1, <1>4, <1>5, <1>6, <1>7, MoveIs

\* A client releases what it holds.
LEMMA ClientReturns ==
  ASSUME QueueInv, NEW p \in QNames, OnlyMine(p),
         qFree' = qFree \cup qOwned[p],
         qOwned' = [qOwned EXCEPT ![p] = {}], UNCHANGED <<qReg, sendQueues, pipe>>
  PROVE  OneMove(InPlace, InPlace', Lossy)
<1> DEFINE a == <<"client", p>>
           c == <<"free", NoName>>
           B == qOwned[p]
<1>1. a \in QPlaces /\ c \in QPlaces /\ a # c
  BY PlacesOf
<1>2. /\ InPlace[a] = qOwned[p] /\ InPlace'[a] = qOwned'[p]
      /\ InPlace[c] = qFree /\ InPlace'[c] = qFree'
  BY PlacesAre
<1>3. qOwned'[p] = {}
  BY DEF QueueInv, QueueTypes
<1>4. \A b \in B : b \in InPlace[a]
  BY <1>2
<1>5. \A b : b \in InPlace'[a] <=> b \in InPlace[a] /\ b \notin B
  BY <1>2, <1>3
<1>6. \A b : b \in InPlace'[c] <=> b \in InPlace[c] \/ b \in B
  BY <1>2
<1>7. /\ a = <<"client", p>> /\ c = <<"free", NoName>>
      /\ qReg'[p] = qReg[p] /\ sendQueues'[p] = sendQueues[p]
      /\ \A q \in QNames : pipe'[q] = pipe[q]
  OBVIOUS
<1> HIDE DEF a, c, B
<1> QED BY <1>1, <1>4, <1>5, <1>6, <1>7, MoveIs

\* A client gives its buffer to a group send.
LEMMA ClientSends ==
  ASSUME QueueInv, NEW p \in QNames, OnlyMine(p),
         NEW m \in qOwned[p], qReg[p].sys = NoQBuf, qReg'[p].sys = m, qReg'[p].new = qReg[p].new,
         qOwned' = [qOwned EXCEPT ![p] = @ \ {m}], UNCHANGED <<qFree, sendQueues, pipe>>
  PROVE  OneMove(InPlace, InPlace', Lossy)
<1> DEFINE a == <<"client", p>>
           c == <<"sys", p>>
           B == {m}
<1>1. a \in QPlaces /\ c \in QPlaces /\ a # c
  BY PlacesOf
<1>2. /\ InPlace[a] = qOwned[p] /\ InPlace'[a] = qOwned'[p]
      /\ InPlace[c] = HeldIn(qReg[p].sys) /\ InPlace'[c] = HeldIn(qReg'[p].sys)
  BY PlacesAre
<1>3. qOwned'[p] = qOwned[p] \ {m} /\ m # NoQBuf
  <2>1. qOwned[p] \subseteq QBufs /\ qOwned'[p] = qOwned[p] \ {m}
    BY DEF QueueInv, QueueTypes
  <2> QED BY <2>1, QAssumption DEF QBufs, NoQBuf
<1>4. \A b \in B : b \in InPlace[a]
  BY <1>2
<1>5. \A b : b \in InPlace'[a] <=> b \in InPlace[a] /\ b \notin B
  BY <1>2, <1>3
<1>6. \A b : b \in InPlace'[c] <=> b \in InPlace[c] \/ b \in B
  BY <1>2, <1>3 DEF HeldIn
<1>7. /\ a = <<"client", p>> /\ c = <<"sys", p>>
      /\ qFree' = qFree /\ sendQueues'[p] = sendQueues[p]
      /\ \A q \in QNames : pipe'[q] = pipe[q]
  OBVIOUS
<1> HIDE DEF a, c, B
<1> QED BY <1>1, <1>4, <1>5, <1>6, <1>7, MoveIs

\* All nodes of a send list are released.
LEMMA ListEmptied ==
  ASSUME QueueInv, NEW p \in QNames, OnlyMine(p),
         qFree' = qFree \cup NodesOf(sendQueues[p]), sendQueues' = [sendQueues EXCEPT ![p] = <<>>],
         qReg'[p].sys = qReg[p].sys, qReg'[p].new = qReg[p].new, UNCHANGED <<qOwned, pipe>>
  PROVE  OneMove(InPlace, InPlace', Lossy)
<1> DEFINE a == <<"node", p>>
           c == <<"free", NoName>>
           B == NodesOf(sendQueues[p])
<1>1. a \in QPlaces /\ c \in QPlaces /\ a # c
  BY PlacesOf
<1>2. /\ InPlace[a] = NodesOf(sendQueues[p]) /\ InPlace'[a] = NodesOf(sendQueues'[p])
      /\ InPlace[c] = qFree /\ InPlace'[c] = qFree'
  BY PlacesAre
<1>3. NodesOf(sendQueues'[p]) = {}
  BY DEF QueueInv, QueueTypes, NodesOf
<1>4. \A b \in B : b \in InPlace[a]
  BY <1>2
<1>5. \A b : b \in InPlace'[a] <=> b \in InPlace[a] /\ b \notin B
  BY <1>2, <1>3
<1>6. \A b : b \in InPlace'[c] <=> b \in InPlace[c] \/ b \in B
  BY <1>2
<1>7. /\ a = <<"node", p>> /\ c = <<"free", NoName>>
      /\ qOwned'[p] = qOwned[p]
      /\ \A q \in QNames : pipe'[q] = pipe[q]
  OBVIOUS
<1> HIDE DEF a, c, B
<1> QED BY <1>1, <1>4, <1>5, <1>6, <1>7, MoveIs

\* A new buffer becomes a node of the send list.
LEMMA NewListed ==
  ASSUME QueueInv, NEW p \in QNames, OnlyMine(p), NEW nd, nd.node = qReg[p].new,
         qReg[p].new # NoQBuf, qReg'[p].new = NoQBuf, qReg'[p].sys = qReg[p].sys,
         \A b : b \in NodesOf(sendQueues'[p]) <=> b \in NodesOf(sendQueues[p]) \/ b = nd.node,
         UNCHANGED <<qFree, qOwned, pipe>>
  PROVE  OneMove(InPlace, InPlace', Lossy)
<1> DEFINE a == <<"new", p>>
           c == <<"node", p>>
           B == {qReg[p].new}
<1>1. a \in QPlaces /\ c \in QPlaces /\ a # c
  BY PlacesOf
<1>2. /\ InPlace[a] = HeldIn(qReg[p].new) /\ InPlace'[a] = HeldIn(qReg'[p].new)
      /\ InPlace[c] = NodesOf(sendQueues[p]) /\ InPlace'[c] = NodesOf(sendQueues'[p])
  BY PlacesAre
<1>3. \A b \in B : b \in InPlace[a]
  BY <1>2 DEF HeldIn
<1>4. \A b : b \in InPlace'[a] <=> b \in InPlace[a] /\ b \notin B
  BY <1>2 DEF HeldIn
<1>5. \A b : b \in InPlace'[c] <=> b \in InPlace[c] \/ b \in B
  BY <1>2
<1>6. /\ a = <<"new", p>> /\ c = <<"node", p>>
      /\ qFree' = qFree /\ qOwned'[p] = qOwned[p]
      /\ \A q \in QNames : pipe'[q] = pipe[q]
  OBVIOUS
<1> HIDE DEF a, c, B
<1> QED BY <1>1, <1>3, <1>4, <1>5, <1>6, MoveIs

\* A client's buffer goes into a FIFO.
LEMMA ClientWrites ==
  ASSUME QueueInv, NEW p \in QNames, OnlyMine(p), NEW n \in QNames, NEW m \in qOwned[p],
         qOwned' = [qOwned EXCEPT ![p] = @ \ {m}],
         \A b : b \in MsgsOf(pipe'[n]) <=> b \in MsgsOf(pipe[n]) \/ b = m,
         \A q \in QNames : q # n => pipe'[q] = pipe[q],
         UNCHANGED <<qFree, sendQueues, qReg>>
  PROVE  OneMove(InPlace, InPlace', Lossy)
<1> DEFINE a == <<"client", p>>
           c == <<"pipe", n>>
           B == {m}
<1>1. a \in QPlaces /\ c \in QPlaces /\ a # c
  BY PlacesOf
<1>2. /\ InPlace[a] = qOwned[p] /\ InPlace'[a] = qOwned'[p]
      /\ InPlace[c] = MsgsOf(pipe[n]) /\ InPlace'[c] = MsgsOf(pipe'[n])
  BY PlacesAre
<1>3. qOwned'[p] = qOwned[p] \ {m}
  BY DEF QueueInv, QueueTypes
<1>4. \A b \in B : b \in InPlace[a]
  BY <1>2
<1>5. \A b : b \in InPlace'[a] <=> b \in InPlace[a] /\ b \notin B
  BY <1>2, <1>3
<1>6. \A b : b \in InPlace'[c] <=> b \in InPlace[c] \/ b \in B
  BY <1>2
<1>7. \A q \in QNames : <<"pipe", q>> \in {a, c} \/ pipe'[q] = pipe[q]
  OBVIOUS
<1>8. /\ a = <<"client", p>> /\ qFree' = qFree
      /\ sendQueues'[p] = sendQueues[p] /\ qReg'[p] = qReg[p]
  OBVIOUS
<1> HIDE DEF a, c, B
<1> QED BY <1>1, <1>4, <1>5, <1>6, <1>7, <1>8, MoveIs

\* The copy a group send has made goes into a FIFO.
LEMMA NewWritten ==
  ASSUME QueueInv, NEW p \in QNames, OnlyMine(p), NEW n \in QNames,
         qReg[p].new # NoQBuf, qReg'[p].new = NoQBuf, qReg'[p].sys = qReg[p].sys,
         \A b : b \in MsgsOf(pipe'[n]) <=> b \in MsgsOf(pipe[n]) \/ b = qReg[p].new,
         \A q \in QNames : q # n => pipe'[q] = pipe[q],
         UNCHANGED <<qFree, sendQueues, qOwned>>
  PROVE  OneMove(InPlace, InPlace', Lossy)
<1> DEFINE a == <<"new", p>>
           c == <<"pipe", n>>
           B == {qReg[p].new}
<1>1. a \in QPlaces /\ c \in QPlaces /\ a # c
  BY PlacesOf
<1>2. /\ InPlace[a] = HeldIn(qReg[p].new) /\ InPlace'[a] = HeldIn(qReg'[p].new)
      /\ InPlace[c] = MsgsOf(pipe[n]) /\ InPlace'[c] = MsgsOf(pipe'[n])
  BY PlacesAre
<1>3. \A b \in B : b \in InPlace[a]
  BY <1>2 DEF HeldIn
<1>4. \A b : b \in InPlace'[a] <=> b \in InPlace[a] /\ b \notin B
  BY <1>2 DEF HeldIn
<1>5. \A b : b \in InPlace'[c] <=> b \in InPlace[c] \/ b \in B
  BY <1>2
<1>6. \A q \in QNames : <<"pipe", q>> \in {a, c} \/ pipe'[q] = pipe[q]
  OBVIOUS
<1>7. /\ a = <<"new", p>> /\ qFree' = qFree
      /\ sendQueues'[p] = sendQueues[p] /\ qOwned'[p] = qOwned[p]
  OBVIOUS
<1> HIDE DEF a, c, B
<1> QED BY <1>1, <1>3, <1>4, <1>5, <1>6, <1>7, MoveIs

\* A message is read from a FIFO and released.
LEMMA MessageReleased ==
  ASSUME QueueInv, NEW p \in QNames, OnlyMine(p), NEW m \in MsgsOf(pipe[p]),
         \A b : b \in MsgsOf(pipe'[p]) <=> b \in MsgsOf(pipe[p]) /\ b # m,
         \A q \in QNames : q # p => pipe'[q] = pipe[q],
         qFree' = qFree \cup {m}, UNCHANGED <<qReg, sendQueues, qOwned>>
  PROVE  OneMove(InPlace, InPlace', Lossy)
<1> DEFINE a == <<"pipe", p>>
           c == <<"free", NoName>>
           B == {m}
<1>1. a \in QPlaces /\ c \in QPlaces /\ a # c
  BY PlacesOf
<1>2. /\ InPlace[a] = MsgsOf(pipe[p]) /\ InPlace'[a] = MsgsOf(pipe'[p])
      /\ InPlace[c] = qFree /\ InPlace'[c] = qFree'
  BY PlacesAre
<1>3. \A b \in B : b \in InPlace[a]
  BY <1>2
<1>4. \A b : b \in InPlace'[a] <=> b \in InPlace[a] /\ b \notin B
  BY <1>2
<1>5. \A b : b \in InPlace'[c] <=> b \in InPlace[c] \/ b \in B
  BY <1>2
<1>6. \A q \in QNames : <<"pipe", q>> \in {a, c} \/ pipe'[q] = pipe[q]
  OBVIOUS
<1>7. /\ c = <<"free", NoName>> /\ qReg'[p] = qReg[p]
      /\ sendQueues'[p] = sendQueues[p] /\ qOwned'[p] = qOwned[p]
  OBVIOUS
<1> HIDE DEF a, c, B
<1> QED BY <1>1, <1>3, <1>4, <1>5, <1>6, <1>7, MoveIs

\* Places that lose what was in them, with nothing coming to any.
LEMMA PlacesShrink ==
  ASSUME NEW p \in QNames, OnlyMine(p), Lossy, UNCHANGED qFree,
         \A b : b \in HeldIn(qReg'[p].new) => b \in HeldIn(qReg[p].new),
         \A b : b \in HeldIn(qReg'[p].sys) => b \in HeldIn(qReg[p].sys),
         \A b : b \in qOwned'[p] => b \in qOwned[p],
         \A b : b \in NodesOf(sendQueues'[p]) => b \in NodesOf(sendQueues[p]),
         \A q \in QNames : \A b : b \in MsgsOf(pipe'[q]) => b \in MsgsOf(pipe[q])
  PROVE  OneMove(InPlace, InPlace', Lossy)
<1>1. ASSUME NEW x \in QPlaces, NEW b, b \in InPlace'[x] PROVE b \in InPlace[x]
  <2>1. CASE x = <<"free", NoName>>
    BY <1>1, <2>1, PlacesAre
  <2>2. ASSUME NEW q \in QNames, x = <<"client", q>> PROVE b \in InPlace[x]
    <3>1. InPlace[x] = qOwned[q] /\ InPlace'[x] = qOwned'[q]
      BY <2>2, PlacesAre
    <3>2. q # p => qOwned'[q] = qOwned[q]
      BY DEF OnlyMine
    <3> QED BY <1>1, <3>1, <3>2
  <2>3. ASSUME NEW q \in QNames, x = <<"node", q>> PROVE b \in InPlace[x]
    <3>1. InPlace[x] = NodesOf(sendQueues[q]) /\ InPlace'[x] = NodesOf(sendQueues'[q])
      BY <2>3, PlacesAre
    <3>2. q # p => sendQueues'[q] = sendQueues[q]
      BY DEF OnlyMine
    <3> QED BY <1>1, <3>1, <3>2
  <2>4. ASSUME NEW q \in QNames, x = <<"pipe", q>> PROVE b \in InPlace[x]
    <3>1. InPlace[x] = MsgsOf(pipe[q]) /\ InPlace'[x] = MsgsOf(pipe'[q])
      BY <2>4, PlacesAre
    <3> QED BY <1>1, <3>1
  <2>5. ASSUME NEW q \in QNames, x = <<"sys", q>> PROVE b \in InPlace[x]
    <3>1. InPlace[x] = HeldIn(qReg[q].sys) /\ InPlace'[x] = HeldIn(qReg'[q].sys)
      BY <2>5, PlacesAre
    <3>2. q # p => qReg'[q] = qReg[q]
      BY DEF OnlyMine
    <3> QED BY <1>1, <3>1, <3>2
  <2>6. ASSUME NEW q \in QNames, x = <<"new", q>> PROVE b \in InPlace[x]
    <3>1. InPlace[x] = HeldIn(qReg[q].new) /\ InPlace'[x] = HeldIn(qReg'[q].new)
      BY <2>6, PlacesAre
    <3>2. q # p => qReg'[q] = qReg[q]
      BY DEF OnlyMine
    <3> QED BY <1>1, <3>1, <3>2
  <2> QED BY <2>1, <2>2, <2>3, <2>4, <2>5, <2>6, PlaceKinds
<1>2. Shrinks(InPlace, InPlace')
  BY <1>1 DEF Shrinks
<1> QED BY <1>2 DEF OneMove

------------------------------------------------------------------------------
(* What every step of p keeps *)

QPcs == {"down", "idle", "exit", "close", "attach", "open", "refused", "join",
         "quit", "update", "group", "write", "failed"}

TableStep(p) ==
    /\ TableOK(qTable')
    /\ \A q \in QNames \ {p} : Has(qTable, q, GroupAll) => Has(qTable', q, GroupAll)
    /\ qPc'[p] \notin {"down", "close"} => Has(qTable', p, GroupAll)

ListStep(p) ==
    /\ SendList(sendQueues'[p], qOpened'[p])
    /\ qOpened'[p] \subseteq QNames /\ qUp' \subseteq QNames

FifoStep == \A q \in QNames : Fifo(pipe'[q])

LocalStep(p) ==
    /\ qPc'[p] \in QPcs /\ qReg'[p] \in QRegs
    /\ Locals(qPc'[p], qReg'[p], qOwned'[p], sendQueues'[p])

LossStep(p) ==
    "gone" \notin qDisturbed' =>
        /\ "gone" \notin qDisturbed
        /\ qUp \subseteq qUp' /\ qOpened'[p] \subseteq qUp' /\ qPc'[p] # "close"

StepKeeps(p) ==
    /\ OneMove(InPlace, InPlace', Lossy)
    /\ TableStep(p) /\ ListStep(p) /\ FifoStep /\ LocalStep(p) /\ LossStep(p)

LEMMA Before ==
  ASSUME QueueInv, NEW p \in QNames
  PROVE  /\ QueueTypes /\ TableOK(qTable) /\ ListsKept /\ LocalsFit
         /\ qPc[p] \in QPcs /\ qReg[p] \in QRegs
         /\ Locals(qPc[p], qReg[p], qOwned[p], sendQueues[p])
         /\ SendList(sendQueues[p], qOpened[p]) /\ Fifo(pipe[p])
         /\ qPc[p] \notin {"down", "close"} => Has(qTable, p, GroupAll)
         /\ qOpened[p] \subseteq QNames /\ qUp \subseteq QNames
BY DEF QueueInv, QueueTypes, ListsKept, FifosKept, LocalsFit, Listed, QPcs

LEMMA TableKept ==
  ASSUME QueueInv, NEW p \in QNames, qTable' = qTable,
         qPc'[p] \in {"down", "close"} \/ qPc[p] \notin {"down", "close"}
  PROVE  TableStep(p)
BY Before DEF TableStep

LEMMA ListKept ==
  ASSUME QueueInv, NEW p \in QNames, sendQueues'[p] = sendQueues[p],
         qOpened' = qOpened, qUp' = qUp
  PROVE  ListStep(p)
BY Before DEF ListStep

LEMMA FifosStay == ASSUME QueueInv, pipe' = pipe PROVE FifoStep
BY DEF QueueInv, FifosKept, FifoStep

LEMMA LocalsKept ==
  ASSUME QueueInv, NEW p \in QNames, qPc'[p] = qPc[p], qReg'[p] = qReg[p],
         qOwned'[p] = qOwned[p], sendQueues'[p] = sendQueues[p]
  PROVE  LocalStep(p)
BY Before DEF LocalStep

LEMMA LossKept ==
  ASSUME QueueInv, NEW p \in QNames, "gone" \in qDisturbed => "gone" \in qDisturbed',
         qUp \subseteq qUp', qOpened'[p] = qOpened[p], qPc'[p] # "close"
  PROVE  LossStep(p)
BY DEF QueueInv, NothingLost, LossStep

\* At rest a process uses none of its locals.
LEMMA AtRest ==
  /\ NoReg \in QRegs /\ NoReg.sys = NoQBuf /\ NoReg.new = NoQBuf
  /\ \A own, s : Locals("idle", NoReg, own, s)
BY DEF NoReg, QRegs, Locals, Sending, AnyGroup

LEMMA NoLocals ==
  ASSUME QueueInv, NEW p \in QNames, qPc[p] \in {"down", "idle", "exit", "close", "join", "quit"}
  PROVE  qReg[p].sys = NoQBuf /\ qReg[p].new = NoQBuf
BY Before DEF Locals, Sending

LEMMA QueueInitStep ==
  ASSUME QueueInv, NEW p \in QNames, OnlyMine(p), QueueInit(p) PROVE StepKeeps(p)
<1>1. /\ qPc[p] = "down"
      /\ UNCHANGED <<sendQueues, qOpened, pipe, qFree, qOwned, qDelivery, qDisturbed>>
      /\ qReg[p].sys = NoQBuf /\ qReg[p].new = NoQBuf
  BY NoLocals DEF QueueInit
<1>2. CASE qdbFull(qTable, p, GroupAll)
  <2>1. UNCHANGED <<qTable, qUp, qPc, qReg>>
    BY <1>2 DEF QueueInit
  <2>2. OneMove(InPlace, InPlace', Lossy)
    BY <1>1, <2>1, NoMove
  <2>3. TableStep(p)
    BY <1>1, <2>1, TableKept
  <2>4. ListStep(p) /\ FifoStep /\ LocalStep(p)
    BY <1>1, <2>1, ListKept, FifosStay, LocalsKept
  <2>5. LossStep(p)
    BY <1>1, <2>1, LossKept
  <2> QED BY <2>2, <2>3, <2>4, <2>5 DEF StepKeeps
<1>3. CASE ~qdbFull(qTable, p, GroupAll)
  <2>1. /\ qTable' = qdbAddQueue(qTable, p, GroupAll) /\ qUp' = qUp \cup {p}
        /\ QGoto(p, "idle", NoReg)
    BY <1>3 DEF QueueInit, Return
  <2>2. qPc'[p] = "idle" /\ qReg'[p] = NoReg
    BY <2>1, Before, GotoIs
  <2>3. OneMove(InPlace, InPlace', Lossy)
    BY <1>1, <2>2, NoMove, AtRest
  <2>4. TableStep(p)
    <3>1. TableOK(qTable) /\ GroupAll \in AnyGroup
      BY Before DEF AnyGroup
    <3>2. /\ TableOK(qTable') /\ Has(qTable', p, GroupAll)
          /\ \A q, h : Has(qTable, q, h) => Has(qTable', q, h)
      BY <1>3, <2>1, <3>1, AddIs
    <3> QED BY <3>2 DEF TableStep
  <2>5. ListStep(p)
    BY <1>1, <2>1, Before DEF ListStep
  <2>6. FifoStep
    BY <1>1, FifosStay
  <2>7. LocalStep(p)
    BY <2>2, AtRest DEF LocalStep, QPcs
  <2>8. LossStep(p)
    BY <1>1, <2>1, <2>2, LossKept
  <2> QED BY <2>3, <2>4, <2>5, <2>6, <2>7, <2>8 DEF StepKeeps
<1> QED BY <1>2, <1>3

LEMMA ExitStep ==
  ASSUME QueueInv, NEW p \in QNames, OnlyMine(p), Exit(p) PROVE StepKeeps(p)
<1>1. /\ qPc[p] = "idle" /\ qOwned[p] = {} /\ QGoto(p, "exit", NoReg)
      /\ qFree' = qFree \cup NodesOf(sendQueues[p])
      /\ sendQueues' = [sendQueues EXCEPT ![p] = <<>>]
      /\ UNCHANGED <<qTable, qUp, qOpened, pipe, qOwned, qDelivery, qDisturbed>>
      /\ qReg[p].sys = NoQBuf /\ qReg[p].new = NoQBuf
  BY NoLocals DEF Exit, NodesOf
<1>2. qPc'[p] = "exit" /\ qReg'[p] = NoReg /\ sendQueues'[p] = <<>>
  <2>1. sendQueues'[p] = <<>>
    BY <1>1, Before DEF QueueTypes
  <2> QED BY <1>1, <2>1, Before, GotoIs
<1>3. OneMove(InPlace, InPlace', Lossy)
  BY <1>1, <1>2, ListEmptied, AtRest
<1>4. TableStep(p)
  BY <1>1, TableKept
<1>5. ListStep(p)
  <2>1. SendList(<<>>, qOpened[p])
    BY DEF SendList
  <2> QED BY <1>1, <1>2, <2>1, Before DEF ListStep
<1>6. FifoStep
  BY <1>1, FifosStay
<1>7. LocalStep(p)
  <2>1. Locals("exit", NoReg, {}, <<>>)
    BY DEF Locals, Sending, NoReg
  <2> QED BY <1>1, <1>2, <2>1, AtRest DEF LocalStep, QPcs
<1>8. LossStep(p)
  BY <1>1, <1>2, LossKept
<1> QED BY <1>3, <1>4, <1>5, <1>6, <1>7, <1>8 DEF StepKeeps

LEMMA ExitDeleteStep ==
  ASSUME QueueInv, NEW p \in QNames, OnlyMine(p), ExitDelete(p) PROVE StepKeeps(p)
<1>1. /\ qPc[p] = "exit" /\ QGoto(p, "close", NoReg)
      /\ qTable' = qdbDeleteQueue(qTable, p, GroupAll)
      /\ qDisturbed' = qDisturbed \cup {"gone"}
      /\ UNCHANGED <<qUp, sendQueues, qOpened, pipe, qFree, qOwned>>
      /\ qReg[p].sys = NoQBuf /\ qReg[p].new = NoQBuf
      /\ qOwned[p] = {} /\ sendQueues[p] = <<>>
  BY NoLocals, Before DEF ExitDelete, Locals
<1>2. qPc'[p] = "close" /\ qReg'[p] = NoReg
  BY <1>1, Before, GotoIs
<1>3. OneMove(InPlace, InPlace', Lossy)
  BY <1>1, <1>2, NoMove, AtRest
<1>4. TableStep(p)
  <2>1. TableOK(qTable)
    BY Before
  <2>2. /\ TableOK(qTable')
        /\ \A q, h : Has(qTable, q, h) /\ q # p => Has(qTable', q, h)
    BY <1>1, <2>1, DeleteIs
  <2> QED BY <1>2, <2>2 DEF TableStep
<1>5. ListStep(p) /\ FifoStep
  BY <1>1, ListKept, FifosStay
<1>6. LocalStep(p)
  <2>1. Locals("close", NoReg, {}, <<>>)
    BY DEF Locals, Sending, NoReg
  <2> QED BY <1>1, <1>2, <2>1, AtRest DEF LocalStep, QPcs
<1>7. LossStep(p)
  BY <1>1 DEF LossStep
<1> QED BY <1>3, <1>4, <1>5, <1>6, <1>7 DEF StepKeeps

\* The FIFOs that nobody has open any more are empty.
LEMMA ExitCloseStep ==
  ASSUME QueueInv, NEW p \in QNames, OnlyMine(p), ExitClose(p) PROVE StepKeeps(p)
<1>1. /\ qPc[p] = "close" /\ QGoto(p, "down", NoReg) /\ qUp' = qUp \ {p}
      /\ qOpened' = [qOpened EXCEPT ![p] = {}] /\ pipe' = PipesAfterClose(qUp', qOpened')
      /\ UNCHANGED <<qTable, sendQueues, qFree, qOwned, qDisturbed>>
      /\ qReg[p].sys = NoQBuf /\ qReg[p].new = NoQBuf
      /\ qOwned[p] = {} /\ sendQueues[p] = <<>>
  BY NoLocals, Before DEF ExitClose, Ends, Locals
<1>2. qPc'[p] = "down" /\ qReg'[p] = NoReg /\ qOpened'[p] = {}
  <2>1. qOpened'[p] = {}
    BY <1>1, Before DEF QueueTypes
  <2> QED BY <1>1, <2>1, Before, GotoIs
<1>3. Lossy
  BY <1>1 DEF Lossy, QueueInv, NothingLost
<1>4. \A q \in QNames : pipe'[q] = pipe[q] \/ pipe'[q] = <<>>
  BY <1>1 DEF PipesAfterClose
<1>5. OneMove(InPlace, InPlace', Lossy)
  <2>1. \A b : b \in HeldIn(qReg'[p].new) => b \in HeldIn(qReg[p].new)
    BY <1>1, <1>2, AtRest
  <2>2. ASSUME NEW q \in QNames, NEW b, b \in MsgsOf(pipe'[q]) PROVE b \in MsgsOf(pipe[q])
    BY <1>4, <2>2 DEF MsgsOf
  <2>3. \A b : b \in HeldIn(qReg'[p].sys) => b \in HeldIn(qReg[p].sys)
    BY <1>1, <1>2, AtRest
  <2>4. UNCHANGED <<qFree, qOwned, sendQueues>>
    BY <1>1
  <2>5. /\ \A b : b \in qOwned'[p] => b \in qOwned[p]
        /\ \A b : b \in NodesOf(sendQueues'[p]) => b \in NodesOf(sendQueues[p])
    BY <2>4
  <2> QED BY <1>3, <2>1, <2>2, <2>3, <2>4, <2>5, PlacesShrink
<1>6. TableStep(p)
  BY <1>1, <1>2, TableKept
<1>7. ListStep(p)
  <2>1. SendList(<<>>, qOpened'[p])
    BY DEF SendList
  <2> QED BY <1>1, <1>2, <2>1, Before DEF ListStep
<1>8. FifoStep
  <2>1. Fifo(<<>>)
    BY QAssumption DEF Fifo
  <2> QED BY <1>4, <2>1 DEF FifoStep, QueueInv, FifosKept
<1>9. LocalStep(p)
  <2>1. Locals("down", NoReg, {}, <<>>)
    BY DEF Locals, Sending, NoReg
  <2> QED BY <1>1, <1>2, <2>1, AtRest DEF LocalStep, QPcs
<1>10. LossStep(p)
  BY <1>1, <1>3 DEF LossStep, Lossy
<1> QED BY <1>5, <1>6, <1>7, <1>8, <1>9, <1>10 DEF StepKeeps

\* What a process that is killed has got is lost, and its records stay.
LEMMA DieStep ==
  ASSUME QueueInv, NEW p \in QNames, OnlyMine(p), Die(p) PROVE StepKeeps(p)
<1>1. /\ QGoto(p, "down", NoReg) /\ qUp' = qUp \ {p}
      /\ qOpened' = [qOpened EXCEPT ![p] = {}] /\ pipe' = PipesAfterClose(qUp', qOpened')
      /\ sendQueues' = [sendQueues EXCEPT ![p] = <<>>] /\ qOwned' = [qOwned EXCEPT ![p] = {}]
      /\ qDisturbed' = qDisturbed \cup {"gone"} /\ UNCHANGED <<qTable, qFree>>
  BY DEF Die, Ends
<1>2. /\ qPc'[p] = "down" /\ qReg'[p] = NoReg /\ qOpened'[p] = {}
      /\ sendQueues'[p] = <<>> /\ qOwned'[p] = {}
  <2>1. qOpened'[p] = {} /\ sendQueues'[p] = <<>> /\ qOwned'[p] = {}
    BY <1>1, Before DEF QueueTypes
  <2> QED BY <1>1, <2>1, Before, GotoIs
<1>3. Lossy
  BY <1>1 DEF Lossy
<1>4. \A q \in QNames : pipe'[q] = pipe[q] \/ pipe'[q] = <<>>
  BY <1>1 DEF PipesAfterClose
<1>5. OneMove(InPlace, InPlace', Lossy)
  <2>1. \A b : b \notin HeldIn(qReg'[p].new) /\ b \notin HeldIn(qReg'[p].sys)
    BY <1>2, AtRest DEF HeldIn
  <2>2. ASSUME NEW q \in QNames, NEW b, b \in MsgsOf(pipe'[q]) PROVE b \in MsgsOf(pipe[q])
    BY <1>4, <2>2 DEF MsgsOf
  <2>3. \A b : b \notin qOwned'[p] /\ b \notin NodesOf(sendQueues'[p])
    BY <1>2 DEF NodesOf
  <2>4. UNCHANGED qFree
    BY <1>1
  <2> QED BY <1>3, <2>1, <2>2, <2>3, <2>4, PlacesShrink
<1>6. TableStep(p)
  BY <1>1, <1>2, TableKept
<1>7. ListStep(p)
  <2>1. SendList(<<>>, qOpened'[p])
    BY DEF SendList
  <2> QED BY <1>1, <1>2, <2>1, Before DEF ListStep
<1>8. FifoStep
  <2>1. Fifo(<<>>)
    BY QAssumption DEF Fifo
  <2> QED BY <1>4, <2>1 DEF FifoStep, QueueInv, FifosKept
<1>9. LocalStep(p)
  <2>1. Locals("down", NoReg, {}, <<>>)
    BY DEF Locals, Sending, NoReg
  <2> QED BY <1>2, <2>1, AtRest DEF LocalStep, QPcs
<1>10. LossStep(p)
  BY <1>3 DEF LossStep, Lossy
<1> QED BY <1>5, <1>6, <1>7, <1>8, <1>9, <1>10 DEF StepKeeps

\* A group send that gives up.
LEMMA SendFails ==
  ASSUME QueueInv, NEW p \in QNames, OnlyMine(p), SendGroupFails(p), Sending(qPc[p], qReg[p]),
         qPc[p] # "open", qPc[p] # "write", UNCHANGED <<qOwned, sendQueues, pipe>>
  PROVE  /\ OneMove(InPlace, InPlace', Lossy) /\ LocalStep(p)
         /\ qPc'[p] \in {"failed", "idle"}
<1> DEFINE pc == IF ClientReleases THEN "failed" ELSE "idle"
           reg == IF ClientReleases THEN [NoReg EXCEPT !.failed = qReg[p].sys] ELSE NoReg
<1>1. /\ qReg[p].sys # NoQBuf /\ qReg[p].new = NoQBuf /\ qReg[p] \in QRegs
      /\ qFree' = qFree \cup {qReg[p].sys}
  BY Before DEF SendGroupFails, Locals
<1>2. qPc'[p] = pc /\ qReg'[p] = reg
  BY Before, GotoIs DEF SendGroupFails
<1>3. reg \in QRegs /\ reg.sys = NoQBuf /\ reg.new = NoQBuf
  BY <1>1 DEF QRegs, NoReg, AnyGroup
<1>4. pc \in {"failed", "idle"}
  OBVIOUS
<1> HIDE DEF pc, reg
<1>5. \A own, s : Locals(pc, reg, own, s)
  BY <1>3, <1>4 DEF Locals, Sending
<1>6. OneMove(InPlace, InPlace', Lossy)
  BY <1>1, <1>2, <1>3, SysReleased
<1> QED BY <1>2, <1>3, <1>4, <1>5, <1>6 DEF LocalStep, QPcs

\* Where radQueueAttach returns to its caller.
LEMMA AttachReturnIs ==
  ASSUME QueueInv, NEW p \in QNames, qPc[p] \in {"attach", "open"}, AttachReturns(p)
  PROVE  /\ qPc'[p] = qReg[p].back /\ qPc'[p] \in {"idle", "join", "update"}
         /\ qReg'[p].sys = qReg[p].sys /\ qReg'[p].new = NoQBuf /\ LocalStep(p)
<1> DEFINE reg == qReg[p]
           old == [reg EXCEPT !.new = NoQBuf]
<1>1. QueueTypes /\ reg \in QRegs /\ Locals(qPc[p], reg, qOwned[p], sendQueues[p])
  BY Before
<1>2. /\ (reg.sys # NoQBuf <=> reg.back = "update")
      /\ reg.back \in {"idle", "join", "update"} /\ reg.target \in QNames
      /\ reg.back = "join" => reg.group \in QGroups
  BY <1>1 DEF Locals, Sending
<1>3. /\ old \in QRegs /\ old.new = NoQBuf /\ old.sys = reg.sys /\ old.back = reg.back
      /\ old.target = reg.target /\ old.group = reg.group
  BY <1>1 DEF QRegs
<1> HIDE DEF old
<1>4. QGoto(p, reg.back, IF reg.back = "idle" THEN NoReg ELSE old)
  BY DEF AttachReturns, old
<1>5. CASE reg.back = "idle"
  <2>1. qPc'[p] = "idle" /\ qReg'[p] = NoReg
    BY <1>1, <1>4, <1>5, GotoIs
  <2> QED BY <1>2, <1>5, <2>1, AtRest DEF LocalStep, QPcs
<1>6. CASE reg.back \in {"join", "update"}
  <2>1. qPc'[p] = reg.back /\ qReg'[p] = old
    BY <1>1, <1>4, <1>6, GotoIs
  <2>2. Locals(reg.back, old, qOwned'[p], sendQueues'[p])
    BY <1>2, <1>3, <1>6 DEF Locals, Sending
  <2> QED BY <1>2, <1>3, <1>6, <2>1, <2>2 DEF LocalStep, QPcs
<1> QED BY <1>2, <1>5, <1>6

LEMMA ClientAttachStep ==
  ASSUME QueueInv, NEW p \in QNames, OnlyMine(p), NEW n \in QNames, NEW g \in AnyGroup,
         ClientAttach(p, n, g)
  PROVE  StepKeeps(p)
<1> DEFINE reg == [NoReg EXCEPT !.group = g, !.target = n]
<1>1. /\ qPc[p] = "idle" /\ QGoto(p, "attach", reg)
      /\ UNCHANGED <<qTable, qUp, sendQueues, qOpened, pipe, qFree, qOwned, qDisturbed>>
      /\ qReg[p].sys = NoQBuf /\ qReg[p].new = NoQBuf /\ QueueTypes
  BY NoLocals, Before DEF ClientAttach
<1>2. qPc'[p] = "attach" /\ qReg'[p] = reg
  BY <1>1, GotoIs
<1>3. /\ reg \in QRegs /\ reg.sys = NoQBuf /\ reg.new = NoQBuf
      /\ reg.back = "idle" /\ reg.target = n
  BY DEF QRegs, NoReg
<1> HIDE DEF reg
<1>4. OneMove(InPlace, InPlace', Lossy)
  BY <1>1, <1>2, <1>3, NoMove
<1>5. TableStep(p) /\ ListStep(p) /\ FifoStep
  BY <1>1, TableKept, ListKept, FifosStay
<1>6. LocalStep(p)
  <2>1. Locals("attach", reg, qOwned'[p], sendQueues'[p])
    BY <1>3 DEF Locals, Sending
  <2> QED BY <1>2, <1>3, <2>1 DEF LocalStep, QPcs
<1>7. LossStep(p)
  BY <1>1, <1>2, LossKept
<1> QED BY <1>4, <1>5, <1>6, <1>7 DEF StepKeeps

LEMMA AttachGetStep ==
  ASSUME QueueInv, NEW p \in QNames, OnlyMine(p), AttachGet(p) PROVE StepKeeps(p)
<1> DEFINE reg == qReg[p]
           there == Has(sendQueues[p], reg.target, reg.group)
<1>1. /\ qPc[p] = "attach"
      /\ UNCHANGED <<qTable, qUp, sendQueues, qOpened, pipe, qOwned, qDisturbed>>
      /\ reg \in QRegs /\ Locals("attach", reg, qOwned[p], sendQueues[p])
      /\ QueueTypes /\ TableOK(qTable)
  BY Before DEF AttachGet
<1>2. /\ reg.new = NoQBuf /\ (reg.sys # NoQBuf <=> reg.back = "update")
      /\ reg.back \in {"idle", "join", "update"} /\ reg.target \in QNames
      /\ reg.back = "join" => reg.group \in QGroups
  BY <1>1 DEF Locals, Sending
<1>3. TableStep(p) /\ ListStep(p) /\ FifoStep
  BY <1>1, TableKept, ListKept, FifosStay
<1>4. CASE there
  <2>1. AttachReturns(p) /\ UNCHANGED qFree
    BY <1>4 DEF AttachGet
  <2>2. /\ qPc'[p] \in {"idle", "join", "update"} /\ LocalStep(p)
        /\ qReg'[p].sys = qReg[p].sys /\ qReg'[p].new = NoQBuf
    BY <1>1, <2>1, AttachReturnIs
  <2>3. OneMove(InPlace, InPlace', Lossy)
    BY <1>1, <1>2, <2>1, <2>2, NoMove
  <2>4. LossStep(p)
    BY <1>1, <2>2, LossKept
  <2> QED BY <1>3, <2>2, <2>3, <2>4 DEF StepKeeps
<1>5. CASE ~there /\ qFree # {}
  <2> DEFINE new == [reg EXCEPT !.new = AnyFree]
  <2>1. QGoto(p, "open", new) /\ qFree' = qFree \ {AnyFree}
    BY <1>5 DEF AttachGet
  <2>2. qPc'[p] = "open" /\ qReg'[p] = new
    BY <1>1, <2>1, GotoIs
  <2>3. AnyFree \in QBufs /\ AnyFree # NoQBuf
    <3>1. AnyFree \in qFree /\ qFree \subseteq QBufs
      BY <1>1, <1>5 DEF AnyFree, QueueTypes
    <3> QED BY <3>1, QAssumption DEF QBufs, NoQBuf
  <2>4. /\ new \in QRegs /\ new.new = AnyFree /\ new.sys = reg.sys /\ new.back = reg.back
        /\ new.target = reg.target /\ new.group = reg.group
    BY <1>1, <2>3 DEF QRegs
  <2> HIDE DEF new
  <2>5. OneMove(InPlace, InPlace', Lossy)
    BY <1>1, <1>2, <1>5, <2>1, <2>2, <2>4, NewTaken
  <2>6. Locals("open", new, qOwned'[p], sendQueues'[p])
    BY <1>1, <1>2, <1>5, <2>3, <2>4 DEF Locals, Sending
  <2>7. LocalStep(p)
    BY <2>2, <2>4, <2>6 DEF LocalStep, QPcs
  <2>8. LossStep(p)
    BY <1>1, <2>2, LossKept
  <2> QED BY <1>3, <2>5, <2>7, <2>8 DEF StepKeeps
<1>6. CASE ~there /\ qFree = {}
  <2>1. QGoto(p, "refused", reg) /\ UNCHANGED qFree
    BY <1>6 DEF AttachGet
  <2>2. qPc'[p] = "refused" /\ qReg'[p] = reg
    BY <1>1, <2>1, GotoIs
  <2>3. OneMove(InPlace, InPlace', Lossy)
    BY <1>1, <2>1, <2>2, NoMove
  <2>4. Locals("refused", reg, qOwned'[p], sendQueues'[p])
    BY <1>2 DEF Locals, Sending
  <2>5. LocalStep(p)
    BY <1>1, <2>2, <2>4 DEF LocalStep, QPcs
  <2>6. LossStep(p)
    BY <1>1, <2>2, LossKept
  <2> QED BY <1>3, <2>3, <2>5, <2>6 DEF StepKeeps
<1> QED BY <1>4, <1>5, <1>6

LEMMA AttachOpenStep ==
  ASSUME QueueInv, NEW p \in QNames, OnlyMine(p), AttachOpen(p) PROVE StepKeeps(p)
<1> DEFINE reg == qReg[p]
           nd == [name |-> reg.target, group |-> reg.group, node |-> reg.new]
<1>1. /\ qPc[p] = "open" /\ reg.target \in qUp
      /\ sendQueues' = [sendQueues EXCEPT ![p] = Append(@, nd)]
      /\ qOpened' = [qOpened EXCEPT ![p] = @ \cup {reg.target}]
      /\ AttachReturns(p)
      /\ UNCHANGED <<qTable, qUp, pipe, qFree, qOwned, qDisturbed>>
  BY DEF AttachOpen
<1>2. /\ reg \in QRegs /\ Locals("open", reg, qOwned[p], sendQueues[p])
      /\ QueueTypes /\ SendList(sendQueues[p], qOpened[p])
  BY <1>1, Before
<1>3. /\ reg.new # NoQBuf /\ reg.target \in QNames
      /\ ~Has(sendQueues[p], reg.target, reg.group)
  BY <1>2 DEF Locals
<1>4. sendQueues'[p] = Append(sendQueues[p], nd) /\ qOpened'[p] = qOpened[p] \cup {reg.target}
  BY <1>1, <1>2 DEF QueueTypes
<1>5. /\ qPc'[p] \in {"idle", "join", "update"} /\ LocalStep(p)
      /\ qReg'[p].sys = reg.sys /\ qReg'[p].new = NoQBuf
  BY <1>1, AttachReturnIs
<1>6. /\ nd \in SendNode /\ nd.name = reg.target /\ nd.group = reg.group
      /\ nd.node = reg.new
  BY <1>2, <1>3 DEF QRegs, SendNode
<1> HIDE DEF nd
<1>7. nd.node \notin NodesOf(sendQueues[p])
  <2>1. <<"new", p>> \in QPlaces /\ <<"node", p>> \in QPlaces /\ <<"new", p>> # <<"node", p>>
    BY PlacesOf
  <2>2. /\ InPlace[<<"new", p>>] = HeldIn(reg.new)
        /\ InPlace[<<"node", p>>] = NodesOf(sendQueues[p])
    BY PlacesAre
  <2>3. HeldIn(reg.new) \cap NodesOf(sendQueues[p]) = {}
    BY <2>1, <2>2 DEF QueueInv, Disjoint
  <2> QED BY <1>3, <1>6, <2>3 DEF HeldIn
<1>8. /\ SendList(Append(sendQueues[p], nd), qOpened[p] \cup {nd.name})
      /\ \A b : b \in NodesOf(Append(sendQueues[p], nd))
                   <=> b \in NodesOf(sendQueues[p]) \/ b = nd.node
  BY <1>2, <1>3, <1>6, <1>7, NodeAdded
<1>9. OneMove(InPlace, InPlace', Lossy)
  BY <1>1, <1>3, <1>4, <1>5, <1>6, <1>8, NewListed
<1>10. TableStep(p)
  BY <1>1, TableKept
<1>11. ListStep(p)
  <2>1. reg.target \in QNames /\ qOpened[p] \subseteq QNames /\ qUp \subseteq QNames
    BY <1>3, Before
  <2> QED BY <1>1, <1>4, <1>6, <1>8, <2>1 DEF ListStep
<1>12. FifoStep
  BY <1>1, FifosStay
<1>13. LossStep(p)
  BY <1>1, <1>4, <1>5 DEF LossStep, QueueInv, NothingLost
<1> QED BY <1>5, <1>9, <1>10, <1>11, <1>12, <1>13 DEF StepKeeps

LEMMA AttachOpenFailsStep ==
  ASSUME QueueInv, NEW p \in QNames, OnlyMine(p), AttachOpenFails(p) PROVE StepKeeps(p)
<1> DEFINE reg == qReg[p]
           old == [reg EXCEPT !.new = NoQBuf]
<1>1. /\ qPc[p] = "open" /\ QGoto(p, "refused", old) /\ qFree' = qFree \cup {reg.new}
      /\ UNCHANGED <<qTable, qUp, sendQueues, qOpened, pipe, qOwned, qDisturbed>>
      /\ QueueTypes /\ reg \in QRegs /\ Locals("open", reg, qOwned[p], sendQueues[p])
  BY Before DEF AttachOpenFails
<1>2. /\ reg.new # NoQBuf /\ (reg.sys # NoQBuf <=> reg.back = "update")
      /\ reg.back \in {"idle", "join", "update"} /\ reg.target \in QNames
      /\ reg.back = "join" => reg.group \in QGroups
  BY <1>1 DEF Locals, Sending
<1>3. qPc'[p] = "refused" /\ qReg'[p] = old
  BY <1>1, GotoIs
<1>4. /\ old \in QRegs /\ old.new = NoQBuf /\ old.sys = reg.sys /\ old.back = reg.back
      /\ old.target = reg.target /\ old.group = reg.group
  BY <1>1 DEF QRegs
<1> HIDE DEF old
<1>5. OneMove(InPlace, InPlace', Lossy)
  BY <1>1, <1>2, <1>3, <1>4, NewReleased
<1>6. TableStep(p) /\ ListStep(p) /\ FifoStep
  BY <1>1, TableKept, ListKept, FifosStay
<1>7. LocalStep(p)
  <2>1. Locals("refused", old, qOwned'[p], sendQueues'[p])
    BY <1>2, <1>4 DEF Locals, Sending
  <2> QED BY <1>3, <1>4, <2>1 DEF LocalStep, QPcs
<1>8. LossStep(p)
  BY <1>1, <1>3, LossKept
<1> QED BY <1>5, <1>6, <1>7, <1>8 DEF StepKeeps

LEMMA AttachRefusedStep ==
  ASSUME QueueInv, NEW p \in QNames, OnlyMine(p), AttachRefused(p) PROVE StepKeeps(p)
<1> DEFINE reg == qReg[p]
<1>1. /\ qPc[p] = "refused" /\ UNCHANGED <<qUp, sendQueues, qOpened, pipe, qOwned>>
      /\ reg \in QRegs /\ Locals("refused", reg, qOwned[p], sendQueues[p])
      /\ QueueTypes /\ TableOK(qTable) /\ Has(qTable, p, GroupAll)
  BY Before DEF AttachRefused
<1>2. /\ reg.new = NoQBuf /\ (reg.sys # NoQBuf <=> reg.back = "update")
      /\ reg.back = "join" => reg.group \in QGroups
  BY <1>1 DEF Locals, Sending
<1>3. "gone" \in qDisturbed <=> "gone" \in qDisturbed'
  BY DEF AttachRefused
<1>4. ListStep(p) /\ FifoStep
  BY <1>1, ListKept, FifosStay
<1>5. ASSUME reg.back # "update", Return(p), UNCHANGED qFree, TableStep(p) PROVE StepKeeps(p)
  <2>1. qPc'[p] = "idle" /\ qReg'[p] = NoReg
    BY <1>1, <1>5, GotoIs DEF Return
  <2>2. OneMove(InPlace, InPlace', Lossy)
    BY <1>1, <1>2, <1>5, <2>1, NoMove, AtRest
  <2>3. LocalStep(p)
    BY <2>1, AtRest DEF LocalStep, QPcs
  <2>4. LossStep(p)
    BY <1>1, <1>3, <2>1, LossKept
  <2> QED BY <1>4, <1>5, <2>2, <2>3, <2>4 DEF StepKeeps
<1>6. CASE reg.back = "idle" /\ Return(p) /\ UNCHANGED <<qTable, qFree>>
  <2>1. TableStep(p)
    BY <1>1, <1>6, TableKept
  <2> QED BY <1>5, <1>6, <2>1
<1>7. CASE /\ reg.back = "join" /\ Return(p)
           /\ qTable' = qdbDeleteQueue(qTable, p, reg.group) /\ UNCHANGED qFree
  <2>1. reg.group # GroupAll
    BY <1>2, <1>7, QAssumption
  <2>2. /\ TableOK(qTable')
        /\ \A q, h : Has(qTable, q, h) /\ h # reg.group => Has(qTable', q, h)
    BY <1>1, <1>7, <2>1, DeleteIs
  <2>3. TableStep(p)
    BY <1>1, <2>1, <2>2 DEF TableStep
  <2> QED BY <1>5, <1>7, <2>3
<1>8. CASE reg.back = "update" /\ SendGroupFails(p) /\ UNCHANGED qTable
  <2>1. /\ OneMove(InPlace, InPlace', Lossy) /\ LocalStep(p)
        /\ qPc'[p] \in {"failed", "idle"}
    BY <1>1, <1>8, SendFails DEF Sending
  <2>2. TableStep(p)
    BY <1>1, <1>8, TableKept
  <2>3. LossStep(p)
    BY <1>1, <1>3, <2>1, LossKept
  <2> QED BY <1>4, <2>1, <2>2, <2>3 DEF StepKeeps
<1> QED BY <1>6, <1>7, <1>8 DEF AttachRefused

LEMMA JoinStep ==
  ASSUME QueueInv, NEW p \in QNames, OnlyMine(p), NEW g \in QGroups, Join(p, g)
  PROVE  StepKeeps(p)
<1>1. /\ qPc[p] = "idle"
      /\ UNCHANGED <<qUp, sendQueues, qOpened, pipe, qFree, qOwned, qDisturbed>>
      /\ qReg[p].sys = NoQBuf /\ qReg[p].new = NoQBuf
      /\ QueueTypes /\ TableOK(qTable) /\ Has(qTable, p, GroupAll)
  BY NoLocals, Before DEF Join
<1>2. ListStep(p) /\ FifoStep
  BY <1>1, ListKept, FifosStay
<1>3. CASE qdbFull(qTable, p, g)
  <2>1. UNCHANGED <<qTable, qPc, qReg>>
    BY <1>3 DEF Join
  <2>2. OneMove(InPlace, InPlace', Lossy)
    BY <1>1, <2>1, NoMove
  <2>3. TableStep(p)
    BY <1>1, <2>1, TableKept
  <2>4. LocalStep(p)
    BY <1>1, <2>1, LocalsKept
  <2>5. LossStep(p)
    BY <1>1, <2>1, LossKept
  <2> QED BY <1>2, <2>2, <2>3, <2>4, <2>5 DEF StepKeeps
<1>4. CASE ~qdbFull(qTable, p, g)
  <2> DEFINE reg == [NoReg EXCEPT !.group = g, !.back = "join"]
  <2>1. qTable' = qdbAddQueue(qTable, p, g) /\ QGoto(p, "join", reg)
    BY <1>4 DEF Join
  <2>2. qPc'[p] = "join" /\ qReg'[p] = reg
    BY <1>1, <2>1, GotoIs
  <2>3. /\ reg \in QRegs /\ reg.sys = NoQBuf /\ reg.new = NoQBuf
        /\ reg.group = g /\ reg.back = "join"
    BY DEF QRegs, NoReg, AnyGroup
  <2> HIDE DEF reg
  <2>4. OneMove(InPlace, InPlace', Lossy)
    BY <1>1, <2>2, <2>3, NoMove
  <2>5. TableStep(p)
    <3>1. /\ TableOK(qTable')
          /\ \A q, h : Has(qTable, q, h) => Has(qTable', q, h)
      BY <1>1, <1>4, <2>1, AddIs DEF AnyGroup
    <3> QED BY <1>1, <3>1 DEF TableStep
  <2>6. LocalStep(p)
    <3>1. Locals("join", reg, qOwned'[p], sendQueues'[p])
      BY <2>3 DEF Locals, Sending
    <3> QED BY <2>2, <2>3, <3>1 DEF LocalStep, QPcs
  <2>7. LossStep(p)
    BY <1>1, <2>2, LossKept
  <2> QED BY <1>2, <2>4, <2>5, <2>6, <2>7 DEF StepKeeps
<1> QED BY <1>3, <1>4

LEMMA JoinNextStep ==
  ASSUME QueueInv, NEW p \in QNames, OnlyMine(p), JoinNext(p) PROVE StepKeeps(p)
<1>1. /\ qPc[p] = "join"
      /\ UNCHANGED <<qTable, qUp, sendQueues, qOpened, pipe, qFree, qOwned, qDisturbed>>
      /\ qReg[p].sys = NoQBuf /\ qReg[p].new = NoQBuf
      /\ QueueTypes /\ TableOK(qTable)
      /\ qReg[p].back = "join" /\ qReg[p].group \in QGroups
  BY NoLocals, Before DEF JoinNext, Locals
<1>2. TableStep(p) /\ ListStep(p) /\ FifoStep
  BY <1>1, TableKept, ListKept, FifosStay
<1>3. CASE Upcoming(p) = {}
  <2>1. qPc'[p] = "idle" /\ qReg'[p] = NoReg
    BY <1>1, <1>3, GotoIs DEF JoinNext, Return
  <2>2. OneMove(InPlace, InPlace', Lossy)
    BY <1>1, <2>1, NoMove, AtRest
  <2>3. LocalStep(p)
    BY <2>1, AtRest DEF LocalStep, QPcs
  <2>4. LossStep(p)
    BY <1>1, <2>1, LossKept
  <2> QED BY <1>2, <2>2, <2>3, <2>4 DEF StepKeeps
<1>4. CASE Upcoming(p) # {}
  <2> DEFINE reg == Advanced(p)
             pc == IF reg.target = p THEN "join" ELSE "attach"
  <2>1. QGoto(p, pc, reg)
    BY <1>4 DEF JoinNext
  <2>2. qPc'[p] = pc /\ qReg'[p] = reg
    BY <1>1, <2>1, GotoIs
  <2>3. /\ reg \in QRegs /\ reg.target \in QNames
        /\ reg.group = qReg[p].group /\ reg.back = qReg[p].back
        /\ reg.sys = qReg[p].sys /\ reg.new = qReg[p].new
    BY <1>1, <1>4, AdvancedIs
  <2>4. pc = "join" \/ pc = "attach"
    OBVIOUS
  <2> HIDE DEF reg, pc
  <2>5. OneMove(InPlace, InPlace', Lossy)
    BY <1>1, <2>2, <2>3, NoMove
  <2>6. LocalStep(p)
    <3>1. Locals(pc, reg, qOwned'[p], sendQueues'[p])
      BY <1>1, <2>3, <2>4 DEF Locals, Sending
    <3> QED BY <2>2, <2>3, <2>4, <3>1 DEF LocalStep, QPcs
  <2>7. LossStep(p)
    BY <1>1, <2>2, <2>4, LossKept
  <2> QED BY <1>2, <2>5, <2>6, <2>7 DEF StepKeeps
<1> QED BY <1>3, <1>4

LEMMA QuitStep ==
  ASSUME QueueInv, NEW p \in QNames, OnlyMine(p), NEW g \in QGroups, Quit(p, g)
  PROVE  StepKeeps(p)
<1> DEFINE reg == [NoReg EXCEPT !.group = g]
<1>1. /\ qPc[p] = "idle" /\ QGoto(p, "quit", reg)
      /\ UNCHANGED <<qTable, qUp, sendQueues, qOpened, pipe, qFree, qOwned, qDisturbed>>
      /\ qReg[p].sys = NoQBuf /\ qReg[p].new = NoQBuf /\ QueueTypes
  BY NoLocals, Before DEF Quit
<1>2. qPc'[p] = "quit" /\ qReg'[p] = reg
  BY <1>1, GotoIs
<1>3. reg \in QRegs /\ reg.sys = NoQBuf /\ reg.new = NoQBuf /\ reg.group = g
  BY DEF QRegs, NoReg, AnyGroup
<1> HIDE DEF reg
<1>4. OneMove(InPlace, InPlace', Lossy)
  BY <1>1, <1>2, <1>3, NoMove
<1>5. TableStep(p) /\ ListStep(p) /\ FifoStep
  BY <1>1, TableKept, ListKept, FifosStay
<1>6. LocalStep(p)
  <2>1. Locals("quit", reg, qOwned'[p], sendQueues'[p])
    BY <1>3 DEF Locals, Sending
  <2> QED BY <1>2, <1>3, <2>1 DEF LocalStep, QPcs
<1>7. LossStep(p)
  BY <1>1, <1>2, LossKept
<1> QED BY <1>4, <1>5, <1>6, <1>7 DEF StepKeeps

\* A send list one node of which may have gone.
LEMMA DettachKeepsList ==
  ASSUME QueueInv, NEW p \in QNames, NEW n, NEW g, DettachNode(p, n, g),
         UNCHANGED <<qOpened, qUp>>
  PROVE  ListStep(p)
<1>1. QueueTypes /\ ListsKept /\ SendList(sendQueues[p], qOpened[p])
  BY Before
<1>2. SendList(sendQueues'[p], qOpened[p])
  BY <1>1, DettachIs, NodeRemoved
<1> QED BY <1>2, Before DEF ListStep

LEMMA QuitNextStep ==
  ASSUME QueueInv, NEW p \in QNames, OnlyMine(p), QuitNext(p) PROVE StepKeeps(p)
<1>1. /\ qPc[p] = "quit" /\ UNCHANGED <<qUp, qOpened, pipe, qOwned>>
      /\ qReg[p].sys = NoQBuf /\ qReg[p].new = NoQBuf
      /\ QueueTypes /\ TableOK(qTable) /\ ListsKept
      /\ qReg[p].group \in QGroups /\ Has(qTable, p, GroupAll)
  BY NoLocals, Before DEF QuitNext, Locals
<1>2. FifoStep
  BY <1>1, FifosStay
<1>3. CASE Upcoming(p) = {}
  <2>1. /\ qTable' = qdbDeleteQueue(qTable, p, qReg[p].group)
        /\ qDisturbed' = qDisturbed \cup {"missed"}
        /\ QGoto(p, "idle", NoReg) /\ UNCHANGED <<sendQueues, qFree>>
    BY <1>3 DEF QuitNext, Return
  <2>2. qPc'[p] = "idle" /\ qReg'[p] = NoReg
    BY <1>1, <2>1, GotoIs
  <2>3. OneMove(InPlace, InPlace', Lossy)
    BY <1>1, <2>1, <2>2, NoMove, AtRest
  <2>4. TableStep(p)
    <3>1. qReg[p].group # GroupAll
      BY <1>1, QAssumption
    <3>2. /\ TableOK(qTable')
          /\ \A q, h : Has(qTable, q, h) /\ h # qReg[p].group => Has(qTable', q, h)
      BY <1>1, <2>1, <3>1, DeleteIs
    <3> QED BY <1>1, <3>1, <3>2 DEF TableStep
  <2>5. ListStep(p)
    BY <1>1, <2>1, ListKept
  <2>6. LocalStep(p)
    BY <2>2, AtRest DEF LocalStep, QPcs
  <2>7. LossStep(p)
    BY <1>1, <2>1, <2>2, LossKept
  <2> QED BY <1>2, <2>3, <2>4, <2>5, <2>6, <2>7 DEF StepKeeps
<1>4. CASE Upcoming(p) # {}
  <2> DEFINE reg == Advanced(p)
  <2>1. QGoto(p, "quit", reg) /\ UNCHANGED <<qTable, qDisturbed>>
    BY <1>4 DEF QuitNext
  <2>2. \/ UNCHANGED <<sendQueues, qFree>>
        \/ \E n, g : DettachNode(p, n, g)
    BY <1>4 DEF QuitNext
  <2>3. qPc'[p] = "quit" /\ qReg'[p] = reg
    BY <1>1, <2>1, GotoIs
  <2>4. /\ reg \in QRegs /\ reg.group = qReg[p].group
        /\ reg.sys = qReg[p].sys /\ reg.new = qReg[p].new
    BY <1>1, <1>4, AdvancedIs
  <2> HIDE DEF reg
  <2>5. OneMove(InPlace, InPlace', Lossy)
    BY <1>1, <2>2, <2>3, <2>4, NoMove, DettachMoves
  <2>6. TableStep(p)
    BY <1>1, <2>1, TableKept
  <2>7. ListStep(p)
    BY <1>1, <2>2, ListKept, DettachKeepsList
  <2>8. LocalStep(p)
    <3>1. Locals("quit", reg, qOwned'[p], sendQueues'[p])
      BY <1>1, <2>4 DEF Locals, Sending
    <3> QED BY <2>3, <2>4, <3>1 DEF LocalStep, QPcs
  <2>9. LossStep(p)
    BY <1>1, <2>1, <2>3, LossKept
  <2> QED BY <1>2, <2>5, <2>6, <2>7, <2>8, <2>9 DEF StepKeeps
<1> QED BY <1>3, <1>4

\* A process at rest may do what it likes with its buffers and its list.
LEMMA IdleLocals ==
  ASSUME QueueInv, NEW p \in QNames, qPc[p] = "idle", qPc'[p] = qPc[p], qReg'[p] = qReg[p]
  PROVE  LocalStep(p)
<1>1. qReg[p] \in QRegs /\ qReg[p].sys = NoQBuf /\ qReg[p].new = NoQBuf
  BY NoLocals, Before
<1>2. Locals("idle", qReg[p], qOwned'[p], sendQueues'[p])
  BY <1>1 DEF Locals, Sending
<1> QED BY <1>1, <1>2 DEF LocalStep, QPcs

LEMMA ClientDettachStep ==
  ASSUME QueueInv, NEW p \in QNames, OnlyMine(p), NEW n \in QNames, NEW g \in AnyGroup,
         ClientDettach(p, n, g)
  PROVE  StepKeeps(p)
<1>1. /\ qPc[p] = "idle" /\ DettachNode(p, n, g) /\ QueueTypes /\ ListsKept
      /\ UNCHANGED <<qTable, qUp, qOpened, pipe, qOwned, qPc, qReg>>
      /\ "gone" \in qDisturbed => "gone" \in qDisturbed'
  BY Before DEF ClientDettach
<1>2. OneMove(InPlace, InPlace', Lossy)
  BY <1>1, DettachMoves
<1>3. TableStep(p) /\ ListStep(p) /\ FifoStep /\ LocalStep(p)
  BY <1>1, TableKept, DettachKeepsList, FifosStay, IdleLocals
<1>4. LossStep(p)
  BY <1>1, LossKept
<1> QED BY <1>2, <1>3, <1>4 DEF StepKeeps

LEMMA AllocStep ==
  ASSUME QueueInv, NEW p \in QNames, OnlyMine(p), Alloc(p) PROVE StepKeeps(p)
<1>1. /\ qPc[p] = "idle" /\ qFree # {} /\ qOwned[p] = {} /\ qFree' = qFree \ {AnyFree}
      /\ qOwned' = [qOwned EXCEPT ![p] = {AnyFree}]
      /\ UNCHANGED <<qTable, qUp, sendQueues, qOpened, pipe, qPc, qReg, qDisturbed>>
  BY DEF Alloc
<1>2. OneMove(InPlace, InPlace', Lossy)
  BY <1>1, ClientTakes
<1>3. TableStep(p) /\ ListStep(p) /\ FifoStep /\ LocalStep(p)
  BY <1>1, TableKept, ListKept, FifosStay, IdleLocals
<1>4. LossStep(p)
  BY <1>1, LossKept
<1> QED BY <1>2, <1>3, <1>4 DEF StepKeeps

LEMMA ReleaseStep ==
  ASSUME QueueInv, NEW p \in QNames, OnlyMine(p), Release(p) PROVE StepKeeps(p)
<1>1. /\ qPc[p] = "idle" /\ qFree' = qFree \cup qOwned[p]
      /\ qOwned' = [qOwned EXCEPT ![p] = {}]
      /\ UNCHANGED <<qTable, qUp, sendQueues, qOpened, pipe, qPc, qReg, qDisturbed>>
  BY DEF Release
<1>2. OneMove(InPlace, InPlace', Lossy)
  BY <1>1, ClientReturns
<1>3. TableStep(p) /\ ListStep(p) /\ FifoStep /\ LocalStep(p)
  BY <1>1, TableKept, ListKept, FifosStay, IdleLocals
<1>4. LossStep(p)
  BY <1>1, LossKept
<1> QED BY <1>2, <1>3, <1>4 DEF StepKeeps

LEMMA RecvStep ==
  ASSUME QueueInv, NEW p \in QNames, OnlyMine(p), Recv(p) PROVE StepKeeps(p)
<1> DEFINE m == Head(pipe[p]).bfr
<1>1. /\ qPc[p] = "idle" /\ pipe[p] # <<>> /\ pipe' = [pipe EXCEPT ![p] = Tail(@)]
      /\ qFree' = qFree \cup {m}
      /\ UNCHANGED <<qTable, qUp, sendQueues, qOpened, qOwned, qPc, qReg, qDisturbed>>
  BY DEF Recv
<1>2. Fifo(pipe[p]) /\ DOMAIN pipe = QNames
  BY Before DEF QueueTypes
<1>3. pipe'[p] = Tail(pipe[p]) /\ \A q \in QNames : q # p => pipe'[q] = pipe[q]
  BY <1>1, <1>2
<1>4. /\ Fifo(Tail(pipe[p])) /\ m \in MsgsOf(pipe[p])
      /\ \A b : b \in MsgsOf(Tail(pipe[p])) <=> b \in MsgsOf(pipe[p]) /\ b # m
  BY <1>1, <1>2, MessageTaken
<1> HIDE DEF m
<1>5. OneMove(InPlace, InPlace', Lossy)
  BY <1>1, <1>3, <1>4, MessageReleased
<1>6. FifoStep
  BY <1>3, <1>4 DEF FifoStep, QueueInv, FifosKept
<1>7. TableStep(p) /\ ListStep(p) /\ LocalStep(p)
  BY <1>1, TableKept, ListKept, IdleLocals
<1>8. LossStep(p)
  BY <1>1, LossKept
<1> QED BY <1>5, <1>6, <1>7, <1>8 DEF StepKeeps

\* A buffer that is not in the FIFO of n is written into it.
LEMMA WriteIs ==
  ASSUME QueueInv, NEW n \in QNames, NEW p \in QNames, NEW b \in QBufs, WriteTaken(n),
         b \notin MsgsOf(pipe[n]),
         pipe' = [pipe EXCEPT ![n] = Append(@, [src |-> p, bfr |-> b])]
  PROVE  /\ FifoStep
         /\ \A c : c \in MsgsOf(pipe'[n]) <=> c \in MsgsOf(pipe[n]) \/ c = b
         /\ \A q \in QNames : q # n => pipe'[q] = pipe[q]
<1> DEFINE m == [src |-> p, bfr |-> b]
<1>1. m \in Message /\ m.bfr = b
  BY DEF Message
<1>2. Fifo(pipe[n]) /\ DOMAIN pipe = QNames /\ Len(pipe[n]) < PipeCapacity
  BY Before DEF QueueTypes, WriteTaken
<1>3. pipe'[n] = Append(pipe[n], m) /\ \A q \in QNames : q # n => pipe'[q] = pipe[q]
  BY <1>2
<1> HIDE DEF m
<1>4. /\ Fifo(Append(pipe[n], m))
      /\ \A c : c \in MsgsOf(Append(pipe[n], m)) <=> c \in MsgsOf(pipe[n]) \/ c = m.bfr
  BY <1>1, <1>2, MessageWritten
<1>5. FifoStep
  BY <1>3, <1>4 DEF FifoStep, QueueInv, FifosKept
<1> QED BY <1>1, <1>3, <1>4, <1>5

LEMMA SendStep ==
  ASSUME QueueInv, NEW p \in QNames, OnlyMine(p), NEW n \in QNames, Send(p, n)
  PROVE  StepKeeps(p)
<1>1. /\ qPc[p] = "idle"
      /\ UNCHANGED <<qTable, qUp, qOpened, qPc, qReg, qDelivery, qDisturbed>>
      /\ QueueTypes /\ ListsKept
  BY Before DEF Send
<1>2. TableStep(p) /\ LocalStep(p)
  BY <1>1, TableKept, IdleLocals
<1>3. LossStep(p)
  BY <1>1, LossKept
<1>4. PICK b \in qOwned[p] :
        \/ UNCHANGED <<pipe, qOwned, sendQueues, qFree>>
        \/ (\E g : DettachNode(p, n, g)) /\ UNCHANGED <<pipe, qOwned>>
        \/ /\ WriteTaken(n)
           /\ pipe' = [pipe EXCEPT ![n] = Append(@, [src |-> p, bfr |-> b])]
           /\ qOwned' = [qOwned EXCEPT ![p] = @ \ {b}]
           /\ UNCHANGED <<sendQueues, qFree>>
  BY DEF Send
<1>5. CASE UNCHANGED <<pipe, qOwned, sendQueues, qFree>>
  <2>1. OneMove(InPlace, InPlace', Lossy)
    BY <1>1, <1>5, NoMove
  <2>2. ListStep(p) /\ FifoStep
    BY <1>1, <1>5, ListKept, FifosStay
  <2> QED BY <1>2, <1>3, <2>1, <2>2 DEF StepKeeps
<1>6. ASSUME NEW g, DettachNode(p, n, g), UNCHANGED <<pipe, qOwned>> PROVE StepKeeps(p)
  <2>1. OneMove(InPlace, InPlace', Lossy)
    BY <1>1, <1>6, DettachMoves
  <2>2. ListStep(p) /\ FifoStep
    BY <1>1, <1>6, DettachKeepsList, FifosStay
  <2> QED BY <1>2, <1>3, <2>1, <2>2 DEF StepKeeps
<1>7. CASE /\ WriteTaken(n)
           /\ pipe' = [pipe EXCEPT ![n] = Append(@, [src |-> p, bfr |-> b])]
           /\ qOwned' = [qOwned EXCEPT ![p] = @ \ {b}]
           /\ UNCHANGED <<sendQueues, qFree>>
  <2>1. b \in QBufs /\ b \notin MsgsOf(pipe[n])
    <3>1. <<"client", p>> \in QPlaces /\ <<"pipe", n>> \in QPlaces
          /\ <<"client", p>> # <<"pipe", n>>
      BY PlacesOf
    <3>2. /\ InPlace[<<"client", p>>] = qOwned[p]
          /\ InPlace[<<"pipe", n>>] = MsgsOf(pipe[n])
      BY PlacesAre
    <3>3. qOwned[p] \cap MsgsOf(pipe[n]) = {}
      BY <3>1, <3>2 DEF QueueInv, Disjoint
    <3> QED BY <1>1, <3>3 DEF QueueTypes
  <2>2. /\ FifoStep
        /\ \A c : c \in MsgsOf(pipe'[n]) <=> c \in MsgsOf(pipe[n]) \/ c = b
        /\ \A q \in QNames : q # n => pipe'[q] = pipe[q]
    BY <1>7, <2>1, WriteIs
  <2>3. OneMove(InPlace, InPlace', Lossy)
    BY <1>1, <1>7, <2>2, ClientWrites
  <2>4. ListStep(p)
    BY <1>1, <1>7, ListKept
  <2> QED BY <1>2, <1>3, <2>2, <2>3, <2>4 DEF StepKeeps
<1> QED BY <1>4, <1>5, <1>6, <1>7

LEMMA SendGroupStep ==
  ASSUME QueueInv, NEW p \in QNames, OnlyMine(p), NEW g \in AnyGroup, SendGroup(p, g)
  PROVE  StepKeeps(p)
<1> DEFINE mine == {i \in DOMAIN qTable : qTable[i].name = p /\ qTable[i].group = g}
           flagged == {i \in mine : qTable[i].updateFlag = 1}
           pc == IF flagged # {} THEN "update" ELSE "group"
           reg(b) == [NoReg EXCEPT !.group = g, !.sys = b, !.back = "update"]
           cleared == [i \in DOMAIN qTable |-> IF i \in flagged
                                               THEN [qTable[i] EXCEPT !.updateFlag = 0]
                                               ELSE qTable[i]]
<1>1. PICK b \in qOwned[p] : /\ qOwned' = [qOwned EXCEPT ![p] = @ \ {b}]
                             /\ QGoto(p, pc, reg(b)) /\ qTable' = cleared
  BY DEF SendGroup
<1>2. /\ qPc[p] = "idle" /\ UNCHANGED <<qUp, sendQueues, qOpened, pipe, qFree, qDisturbed>>
      /\ qReg[p].sys = NoQBuf /\ qReg[p].new = NoQBuf
      /\ QueueTypes /\ TableOK(qTable) /\ Has(qTable, p, GroupAll)
  BY NoLocals, Before DEF SendGroup
<1>3. DOMAIN cleared = DOMAIN qTable /\ cleared = [i \in DOMAIN cleared |-> cleared[i]]
  OBVIOUS
<1>4. \A i \in DOMAIN qTable :
        cleared[i] = qTable[i] \/ \E f \in {0, 1} : cleared[i] = [qTable[i] EXCEPT !.updateFlag = f]
  OBVIOUS
<1>5. pc \in {"update", "group"}
  OBVIOUS
<1>6. b \in QBufs /\ b # NoQBuf
  <2>1. qOwned[p] \subseteq QBufs
    BY <1>2 DEF QueueTypes
  <2> QED BY <2>1, QAssumption DEF QBufs, NoQBuf
<1>7. /\ reg(b) \in QRegs /\ reg(b).sys = b /\ reg(b).new = NoQBuf /\ reg(b).back = "update"
  BY <1>6 DEF QRegs, NoReg, AnyGroup
<1> HIDE DEF pc, reg, cleared
<1>8. qPc'[p] = pc /\ qReg'[p] = reg(b)
  BY <1>1, <1>2, GotoIs
<1>9. OneMove(InPlace, InPlace', Lossy)
  BY <1>1, <1>2, <1>7, <1>8, ClientSends
<1>10. TableStep(p)
  <2>1. TableOK(cleared) /\ \A q, h : Has(cleared, q, h) <=> Has(qTable, q, h)
    BY <1>2, <1>3, <1>4, Reflagged
  <2> QED BY <1>1, <1>2, <2>1 DEF TableStep
<1>11. ListStep(p) /\ FifoStep
  BY <1>2, ListKept, FifosStay
<1>12. LocalStep(p)
  <2>1. Locals(pc, reg(b), qOwned'[p], sendQueues'[p])
    BY <1>5, <1>6, <1>7 DEF Locals, Sending
  <2> QED BY <1>5, <1>7, <1>8, <2>1 DEF LocalStep, QPcs
<1>13. LossStep(p)
  BY <1>2, <1>5, <1>8, LossKept
<1> QED BY <1>9, <1>10, <1>11, <1>12, <1>13 DEF StepKeeps

LEMMA UpdateNextStep ==
  ASSUME QueueInv, NEW p \in QNames, OnlyMine(p), UpdateNext(p) PROVE StepKeeps(p)
<1>1. /\ qPc[p] = "update"
      /\ UNCHANGED <<qTable, qUp, sendQueues, qOpened, pipe, qFree, qOwned, qDisturbed>>
      /\ QueueTypes /\ TableOK(qTable) /\ qReg[p] \in QRegs
      /\ qReg[p].sys # NoQBuf /\ qReg[p].new = NoQBuf /\ qReg[p].back = "update"
  BY Before DEF UpdateNext, Locals, Sending
<1>2. PICK pc, reg :
        /\ QGoto(p, pc, reg) /\ pc \in {"update", "group", "attach"}
        /\ reg \in QRegs /\ reg.sys = qReg[p].sys /\ reg.new = NoQBuf /\ reg.back = "update"
        /\ pc = "attach" => reg.target \in QNames
  <2>1. CASE Upcoming(p) = {}
    <3> DEFINE reg == [qReg[p] EXCEPT !.index = 0]
    <3>1. QGoto(p, "group", reg)
      BY <2>1 DEF UpdateNext
    <3>2. reg \in QRegs /\ reg.sys = qReg[p].sys /\ reg.new = NoQBuf /\ reg.back = "update"
      BY <1>1 DEF QRegs
    <3> HIDE DEF reg
    <3> QED BY <3>1, <3>2
  <2>2. CASE Upcoming(p) # {}
    <3> DEFINE reg == Advanced(p)
               pc == IF reg.target = p \/ GetFD(p, reg.target) THEN "update" ELSE "attach"
    <3>1. QGoto(p, pc, reg)
      BY <2>2 DEF UpdateNext
    <3>2. /\ reg \in QRegs /\ reg.sys = qReg[p].sys /\ reg.new = NoQBuf
          /\ reg.back = "update" /\ reg.target \in QNames
      BY <1>1, <2>2, AdvancedIs
    <3>3. pc \in {"update", "attach"}
      OBVIOUS
    <3> HIDE DEF reg, pc
    <3> QED BY <3>1, <3>2, <3>3
  <2> QED BY <2>1, <2>2
<1>3. qPc'[p] = pc /\ qReg'[p] = reg
  BY <1>1, <1>2, GotoIs
<1>4. OneMove(InPlace, InPlace', Lossy)
  BY <1>1, <1>2, <1>3, NoMove
<1>5. TableStep(p) /\ ListStep(p) /\ FifoStep
  BY <1>1, TableKept, ListKept, FifosStay
<1>6. LocalStep(p)
  <2>1. Locals(pc, reg, qOwned'[p], sendQueues'[p])
    BY <1>1, <1>2 DEF Locals, Sending
  <2> QED BY <1>2, <1>3, <2>1 DEF LocalStep, QPcs
<1>7. LossStep(p)
  BY <1>1, <1>2, <1>3, LossKept
<1> QED BY <1>4, <1>5, <1>6, <1>7 DEF StepKeeps

LEMMA GroupNextStep ==
  ASSUME QueueInv, NEW p \in QNames, OnlyMine(p), GroupNext(p) PROVE StepKeeps(p)
<1>1. /\ qPc[p] = "group" /\ UNCHANGED <<qTable, qUp, sendQueues, qOpened, pipe, qOwned>>
      /\ QueueTypes /\ TableOK(qTable) /\ qReg[p] \in QRegs
      /\ qReg[p].sys # NoQBuf /\ qReg[p].new = NoQBuf
  BY Before DEF GroupNext, Locals, Sending
<1>2. "gone" \in qDisturbed <=> "gone" \in qDisturbed'
  BY DEF GroupNext
<1>3. TableStep(p) /\ ListStep(p) /\ FifoStep
  BY <1>1, TableKept, ListKept, FifosStay
<1>4. CASE Upcoming(p) = {}
  <2>1. QGoto(p, "idle", NoReg) /\ qFree' = qFree \cup {qReg[p].sys}
    BY <1>4 DEF GroupNext, Return
  <2>2. qPc'[p] = "idle" /\ qReg'[p] = NoReg
    BY <1>1, <2>1, GotoIs
  <2>3. OneMove(InPlace, InPlace', Lossy)
    BY <1>1, <2>1, <2>2, SysReleased, AtRest
  <2>4. LocalStep(p)
    BY <2>2, AtRest DEF LocalStep, QPcs
  <2>5. LossStep(p)
    BY <1>1, <1>2, <2>2, LossKept
  <2> QED BY <1>3, <2>3, <2>4, <2>5 DEF StepKeeps
<1>5. CASE Upcoming(p) # {}
  <2> DEFINE reg == Advanced(p)
  <2>1. /\ reg \in QRegs /\ reg.sys = qReg[p].sys /\ reg.new = NoQBuf
        /\ reg.target \in QNames
    BY <1>1, <1>5, AdvancedIs
  <2>2. CASE reg.target = p
    <3>1. QGoto(p, "group", reg) /\ UNCHANGED <<qFree, qDisturbed>>
      BY <1>5, <2>2 DEF GroupNext
    <3> HIDE DEF reg
    <3>2. qPc'[p] = "group" /\ qReg'[p] = reg
      BY <1>1, <3>1, GotoIs
    <3>3. OneMove(InPlace, InPlace', Lossy)
      BY <1>1, <2>1, <3>1, <3>2, NoMove
    <3>4. LocalStep(p)
      <4>1. Locals("group", reg, qOwned'[p], sendQueues'[p])
        BY <1>1, <2>1 DEF Locals, Sending
      <4> QED BY <2>1, <3>2, <4>1 DEF LocalStep, QPcs
    <3>5. LossStep(p)
      BY <1>1, <1>2, <3>2, LossKept
    <3> QED BY <1>3, <3>3, <3>4, <3>5 DEF StepKeeps
  <2>3. CASE reg.target # p /\ qFree = {}
    <3>1. SendGroupFails(p)
      BY <1>5, <2>3 DEF GroupNext
    <3>2. /\ OneMove(InPlace, InPlace', Lossy) /\ LocalStep(p)
          /\ qPc'[p] \in {"failed", "idle"}
      BY <1>1, <3>1, SendFails DEF Sending
    <3>3. LossStep(p)
      BY <1>1, <1>2, <3>2, LossKept
    <3> QED BY <1>3, <3>2, <3>3 DEF StepKeeps
  <2>4. CASE reg.target # p /\ qFree # {}
    <3> DEFINE new == [reg EXCEPT !.new = AnyFree]
    <3>1. QGoto(p, "write", new) /\ qFree' = qFree \ {AnyFree} /\ UNCHANGED qDisturbed
      BY <1>5, <2>4 DEF GroupNext
    <3> HIDE DEF reg
    <3>2. AnyFree \in QBufs /\ AnyFree # NoQBuf
      <4>1. AnyFree \in qFree /\ qFree \subseteq QBufs
        BY <1>1, <2>4 DEF AnyFree, QueueTypes
      <4> QED BY <4>1, QAssumption DEF QBufs, NoQBuf
    <3>3. /\ new \in QRegs /\ new.new = AnyFree /\ new.sys = reg.sys
          /\ new.target = reg.target
      BY <2>1, <3>2 DEF QRegs
    <3> HIDE DEF new
    <3>4. qPc'[p] = "write" /\ qReg'[p] = new
      BY <1>1, <3>1, GotoIs
    <3>5. OneMove(InPlace, InPlace', Lossy)
      BY <1>1, <2>1, <2>4, <3>1, <3>3, <3>4, NewTaken
    <3>6. LocalStep(p)
      <4>1. Locals("write", new, qOwned'[p], sendQueues'[p])
        BY <1>1, <2>1, <3>2, <3>3 DEF Locals, Sending
      <4> QED BY <3>3, <3>4, <4>1 DEF LocalStep, QPcs
    <3>7. LossStep(p)
      BY <1>1, <1>2, <3>4, LossKept
    <3> QED BY <1>3, <3>5, <3>6, <3>7 DEF StepKeeps
  <2> QED BY <2>2, <2>3, <2>4
<1> QED BY <1>4, <1>5

\* What is in the send list is open, so its reader is there unless a process
\* has gone.
LEMMA GroupWriteStep ==
  ASSUME QueueInv, NEW p \in QNames, OnlyMine(p), GroupWrite(p) PROVE StepKeeps(p)
<1> DEFINE n == qReg[p].target
           new == qReg[p].new
           old == [qReg[p] EXCEPT !.new = NoQBuf]
<1>1. /\ qPc[p] = "write" /\ QGoto(p, "group", old)
      /\ UNCHANGED <<qTable, qUp, sendQueues, qOpened, qOwned>>
      /\ "gone" \in qDisturbed <=> "gone" \in qDisturbed'
      /\ QueueTypes /\ qReg[p] \in QRegs
      /\ n \in QNames /\ new # NoQBuf /\ qReg[p].sys # NoQBuf
  BY Before DEF GroupWrite, Locals, Sending
<1>2. /\ qPc'[p] = "group" /\ qReg'[p] = old
  BY <1>1, GotoIs
<1>3. new \in QBufs /\ old \in QRegs /\ old.new = NoQBuf /\ old.sys = qReg[p].sys
  BY <1>1 DEF QRegs
<1> HIDE DEF old
<1>4. TableStep(p) /\ ListStep(p)
  BY <1>1, TableKept, ListKept
<1>5. LocalStep(p)
  <2>1. Locals("group", old, qOwned'[p], sendQueues'[p])
    BY <1>1, <1>3 DEF Locals, Sending
  <2> QED BY <1>2, <1>3, <2>1 DEF LocalStep, QPcs
<1>6. LossStep(p)
  BY <1>1, <1>2, LossKept
<1>7. CASE qFree' = qFree \cup {new} /\ UNCHANGED pipe
  <2>1. OneMove(InPlace, InPlace', Lossy)
    BY <1>1, <1>2, <1>3, <1>7, NewReleased
  <2> QED BY <1>4, <1>5, <1>6, <1>7, <2>1, FifosStay DEF StepKeeps
<1>8. CASE GetFD(p, n) /\ WriteAborts(n) /\ UNCHANGED <<qFree, pipe>>
  <2>1. n \in qOpened[p] /\ n \notin qUp
    BY <1>8, Before DEF GetFD, WriteAborts, SendList
  <2>2. Lossy
    BY <1>1, <2>1 DEF QueueInv, NothingLost, Lossy
  <2>3. \A b : b \in HeldIn(qReg'[p].new) => b \in HeldIn(new)
    BY <1>2, <1>3 DEF HeldIn
  <2>4. \A q \in QNames : \A b : b \in MsgsOf(pipe'[q]) => b \in MsgsOf(pipe[q])
    BY <1>8
  <2>5. qReg'[p].sys = qReg[p].sys /\ UNCHANGED <<qFree, qOwned, sendQueues>>
    BY <1>1, <1>2, <1>3, <1>8
  <2>6. /\ \A b : b \in HeldIn(qReg'[p].sys) => b \in HeldIn(qReg[p].sys)
        /\ \A b : b \in qOwned'[p] => b \in qOwned[p]
        /\ \A b : b \in NodesOf(sendQueues'[p]) => b \in NodesOf(sendQueues[p])
    BY <2>5
  <2>7. OneMove(InPlace, InPlace', Lossy)
    BY <2>2, <2>3, <2>4, <2>5, <2>6, PlacesShrink
  <2> QED BY <1>4, <1>5, <1>6, <1>8, <2>7, FifosStay DEF StepKeeps
<1>9. CASE /\ WriteTaken(n) /\ UNCHANGED qFree
           /\ pipe' = [pipe EXCEPT ![n] = Append(@, [src |-> p, bfr |-> new])]
  <2>1. new \notin MsgsOf(pipe[n])
    <3>1. <<"new", p>> \in QPlaces /\ <<"pipe", n>> \in QPlaces
          /\ <<"new", p>> # <<"pipe", n>>
      BY <1>1, PlacesOf
    <3>2. /\ InPlace[<<"new", p>>] = HeldIn(new)
          /\ InPlace[<<"pipe", n>>] = MsgsOf(pipe[n])
      BY <1>1, PlacesAre
    <3>3. HeldIn(new) \cap MsgsOf(pipe[n]) = {}
      BY <3>1, <3>2 DEF QueueInv, Disjoint
    <3> QED BY <1>1, <3>3 DEF HeldIn
  <2> HIDE DEF n, new
  <2>2. /\ FifoStep
        /\ \A c : c \in MsgsOf(pipe'[n]) <=> c \in MsgsOf(pipe[n]) \/ c = new
        /\ \A q \in QNames : q # n => pipe'[q] = pipe[q]
    BY <1>1, <1>3, <1>9, <2>1, WriteIs
  <2>3. new = qReg[p].new
    BY DEF new
  <2>4. OneMove(InPlace, InPlace', Lossy)
    BY <1>1, <1>2, <1>3, <1>9, <2>2, <2>3, NewWritten
  <2> QED BY <1>4, <1>5, <1>6, <2>2, <2>4 DEF StepKeeps
<1> QED BY <1>7, <1>8, <1>9 DEF GroupWrite

LEMMA StepIs ==
  ASSUME QueueInv, NEW p \in QNames, QStep(p) PROVE StepKeeps(p) /\ OnlyMine(p)
<1>1. OnlyMine(p)
  BY Before, OthersKeep
<1>2. \A g \in QGroups : Join(p, g) \/ Quit(p, g) => StepKeeps(p)
  BY <1>1, JoinStep, QuitStep
<1>3. \A n \in QNames : Send(p, n) => StepKeeps(p)
  BY <1>1, SendStep
<1>4. \A g \in QGroups \cup {GroupAll} : SendGroup(p, g) => StepKeeps(p)
  BY <1>1, SendGroupStep DEF AnyGroup
<1>5. CASE QueueInit(p) \/ Exit(p) \/ ExitDelete(p) \/ ExitClose(p) \/ Die(p)
  BY <1>1, <1>5, QueueInitStep, ExitStep, ExitDeleteStep, ExitCloseStep, DieStep
<1>6. CASE AttachGet(p) \/ AttachOpen(p) \/ AttachOpenFails(p) \/ AttachRefused(p)
           \/ JoinNext(p) \/ QuitNext(p)
  BY <1>1, <1>6, AttachGetStep, AttachOpenStep, AttachOpenFailsStep, AttachRefusedStep,
     JoinNextStep, QuitNextStep
<1>7. CASE Alloc(p) \/ Release(p) \/ Recv(p)
  BY <1>1, <1>7, AllocStep, ReleaseStep, RecvStep
<1>8. CASE UpdateNext(p) \/ GroupNext(p) \/ GroupWrite(p)
  BY <1>1, <1>8, UpdateNextStep, GroupNextStep, GroupWriteStep
<1>9. \A n \in QNames, g \in QGroups \cup {GroupAll} :
        ClientAttach(p, n, g) \/ ClientDettach(p, n, g) => StepKeeps(p)
  BY <1>1, ClientAttachStep, ClientDettachStep DEF AnyGroup
<1> QED BY <1>1, <1>2, <1>3, <1>4, <1>5, <1>6, <1>7, <1>8, <1>9 DEF QStep

------------------------------------------------------------------------------
(* The invariant holds *)

\* Only buffers are in the places.
Buffered(h) == \A x \in QPlaces : h[x] \subseteq QBufs

LEMMA StaysBuffered ==
  ASSUME NEW h, NEW g, NEW lost, OneMove(h, g, lost), Buffered(h) PROVE Buffered(g)
<1>1. ASSUME NEW a, NEW c, NEW B, Moves(h, g, a, c, B) PROVE Buffered(g)
  <2> SUFFICES ASSUME NEW x \in QPlaces, NEW b, b \in g[x] PROVE b \in QBufs
    BY DEF Buffered
  <2>1. \E y \in QPlaces : b \in h[y]
    BY <1>1 DEF Moves
  <2> QED BY <2>1 DEF Buffered
<1>2. CASE Shrinks(h, g)
  BY <1>2 DEF Shrinks, Buffered
<1> QED BY <1>1, <1>2 DEF OneMove

LEMMA PlacesBuffered == QueueInv => Buffered(InPlace)
<1> SUFFICES ASSUME QueueInv, NEW x \in QPlaces, NEW b, b \in InPlace[x] PROVE b \in QBufs
  BY DEF Buffered
<1>1. QueueTypes /\ qFree \subseteq QBufs /\ \A q \in QNames : qOwned[q] \subseteq QBufs
  BY DEF QueueInv, QueueTypes
<1>2. CASE x = <<"free", NoName>>
  BY <1>1, <1>2, PlacesAre DEF InPlace, QPlaces
<1>3. ASSUME NEW q \in QNames, x = <<"client", q>> PROVE b \in QBufs
  BY <1>1, <1>3, PlacesAre
<1>4. ASSUME NEW q \in QNames, x = <<"node", q>> PROVE b \in QBufs
  <2>1. b \in NodesOf(sendQueues[q]) /\ SendList(sendQueues[q], qOpened[q])
    BY <1>4, PlacesAre, Before
  <2>2. PICK i \in DOMAIN sendQueues[q] : b = sendQueues[q][i].node
    BY <2>1 DEF NodesOf
  <2> QED BY <2>1, <2>2, NodeRemoved
<1>5. ASSUME NEW q \in QNames, x = <<"pipe", q>> PROVE b \in QBufs
  <2>1. b \in MsgsOf(pipe[q]) /\ pipe[q] \in Seq(Message)
    BY <1>5, PlacesAre, Before DEF Fifo
  <2>2. PICK i \in DOMAIN pipe[q] : b = pipe[q][i].bfr
    BY <2>1 DEF MsgsOf
  <2>3. pipe[q][i] \in Message
    BY <2>1, <2>2
  <2> QED BY <2>2, <2>3 DEF Message
<1>6. ASSUME NEW q \in QNames, x = <<"sys", q>> PROVE b \in QBufs
  <2>1. b \in HeldIn(qReg[q].sys) /\ qReg[q] \in QRegs
    BY <1>6, PlacesAre, Before
  <2> QED BY <2>1 DEF HeldIn, QRegs
<1>7. ASSUME NEW q \in QNames, x = <<"new", q>> PROVE b \in QBufs
  <2>1. b \in HeldIn(qReg[q].new) /\ qReg[q] \in QRegs
    BY <1>7, PlacesAre, Before
  <2> QED BY <2>1 DEF HeldIn, QRegs
<1> QED BY <1>2, <1>3, <1>4, <1>5, <1>6, <1>7, PlaceKinds

LEMMA StepQueueInv ==
  ASSUME QueueInv, NEW p \in QNames, QStep(p) PROVE QueueInv'
<1>1. /\ OneMove(InPlace, InPlace', Lossy) /\ TableStep(p) /\ ListStep(p)
      /\ FifoStep /\ LocalStep(p) /\ LossStep(p) /\ OnlyMine(p)
  BY StepIs DEF StepKeeps
<1>2. QueueTypes /\ ListsKept /\ LocalsFit /\ Listed /\ Disjoint(InPlace) /\ NothingLost
  BY DEF QueueInv
<1>3. Buffered(InPlace')
  BY <1>1, PlacesBuffered, StaysBuffered
<1>4. QueueTypes'
  <2>1. qFree' \subseteq QBufs /\ \A q \in QNames : qOwned'[q] \subseteq QBufs
    <3>1. \A q \in QNames : <<"free", NoName>> \in QPlaces /\ <<"client", q>> \in QPlaces
      BY DEF QPlaces
    <3>2. \A q \in QNames : /\ InPlace'[<<"free", NoName>>] = qFree'
                            /\ InPlace'[<<"client", q>>] = qOwned'[q]
      BY PlacesAre
    <3> QED BY <1>3, <3>1, <3>2 DEF Buffered
  <2>2. \A q \in QNames : /\ qOpened'[q] \subseteq QNames /\ qPc'[q] \in QPcs
                          /\ qReg'[q] \in QRegs
    BY <1>1, <1>2 DEF OnlyMine, ListStep, LocalStep, QueueTypes, QPcs
  <2>3. qOpened' \in [QNames -> SUBSET QNames] /\ qOwned' \in [QNames -> SUBSET QBufs]
    BY <1>1, <2>1, <2>2 DEF OnlyMine
  <2>4. qPc' \in [QNames -> QPcs] /\ qReg' \in [QNames -> QRegs]
    BY <1>1, <2>2 DEF OnlyMine
  <2>5. qUp' \subseteq QNames /\ DOMAIN sendQueues' = QNames /\ DOMAIN pipe' = QNames
    BY <1>1 DEF OnlyMine, ListStep
  <2> QED BY <2>1, <2>3, <2>4, <2>5 DEF QueueTypes, QPcs
<1>5. TableOK(qTable)' /\ FifosKept'
  BY <1>1 DEF TableStep, TableOK, NoDup, FifoStep, FifosKept
<1>6. ListsKept'
  BY <1>1, <1>2 DEF ListsKept, ListStep, OnlyMine
<1>7. LocalsFit'
  BY <1>1, <1>2 DEF LocalsFit, LocalStep, OnlyMine
<1>8. Listed'
  BY <1>1, <1>2 DEF Listed, TableStep, OnlyMine
<1>9. CASE "gone" \in qDisturbed'
  <2>1. Disjoint(InPlace')
    BY <1>1, <1>2, MovesKeep, ShrinksKeeps DEF OneMove
  <2> QED BY <1>4, <1>5, <1>6, <1>7, <1>8, <1>9, <2>1 DEF QueueInv, NothingLost
<1>10. CASE "gone" \notin qDisturbed'
  <2>1. "gone" \notin qDisturbed /\ qUp \subseteq qUp' /\ qOpened'[p] \subseteq qUp'
        /\ qPc'[p] # "close"
    BY <1>1, <1>10 DEF LossStep
  <2>2. PICK a, c, B : Moves(InPlace, InPlace', a, c, B)
    BY <1>1, <1>10 DEF OneMove, Lossy
  <2>3. AllIn(InPlace) /\ \A q \in QNames : qOpened[q] \subseteq qUp /\ qPc[q] # "close"
    BY <1>2, <2>1 DEF NothingLost
  <2>4. Disjoint(InPlace') /\ AllIn(InPlace')
    BY <1>2, <2>2, <2>3, MovesKeep
  <2>5. \A q \in QNames : qOpened'[q] \subseteq qUp' /\ qPc'[q] # "close"
    BY <1>1, <2>1, <2>3 DEF OnlyMine
  <2> QED BY <1>4, <1>5, <1>6, <1>7, <1>8, <2>4, <2>5 DEF QueueInv, NothingLost
<1> QED BY <1>9, <1>10

LEMMA InitQueueInv == QInit => QueueInv
<1> SUFFICES ASSUME QInit PROVE QueueInv
  OBVIOUS
<1>1. /\ qTable = <<>> /\ qUp = {} /\ qDisturbed = {}
      /\ sendQueues = [q \in QNames |-> <<>>] /\ qOpened = [q \in QNames |-> {}]
      /\ pipe = [q \in QNames |-> <<>>] /\ qFree = QBufs
      /\ qOwned = [q \in QNames |-> {}] /\ qPc = [q \in QNames |-> "down"]
      /\ qReg = [q \in QNames |-> NoReg]
  BY DEF QInit
<1>2. QueueTypes
  BY <1>1, AtRest DEF QueueTypes
<1>3. TableOK(qTable) /\ FifosKept
  BY <1>1, QAssumption DEF TableOK, NoDup, FifosKept, Fifo
<1>4. ListsKept
  BY <1>1 DEF ListsKept, SendList
<1>5. LocalsFit
  <2>1. Locals("down", NoReg, {}, <<>>)
    BY DEF Locals, Sending, NoReg
  <2> QED BY <1>1, <2>1 DEF LocalsFit
<1>6. Listed
  BY <1>1 DEF Listed
<1>7. InPlace[<<"free", NoName>>] = QBufs /\ <<"free", NoName>> \in QPlaces
  BY <1>1 DEF InPlace, QPlaces
<1>8. ASSUME NEW x \in QPlaces, x # <<"free", NoName>> PROVE InPlace[x] = {}
  <2>1. PICK q \in QNames : \/ x = <<"client", q>> \/ x = <<"node", q>> \/ x = <<"pipe", q>>
                            \/ x = <<"sys", q>> \/ x = <<"new", q>>
    BY <1>8, PlaceKinds
  <2>2. qOwned[q] = {} /\ NodesOf(sendQueues[q]) = {} /\ MsgsOf(pipe[q]) = {}
    BY <1>1 DEF NodesOf, MsgsOf
  <2>3. HeldIn(qReg[q].sys) = {} /\ HeldIn(qReg[q].new) = {}
    BY <1>1, AtRest DEF HeldIn
  <2>4. /\ InPlace[<<"client", q>>] = {} /\ InPlace[<<"node", q>>] = {}
        /\ InPlace[<<"pipe", q>>] = {} /\ InPlace[<<"sys", q>>] = {}
        /\ InPlace[<<"new", q>>] = {}
    BY <2>2, <2>3, PlacesAre
  <2> QED BY <2>1, <2>4
<1>9. Disjoint(InPlace) /\ AllIn(InPlace)
  BY <1>7, <1>8 DEF Disjoint, AllIn
<1>10. NothingLost
  BY <1>1, <1>9 DEF NothingLost
<1> QED BY <1>2, <1>3, <1>4, <1>5, <1>6, <1>9, <1>10 DEF QueueInv

LEMMA NextQueueInv == QueueInv /\ [QNext]_qVars => QueueInv'
<1> SUFFICES ASSUME QueueInv, [QNext]_qVars PROVE QueueInv'
  OBVIOUS
<1>1. CASE QNext
  BY <1>1, StepQueueInv DEF QNext
<1>2. CASE UNCHANGED qVars
  BY ZenonT(30), <1>2 DEF qVars, QueueInv, QueueTypes, TableOK, NoDup, ListsKept, FifosKept, LocalsFit,
             Listed, Disjoint, InPlace, NothingLost, AllIn
<1> QED BY <1>1, <1>2

LEMMA QueueInvHolds == QSpec => []QueueInv
BY InitQueueInv, NextQueueInv, PTL DEF QSpec

------------------------------------------------------------------------------
(* The theorems *)

\* The holders of a buffer are the places it is in.
LEMMA HoldersPlaced ==
  ASSUME QueueInv, NEW b \in QBufs
  PROVE  /\ \A x, y \in Holders(b) : x = y
         /\ (\E x \in QPlaces : b \in InPlace[x]) => Holders(b) # {}
<1> DEFINE N == {{<<"node", p, i>> : i \in {j \in DOMAIN sendQueues[p] :
                                               sendQueues[p][j].node = b}} : p \in QNames}
           M == {{<<"pipe", p, i>> : i \in {j \in DOMAIN pipe[p] :
                                               pipe[p][j].bfr = b}} : p \in QNames}
<1>1. \A x : x \in UNION N <=> \E p \in QNames : \E i \in DOMAIN sendQueues[p] :
                                  sendQueues[p][i].node = b /\ x = <<"node", p, i>>
  OBVIOUS
<1>2. \A x : x \in UNION M <=> \E p \in QNames : \E i \in DOMAIN pipe[p] :
                                  pipe[p][i].bfr = b /\ x = <<"pipe", p, i>>
  OBVIOUS
<1>3. Holders(b) = (IF b \in qFree THEN {<<"free">>} ELSE {})
                   \cup {<<"client", p>> : p \in {q \in QNames : b \in qOwned[q]}}
                   \cup (UNION N) \cup (UNION M)
                   \cup {<<"sys", p>> : p \in {q \in QNames : qReg[q].sys = b}}
                   \cup {<<"new", p>> : p \in {q \in QNames : qReg[q].new = b}}
  BY DEF Holders
<1> HIDE DEF N, M
<1>4. \A x : x \in Holders(b) <=>
        \/ b \in qFree /\ x = <<"free">>
        \/ \E p \in QNames : b \in qOwned[p] /\ x = <<"client", p>>
        \/ \E p \in QNames : \E i \in DOMAIN sendQueues[p] :
              sendQueues[p][i].node = b /\ x = <<"node", p, i>>
        \/ \E p \in QNames : \E i \in DOMAIN pipe[p] :
              pipe[p][i].bfr = b /\ x = <<"pipe", p, i>>
        \/ \E p \in QNames : qReg[p].sys = b /\ x = <<"sys", p>>
        \/ \E p \in QNames : qReg[p].new = b /\ x = <<"new", p>>
  BY <1>1, <1>2, <1>3
<1> DEFINE Fits(x, z) ==
             \/ z = <<"free", NoName>> /\ b \in qFree /\ x = <<"free">>
             \/ \E p \in QNames : z = <<"client", p>> /\ b \in qOwned[p] /\ x = <<"client", p>>
             \/ \E p \in QNames : \E i \in DOMAIN sendQueues[p] :
                   z = <<"node", p>> /\ sendQueues[p][i].node = b /\ x = <<"node", p, i>>
             \/ \E p \in QNames : \E i \in DOMAIN pipe[p] :
                   z = <<"pipe", p>> /\ pipe[p][i].bfr = b /\ x = <<"pipe", p, i>>
             \/ \E p \in QNames : z = <<"sys", p>> /\ qReg[p].sys = b /\ x = <<"sys", p>>
             \/ \E p \in QNames : z = <<"new", p>> /\ qReg[p].new = b /\ x = <<"new", p>>
<1>5. b # NoQBuf
  BY QAssumption DEF QBufs, NoQBuf
<1>6. /\ InPlace[<<"free", NoName>>] = qFree
      /\ \A p \in QNames : InPlace[<<"client", p>>] = qOwned[p]
      /\ \A p \in QNames : InPlace[<<"node", p>>] = NodesOf(sendQueues[p])
      /\ \A p \in QNames : InPlace[<<"pipe", p>>] = MsgsOf(pipe[p])
      /\ \A p \in QNames : InPlace[<<"sys", p>>] = HeldIn(qReg[p].sys)
      /\ \A p \in QNames : InPlace[<<"new", p>>] = HeldIn(qReg[p].new)
  <2>1. InPlace[<<"free", NoName>>] = qFree
    BY DEF InPlace, QPlaces
  <2> QED BY <2>1, PlacesAre
<1>7. ASSUME NEW x \in Holders(b) PROVE \E z \in QPlaces : b \in InPlace[z] /\ Fits(x, z)
  <2>1. CASE b \in qFree /\ x = <<"free">>
    BY <1>6, <2>1, PlacesOf DEF QPlaces
  <2>2. ASSUME NEW p \in QNames, b \in qOwned[p], x = <<"client", p>>
        PROVE  \E z \in QPlaces : b \in InPlace[z] /\ Fits(x, z)
    BY <1>6, <2>2, PlacesOf
  <2>3. ASSUME NEW p \in QNames, NEW i \in DOMAIN sendQueues[p], sendQueues[p][i].node = b,
               x = <<"node", p, i>>
        PROVE  \E z \in QPlaces : b \in InPlace[z] /\ Fits(x, z)
    BY <1>6, <2>3, PlacesOf DEF NodesOf
  <2>4. ASSUME NEW p \in QNames, NEW i \in DOMAIN pipe[p], pipe[p][i].bfr = b,
               x = <<"pipe", p, i>>
        PROVE  \E z \in QPlaces : b \in InPlace[z] /\ Fits(x, z)
    BY <1>6, <2>4, PlacesOf DEF MsgsOf
  <2>5. ASSUME NEW p \in QNames, qReg[p].sys = b, x = <<"sys", p>>
        PROVE  \E z \in QPlaces : b \in InPlace[z] /\ Fits(x, z)
    BY <1>5, <1>6, <2>5, PlacesOf DEF HeldIn
  <2>6. ASSUME NEW p \in QNames, qReg[p].new = b, x = <<"new", p>>
        PROVE  \E z \in QPlaces : b \in InPlace[z] /\ Fits(x, z)
    BY <1>5, <1>6, <2>6, PlacesOf DEF HeldIn
  <2> HIDE DEF Fits
  <2> QED BY <1>4, <2>1, <2>2, <2>3, <2>4, <2>5, <2>6
<1>8. ASSUME NEW z, NEW x, NEW y, Fits(x, z), Fits(y, z) PROVE x = y
  <2>1. \A p \in QNames : SendList(sendQueues[p], qOpened[p]) /\ Fifo(pipe[p])
    BY Before
  <2>2. CASE z = <<"free", NoName>>
    BY <1>8, <2>2
  <2>3. ASSUME NEW p \in QNames, z = <<"client", p>> PROVE x = y
    BY <1>8, <2>3
  <2>4. ASSUME NEW p \in QNames, z = <<"node", p>> PROVE x = y
    <3>1. PICK i \in DOMAIN sendQueues[p] : sendQueues[p][i].node = b /\ x = <<"node", p, i>>
      BY <1>8, <2>4
    <3>2. PICK j \in DOMAIN sendQueues[p] : sendQueues[p][j].node = b /\ y = <<"node", p, j>>
      BY <1>8, <2>4
    <3>3. i = j
      BY <2>1, <3>1, <3>2 DEF SendList
    <3> QED BY <3>1, <3>2, <3>3
  <2>5. ASSUME NEW p \in QNames, z = <<"pipe", p>> PROVE x = y
    <3>1. PICK i \in DOMAIN pipe[p] : pipe[p][i].bfr = b /\ x = <<"pipe", p, i>>
      BY <1>8, <2>5
    <3>2. PICK j \in DOMAIN pipe[p] : pipe[p][j].bfr = b /\ y = <<"pipe", p, j>>
      BY <1>8, <2>5
    <3>3. i = j
      BY <2>1, <3>1, <3>2 DEF Fifo
    <3> QED BY <3>1, <3>2, <3>3
  <2>6. ASSUME NEW p \in QNames, z = <<"sys", p>> PROVE x = y
    BY <1>8, <2>6
  <2>7. ASSUME NEW p \in QNames, z = <<"new", p>> PROVE x = y
    BY <1>8, <2>7
  <2> QED BY <1>8, <2>2, <2>3, <2>4, <2>5, <2>6, <2>7
<1>9. ASSUME NEW z \in QPlaces, b \in InPlace[z] PROVE Holders(b) # {}
  <2>1. \/ z = <<"free", NoName>> /\ b \in qFree
        \/ \E p \in QNames : b \in qOwned[p]
        \/ \E p \in QNames : b \in NodesOf(sendQueues[p])
        \/ \E p \in QNames : b \in MsgsOf(pipe[p])
        \/ \E p \in QNames : b \in HeldIn(qReg[p].sys)
        \/ \E p \in QNames : b \in HeldIn(qReg[p].new)
    BY <1>6, <1>9, PlaceKinds
  <2>2. \/ b \in qFree
        \/ \E p \in QNames : b \in qOwned[p]
        \/ \E p \in QNames : \E i \in DOMAIN sendQueues[p] : sendQueues[p][i].node = b
        \/ \E p \in QNames : \E i \in DOMAIN pipe[p] : pipe[p][i].bfr = b
        \/ \E p \in QNames : qReg[p].sys = b
        \/ \E p \in QNames : qReg[p].new = b
    BY <2>1 DEF NodesOf, MsgsOf, HeldIn
  <2>3. \E x : x \in Holders(b)
    BY <1>4, <2>2
  <2> QED BY <2>3
<1> HIDE DEF Fits
<1>10. ASSUME NEW x \in Holders(b), NEW y \in Holders(b) PROVE x = y
  <2>1. PICK u \in QPlaces : b \in InPlace[u] /\ Fits(x, u)
    BY <1>7
  <2>2. PICK v \in QPlaces : b \in InPlace[v] /\ Fits(y, v)
    BY <1>7
  <2>3. u = v
    BY <2>1, <2>2 DEF QueueInv, Disjoint
  <2> QED BY <1>8, <2>1, <2>2, <2>3
<1> QED BY <1>9, <1>10

\* No system buffer of the message queues has two holders, whatever its way
\* through clients, send lists, FIFOs and calls under way: none is released
\* twice, and none is read once it is released.
THEOREM BuffersHaveOneHolder == QSpec => []OneHolder
<1>1. QueueInv => OneHolder
  <2> SUFFICES ASSUME QueueInv, NEW b \in QBufs PROVE Cardinality(Holders(b)) <= 1
    BY DEF OneHolder
  <2>1. \A x, y \in Holders(b) : x = y
    BY HoldersPlaced
  <2>2. CASE Holders(b) = {}
    <3>1. Cardinality({}) = 0
      BY FS_EmptySet
    <3> QED BY <2>2, <3>1
  <2>3. CASE Holders(b) # {}
    <3>1. PICK x : Holders(b) = {x}
      BY <2>1, <2>3
    <3>2. Cardinality({x}) = 1
      BY FS_Singleton
    <3> QED BY <3>1, <3>2
  <2> QED BY <2>2, <2>3
<1> QED BY QueueInvHolds, <1>1, PTL

\* The table lists a queue with QUEUE_GROUP_ALL as long as it is up and nothing
\* twice, a send list names open FIFOs only, and no buffer is lost before a
\* process has exited or was killed.
THEOREM QueuesStaySound == QSpec => []QueuesSound
<1>1. QueueInv => QueuesSound
  <2> SUFFICES ASSUME QueueInv PROVE QueuesSound
    OBVIOUS
  <2>1. QTypeOK
    BY DEF QueueInv, QueueTypes, TableOK, FifosKept, Fifo, QTypeOK, QRec, AnyGroup
  <2>2. ListsSound
    BY DEF QueueInv, TableOK, NoDup, Listed, ListsKept, SendList, ListsSound
  <2>3. LeakNeedsExit
    <3> SUFFICES ASSUME "gone" \notin qDisturbed, NEW b \in QBufs PROVE Holders(b) # {}
      BY DEF LeakNeedsExit
    <3>1. \E x \in QPlaces : b \in InPlace[x]
      BY DEF QueueInv, NothingLost, AllIn
    <3> QED BY <3>1, HoldersPlaced
  <2> QED BY <2>1, <2>2, <2>3 DEF QueuesSound
<1> QED BY QueueInvHolds, <1>1, PTL

------------------------------------------------------------------------------
(* Group sends: the invariant *)

\* What the last group send of each process had to do, and did.
DeliveryTypes ==
    qDelivery \in [QNames -> [group : AnyGroup, due : SUBSET QNames, got : SUBSET QNames]]

\* Where radQueueSendGroup of p is: it brings the send list up to date, or writes.
Updating(p) == qPc[p] \in {"update", "attach", "open", "refused"} /\ qReg[p].back = "update"
Delivering(p) == qPc[p] \in {"group", "write"}

\* The traversal of p has record i before it, or n in hand.
Ahead(p, i) == i - 1 > qReg[p].index
Facing(p, n) == qPc[p] \in {"attach", "open", "refused", "write"} /\ qReg[p].target = n

\* A member whose flag is clear has all others in its send list that a traversal
\* sees, or is about to: only a process that leaves forgets some.
FlagsTell(p) ==
    /\ qPc[p] = "down" => \A j \in DOMAIN qTable : qTable[j].name # p
    /\ qPc[p] \notin {"down", "exit", "close", "quit"} =>
         \A j, i \in DOMAIN qTable :
            /\ qTable[j].name = p /\ qTable[j].updateFlag = 0 /\ i > 1
            /\ qTable[i].group = qTable[j].group /\ qTable[i].name # p
            => \/ GetFD(p, qTable[i].name)
               \/ /\ Updating(p) /\ qReg[p].group = qTable[i].group
                  /\ Ahead(p, i) \/ Facing(p, qTable[i].name)

\* Whom the send still has to reach is listed ahead of the traversal or in hand,
\* and in the send list by the time it writes.
StillDue(p, n) ==
    /\ n # p
    /\ \E i \in DOMAIN qTable :
         /\ qTable[i].name = n /\ qTable[i].group = qReg[p].group /\ i > 1
         /\ Updating(p) => GetFD(p, n) \/ Ahead(p, i) \/ Facing(p, n)
         /\ Delivering(p) => /\ GetFD(p, n)
                             /\ n \in qDelivery[p].got \/ Ahead(p, i) \/ Facing(p, n)

DueTold(p) ==
    IF Updating(p) \/ Delivering(p)
    THEN qDelivery[p].group = qReg[p].group /\ \A n \in qDelivery[p].due : StillDue(p, n)
    ELSE qDelivery[p].due \subseteq qDelivery[p].got

ReachInv ==
    /\ DeliveryTypes
    /\ qDisturbed = {} => \A p \in QNames : FlagsTell(p) /\ DueTold(p)

------------------------------------------------------------------------------
(* Group sends: the proofs *)

\* The table loses nothing, gains records of p only, and no member's flag is
\* clear that was set or is new, but for p's; nor is it with a new member there.
Grows(p) ==
    /\ \A i \in DOMAIN qTable : /\ i \in DOMAIN qTable' /\ qTable'[i].name = qTable[i].name
                                /\ qTable'[i].group = qTable[i].group
    /\ \A i \in DOMAIN qTable' : i \in DOMAIN qTable \/ qTable'[i].name = p
    /\ \A j, i \in DOMAIN qTable' :
          qTable'[j].updateFlag = 0 /\ qTable'[i].group = qTable'[j].group =>
              /\ j \in DOMAIN qTable /\ i \in DOMAIN qTable
              /\ qTable[j].updateFlag = 0 \/ qTable[j].name = p

\* ... and p's flags neither.
Unread(p) == \A j \in DOMAIN qTable' : qTable'[j].updateFlag = 0 /\ qTable'[j].name = p =>
                                          j \in DOMAIN qTable /\ qTable[j].updateFlag = 0

\* What p has yet to attach to is attached to, or stays ahead.
UpdateGoesOn(p) ==
    /\ \A n \in QNames : GetFD(p, n) => GetFD(p, n)'
    /\ \A i \in DOMAIN qTable, n \in QNames \ {p} :
          /\ Updating(p) /\ qTable[i].name = n /\ qTable[i].group = qReg[p].group
          /\ Ahead(p, i) \/ Facing(p, n)
          => \/ GetFD(p, n)'
             \/ /\ Updating(p)' /\ qReg'[p].group = qReg[p].group
                /\ Ahead(p, i)' \/ Facing(p, n)'

\* What a step of p is to keep.
ReachStep(p) ==
    /\ Grows(p) /\ FlagsTell(p)' /\ DueTold(p)'
    /\ \A q \in QNames \ {p} : qDelivery'[q] = qDelivery[q]

\* What the invariants say of p while nothing has disturbed the sends.
LEMMA Undisturbed ==
  ASSUME QueueInv, ReachInv, qDisturbed = {}, NEW p \in QNames
  PROVE  /\ FlagsTell(p) /\ DueTold(p) /\ DeliveryTypes
         /\ qTable \in Seq(QRec) /\ Len(qTable) \in Nat /\ DOMAIN qTable = 1..Len(qTable)
         /\ \A i \in DOMAIN qTable : qTable[i] \in QRec
         /\ qReg[p] \in QRegs /\ qReg[p].index \in Nat
         /\ qPc[p] # "close" /\ qOpened[p] \subseteq qUp
<1>1. qTable \in Seq(QRec)
  BY DEF QueueInv, TableOK
<1>2. Len(qTable) \in Nat /\ DOMAIN qTable = 1..Len(qTable) /\ \A i \in DOMAIN qTable : qTable[i] \in QRec
  BY <1>1
<1>3. qReg[p] \in QRegs
  BY DEF QueueInv, QueueTypes
<1>4. qPc[p] # "close" /\ qOpened[p] \subseteq qUp
  BY DEF QueueInv, NothingLost
<1> QED BY <1>1, <1>2, <1>3, <1>4 DEF ReachInv, QRegs

LEMMA SameTable == ASSUME NEW p, qTable' = qTable PROVE Grows(p) /\ Unread(p)
BY DEF Grows, Unread

\* A new member sets the flag of all others in its group.
LEMMA AddGrows ==
  ASSUME TableOK(qTable), NEW p \in QNames, NEW g \in AnyGroup,
         qTable' = qdbAddQueue(qTable, p, g)
  PROVE  Grows(p) /\ Unread(p)
<1>1. CASE Has(qTable, p, g)
  BY <1>1, SameTable DEF qdbAddQueue
<1>2. CASE ~Has(qTable, p, g)
  <2> DEFINE u == [i \in DOMAIN qTable |-> IF qTable[i].group = g
                                           THEN [qTable[i] EXCEPT !.updateFlag = 1] ELSE qTable[i]]
  <2>1. qTable' = Append(u, Rec(p, g))
    BY <1>2 DEF qdbAddQueue
  <2>2. qTable \in Seq(QRec) /\ Len(qTable) \in Nat /\ DOMAIN qTable = 1..Len(qTable)
    BY DEF TableOK
  <2>3. ASSUME NEW i \in DOMAIN qTable
        PROVE  /\ u[i] \in QRec /\ u[i].name = qTable[i].name /\ u[i].group = qTable[i].group
               /\ u[i].updateFlag = 0 => qTable[i].updateFlag = 0 /\ qTable[i].group # g
    <3>1. qTable[i] \in QRec
      BY <2>2
    <3>2. CASE qTable[i].group = g
      <4>1. u[i] = [qTable[i] EXCEPT !.updateFlag = 1]
        BY <3>2
      <4> HIDE DEF u
      <4> QED BY <3>1, <3>2, <4>1 DEF QRec
    <3>3. CASE qTable[i].group # g
      <4>1. u[i] = qTable[i]
        BY <3>3
      <4> HIDE DEF u
      <4> QED BY <3>1, <3>3, <4>1
    <3> QED BY <3>2, <3>3
  <2>4. u \in Seq(QRec) /\ Len(u) = Len(qTable)
    <3>1. u = [i \in 1..Len(qTable) |-> u[i]]
      BY <2>2
    <3> HIDE DEF u
    <3> QED BY <2>2, <2>3, <3>1
  <2> HIDE DEF u
  <2>5. Rec(p, g) \in QRec /\ Rec(p, g).name = p /\ Rec(p, g).group = g /\ Rec(p, g).updateFlag = 1
    BY DEF Rec, QRec
  <2>6. /\ DOMAIN qTable' = 1..(Len(qTable) + 1) /\ qTable'[Len(qTable) + 1] = Rec(p, g)
        /\ \A i \in 1..Len(qTable) : qTable'[i] = u[i]
    BY <2>1, <2>2, <2>4, <2>5
  <2>7. \A i \in DOMAIN qTable' : i \in DOMAIN qTable \/ i = Len(qTable) + 1
    BY <2>2, <2>6
  <2>8. \A i \in DOMAIN qTable : i \in DOMAIN qTable' /\ qTable'[i] = u[i]
    BY <2>2, <2>6
  <2>9. \A j \in DOMAIN qTable' : qTable'[j].updateFlag = 0 =>
           j \in DOMAIN qTable /\ qTable[j].updateFlag = 0 /\ qTable'[j].group # g
    BY <2>3, <2>5, <2>6, <2>7, <2>8
  <2>10. \A i \in DOMAIN qTable' : i \in DOMAIN qTable \/ (qTable'[i].group = g /\ qTable'[i].name = p)
    BY <2>5, <2>6, <2>7
  <2>11. Grows(p)
    BY <2>3, <2>8, <2>9, <2>10 DEF Grows
  <2> QED BY <2>9, <2>10, <2>11 DEF Unread
<1> QED BY <1>1, <1>2

\* Who does not step keeps what he knew.
LEMMA OthersReach ==
  ASSUME QueueInv, ReachInv, qDisturbed = {}, NEW p \in QNames, OnlyMine(p), Grows(p),
         NEW q \in QNames \ {p}, qDelivery'[q] = qDelivery[q]
  PROVE  FlagsTell(q)' /\ DueTold(q)'
<1>1. FlagsTell(q) /\ DueTold(q) /\ qPc'[q] = qPc[q] /\ qReg'[q] = qReg[q] /\ sendQueues'[q] = sendQueues[q]
  BY Undisturbed DEF OnlyMine
<1>2. \A n : GetFD(q, n)' <=> GetFD(q, n)
  BY <1>1 DEF GetFD
<1>3. \A i : Ahead(q, i)' <=> Ahead(q, i)
  BY <1>1 DEF Ahead
<1>4. \A n : Facing(q, n)' <=> Facing(q, n)
  BY <1>1 DEF Facing
<1>5. (Updating(q)' <=> Updating(q)) /\ (Delivering(q)' <=> Delivering(q))
  BY <1>1 DEF Updating, Delivering
<1>6. FlagsTell(q)'
  <2>1. ASSUME qPc[q] = "down", NEW j \in DOMAIN qTable' PROVE qTable'[j].name # q
    BY <1>1, <2>1 DEF FlagsTell, Grows
  <2>2. ASSUME qPc[q] \notin {"down", "exit", "close", "quit"},
               NEW j \in DOMAIN qTable', NEW i \in DOMAIN qTable',
               qTable'[j].name = q, qTable'[j].updateFlag = 0, i > 1,
               qTable'[i].group = qTable'[j].group, qTable'[i].name # q
        PROVE  \/ GetFD(q, qTable'[i].name)
               \/ /\ Updating(q) /\ qReg[q].group = qTable'[i].group
                  /\ Ahead(q, i) \/ Facing(q, qTable'[i].name)
    <3>1. /\ j \in DOMAIN qTable /\ i \in DOMAIN qTable
          /\ qTable[j].updateFlag = 0 \/ qTable[j].name = p
      BY <2>2 DEF Grows
    <3>2. /\ qTable'[j].name = qTable[j].name /\ qTable'[j].group = qTable[j].group
          /\ qTable'[i].name = qTable[i].name /\ qTable'[i].group = qTable[i].group
      BY <3>1 DEF Grows
    <3> QED BY <1>1, <2>2, <3>1, <3>2 DEF FlagsTell
  <2> QED BY <1>1, <1>2, <1>3, <1>4, <1>5, <2>1, <2>2 DEF FlagsTell
<1>7. \A n : StillDue(q, n) => StillDue(q, n)'
  <2> SUFFICES ASSUME NEW n, StillDue(q, n) PROVE StillDue(q, n)'
    OBVIOUS
  <2>1. PICK i \in DOMAIN qTable :
          /\ qTable[i].name = n /\ qTable[i].group = qReg[q].group /\ i > 1
          /\ Updating(q) => GetFD(q, n) \/ Ahead(q, i) \/ Facing(q, n)
          /\ Delivering(q) => /\ GetFD(q, n)
                              /\ n \in qDelivery[q].got \/ Ahead(q, i) \/ Facing(q, n)
    BY DEF StillDue
  <2>2. i \in DOMAIN qTable' /\ qTable'[i].name = n /\ qTable'[i].group = qReg'[q].group
    BY <1>1, <2>1 DEF Grows
  <2>3. n # q
    BY DEF StillDue
  <2> QED BY <1>2, <1>3, <1>4, <1>5, <2>1, <2>2, <2>3 DEF StillDue
<1>8. DueTold(q)'
  BY <1>1, <1>5, <1>7 DEF DueTold
<1> QED BY <1>6, <1>8

\* The flags of p tell the truth as long as what is to be attached to is not lost.
LEMMA OwnFlags ==
  ASSUME QueueInv, ReachInv, qDisturbed = {}, NEW p \in QNames, Grows(p), Unread(p),
         UpdateGoesOn(p), qPc'[p] # "down",
         qPc[p] \notin {"down", "exit", "close", "quit"}
  PROVE  FlagsTell(p)'
<1>1. FlagsTell(p)
  BY Undisturbed
<1>2. ASSUME NEW j \in DOMAIN qTable', NEW i \in DOMAIN qTable', NEW n, n = qTable'[i].name,
             qTable'[j].name = p, qTable'[j].updateFlag = 0, i > 1,
             qTable'[i].group = qTable'[j].group, n # p
      PROVE  \/ GetFD(p, n)'
             \/ /\ Updating(p)' /\ qReg'[p].group = qTable'[i].group
                /\ Ahead(p, i)' \/ Facing(p, n)'
  <2>1. j \in DOMAIN qTable /\ i \in DOMAIN qTable /\ qTable[j].updateFlag = 0
    BY <1>2 DEF Grows, Unread
  <2>2. /\ qTable'[j].name = qTable[j].name /\ qTable'[j].group = qTable[j].group
        /\ n = qTable[i].name /\ qTable'[i].group = qTable[i].group
    BY <1>2, <2>1 DEF Grows
  <2>3. n \in QNames \ {p}
    BY <1>2, <2>1, <2>2, Undisturbed DEF QRec
  <2>4. \/ GetFD(p, n)
        \/ /\ Updating(p) /\ qReg[p].group = qTable[i].group
           /\ Ahead(p, i) \/ Facing(p, n)
    BY <1>1, <1>2, <2>1, <2>2 DEF FlagsTell
  <2> QED BY <2>1, <2>2, <2>3, <2>4 DEF UpdateGoesOn
<1> QED BY <1>2 DEF FlagsTell, GetFD, Facing

\* A process that sends to no group has reached whom it had to.
LEMMA OwnRest ==
  ASSUME QueueInv, ReachInv, qDisturbed = {}, NEW p \in QNames, qDelivery'[p] = qDelivery[p],
         ~Updating(p), ~Delivering(p), ~Updating(p)', ~Delivering(p)'
  PROVE  DueTold(p)'
BY Undisturbed DEF DueTold

\* While the send list is brought up to date nobody due is lost.
LEMMA OwnUpdate ==
  ASSUME QueueInv, ReachInv, qDisturbed = {}, NEW p \in QNames, Grows(p), UpdateGoesOn(p),
         qDelivery'[p] = qDelivery[p], qReg'[p].group = qReg[p].group,
         Updating(p), Updating(p)'
  PROVE  DueTold(p)'
<1>1. DueTold(p) /\ ~Delivering(p)' /\ ~Delivering(p)
  BY Undisturbed DEF Updating, Delivering
<1>2. ASSUME NEW n, StillDue(p, n), n \in QNames PROVE StillDue(p, n)'
  <2>1. PICK i \in DOMAIN qTable :
          /\ qTable[i].name = n /\ qTable[i].group = qReg[p].group /\ i > 1
          /\ GetFD(p, n) \/ Ahead(p, i) \/ Facing(p, n)
    BY <1>2 DEF StillDue
  <2>2. /\ i \in DOMAIN qTable' /\ qTable'[i].name = n /\ qTable'[i].group = qReg'[p].group
        /\ n # p
    BY <1>2, <2>1 DEF Grows, StillDue
  <2>3. GetFD(p, n)' \/ Ahead(p, i)' \/ Facing(p, n)'
    <3>1. CASE GetFD(p, n)
      BY <1>2, <3>1 DEF UpdateGoesOn
    <3>2. CASE Ahead(p, i) \/ Facing(p, n)
      BY <1>2, <2>1, <2>2, <3>2 DEF UpdateGoesOn
    <3> QED BY <2>1, <3>1, <3>2
  <2> QED BY <1>1, <2>1, <2>2, <2>3 DEF StillDue
<1>3. \A n \in qDelivery[p].due : n \in QNames /\ StillDue(p, n)
  <2>1. qDelivery[p].due \subseteq QNames
    BY DEF ReachInv, DeliveryTypes
  <2> QED BY <1>1, <2>1 DEF DueTold
<1>4. qDelivery[p].group = qReg[p].group
  BY <1>1 DEF DueTold
<1> QED BY <1>2, <1>3, <1>4 DEF DueTold

\* A process that is neither in a group send nor becomes part of one, loses
\* nothing of its send list unless it leaves, and adds records at most.
LEMMA QuietStep ==
  ASSUME QueueInv, ReachInv, qDisturbed = {}, NEW p \in QNames, Grows(p), Unread(p),
         qPc[p] \notin {"down", "close"}, UNCHANGED qDelivery,
         ~Updating(p), ~Delivering(p), ~Updating(p)', ~Delivering(p)', qPc'[p] # "down",
         \/ qPc'[p] \in {"exit", "quit"}
         \/ qPc[p] \notin {"exit", "quit"} /\ \A n \in QNames : GetFD(p, n) => GetFD(p, n)'
  PROVE  ReachStep(p)
<1>1. DueTold(p)'
  BY OwnRest
<1>2. FlagsTell(p)'
  <2>1. CASE qPc'[p] \in {"exit", "quit"}
    BY <2>1 DEF FlagsTell
  <2>2. CASE qPc[p] \notin {"exit", "quit"} /\ \A n \in QNames : GetFD(p, n) => GetFD(p, n)'
    <3>1. UpdateGoesOn(p)
      BY <2>2 DEF UpdateGoesOn
    <3> QED BY <2>2, <3>1, OwnFlags
  <2> QED BY <2>1, <2>2
<1> QED BY <1>1, <1>2 DEF ReachStep

\* The traversal: the next record of the group, and that it is the next.
LEMMA NextIs ==
  ASSUME QueueInv, ReachInv, qDisturbed = {}, NEW p \in QNames
  PROVE  /\ Upcoming(p) = {} =>
              \A k \in DOMAIN qTable : qTable[k].group = qReg[p].group => ~Ahead(p, k)
         /\ Upcoming(p) # {} =>
              /\ Advanced(p).index \in Nat
              /\ \A k \in DOMAIN qTable : qTable[k].group = qReg[p].group /\ Ahead(p, k) =>
                    k - 1 > Advanced(p).index \/ qTable[k].name = Advanced(p).target
<1>1. /\ qReg[p] \in QRegs /\ qReg[p].index \in Nat
      /\ Len(qTable) \in Nat /\ DOMAIN qTable = 1..Len(qTable)
  BY Undisturbed
<1>2. ASSUME NEW k \in DOMAIN qTable, qTable[k].group = qReg[p].group, Ahead(p, k)
      PROVE  k \in Nat /\ k - 1 \in Upcoming(p)
  <2>1. k \in Nat /\ k - 1 \in qReg[p].index + 1 .. Len(qTable) - 1 /\ (k - 1) + 1 = k
    BY <1>1, <1>2 DEF Ahead
  <2> QED BY <1>2, <2>1 DEF Upcoming, NextIndexes
<1>3. ASSUME Upcoming(p) # {}
      PROVE  /\ Advanced(p).index \in Nat
             /\ \A k \in DOMAIN qTable : qTable[k].group = qReg[p].group /\ Ahead(p, k) =>
                   k - 1 > Advanced(p).index \/ qTable[k].name = Advanced(p).target
  <2> DEFINE i == Min(Upcoming(p))
  <2>1. Upcoming(p) \in SUBSET Nat
    BY <1>1 DEF Upcoming, NextIndexes
  <2>2. i \in Upcoming(p) /\ \A x \in Upcoming(p) : i <= x
    BY <1>3, <2>1, LeastNat DEF Min
  <2>3. Advanced(p) = [qReg[p] EXCEPT !.index = i, !.target = qTable[i + 1].name]
    BY DEF Advanced
  <2> HIDE DEF i
  <2>4. i \in Nat
    BY <2>1, <2>2
  <2>5. Advanced(p).index = i /\ Advanced(p).target = qTable[i + 1].name
    BY <1>1, <2>3 DEF QRegs
  <2>6. ASSUME NEW k \in DOMAIN qTable, qTable[k].group = qReg[p].group, Ahead(p, k)
        PROVE  k - 1 > i \/ qTable[k].name = qTable[i + 1].name
    <3>1. k \in Nat /\ i <= k - 1
      BY <1>2, <2>2, <2>6
    <3>2. k - 1 > i \/ k = i + 1
      BY <2>4, <3>1
    <3> QED BY <3>2
  <2> QED BY <2>4, <2>5, <2>6
<1> QED BY <1>2, <1>3

LEMMA SameList ==
  ASSUME NEW p, sendQueues'[p] = sendQueues[p] PROVE \A n : GetFD(p, n)' <=> GetFD(p, n)
BY DEF GetFD

\* Calls that touch neither the table nor a group send.
LEMMA IdleReach ==
  ASSUME QueueInv, ReachInv, qDisturbed = {}, NEW p \in QNames, qTable' = qTable,
         UNCHANGED qDelivery, qPc[p] = "idle", qPc'[p] \in {"idle", "exit", "quit", "attach"},
         qPc'[p] = "attach" => qReg'[p].back = "idle",
         sendQueues'[p] = sendQueues[p] \/ qPc'[p] = "exit"
  PROVE  ReachStep(p)
<1>1. ~Updating(p) /\ ~Delivering(p) /\ ~Updating(p)' /\ ~Delivering(p)'
  BY DEF Updating, Delivering
<1>2. \A n \in QNames : qPc'[p] # "exit" /\ GetFD(p, n) => GetFD(p, n)'
  BY SameList
<1>3. Grows(p) /\ Unread(p)
  BY SameTable
<1> QED BY <1>1, <1>2, <1>3, QuietStep

LEMMA CallsReach ==
  ASSUME QueueInv, ReachInv, qDisturbed = {}, NEW p \in QNames,
         \/ Exit(p) \/ Alloc(p) \/ Release(p) \/ Recv(p)
         \/ \E g \in QGroups : Quit(p, g)
         \/ \E n \in QNames, g \in AnyGroup : ClientAttach(p, n, g)
         \/ qDisturbed' = {} /\ \E n \in QNames, g \in AnyGroup : ClientDettach(p, n, g)
  PROVE  ReachStep(p)
<1>1. qPc[p] = "idle" /\ qTable' = qTable /\ UNCHANGED qDelivery
  BY DEF Exit, Alloc, Release, Recv, Quit, ClientAttach, ClientDettach
<1>2. CASE Exit(p)
  <2>1. qPc'[p] = "exit"
    BY <1>2, Before, GotoIs DEF Exit
  <2> QED BY <1>1, <2>1, IdleReach
<1>3. CASE Alloc(p) \/ Release(p) \/ Recv(p)
  <2>1. qPc'[p] = "idle" /\ sendQueues'[p] = sendQueues[p]
    BY <1>1, <1>3 DEF Alloc, Release, Recv
  <2> QED BY <1>1, <2>1, IdleReach
<1>4. ASSUME NEW g \in QGroups, Quit(p, g) PROVE ReachStep(p)
  <2>1. qPc'[p] = "quit" /\ sendQueues'[p] = sendQueues[p]
    BY <1>4, Before, GotoIs DEF Quit
  <2> QED BY <1>1, <2>1, IdleReach
<1>5. ASSUME NEW n \in QNames, NEW g \in AnyGroup, ClientAttach(p, n, g) PROVE ReachStep(p)
  <2> DEFINE reg == [NoReg EXCEPT !.group = g, !.target = n]
  <2>1. QGoto(p, "attach", reg) /\ sendQueues'[p] = sendQueues[p]
    BY <1>5 DEF ClientAttach
  <2>2. reg.back = "idle"
    BY DEF NoReg
  <2> HIDE DEF reg
  <2>3. qPc'[p] = "attach" /\ qReg'[p] = reg
    BY <2>1, Before, GotoIs
  <2> QED BY <1>1, <2>1, <2>2, <2>3, IdleReach
<1>6. ASSUME NEW n \in QNames, NEW g \in AnyGroup, ClientDettach(p, n, g), qDisturbed' = {}
      PROVE  ReachStep(p)
  <2>1. ~Has(sendQueues[p], n, g) /\ qPc' = qPc
    BY <1>6 DEF ClientDettach
  <2>2. sendQueues' = sendQueues
    BY <1>6, <2>1 DEF ClientDettach, DettachNode, Has
  <2> QED BY <1>1, <2>1, <2>2, IdleReach
<1> QED BY <1>2, <1>3, <1>4, <1>5, <1>6

\* What is in the send list has a reader until somebody exits.
LEMMA ListedIsUp ==
  ASSUME QueueInv, ReachInv, qDisturbed = {}, NEW p \in QNames, NEW n, GetFD(p, n)
  PROVE  n \in qUp /\ ~WriteAborts(n)
<1>1. qOpened[p] \subseteq qUp /\ SendList(sendQueues[p], qOpened[p])
  BY Undisturbed, Before
<1> QED BY <1>1 DEF GetFD, SendList, WriteAborts

LEMMA SendReach ==
  ASSUME QueueInv, ReachInv, qDisturbed = {}, NEW p \in QNames, NEW n \in QNames, Send(p, n)
  PROVE  ReachStep(p)
<1>1. qPc[p] = "idle" /\ qPc' = qPc /\ qTable' = qTable /\ UNCHANGED qDelivery
  BY DEF Send
<1>2. sendQueues' = sendQueues
  BY ListedIsUp DEF Send
<1> QED BY <1>1, <1>2, IdleReach

\* radQueueInit: a new member, or a process that comes back before anybody left.
LEMMA QueueInitReach ==
  ASSUME QueueInv, ReachInv, qDisturbed = {}, NEW p \in QNames, QueueInit(p)
  PROVE  ReachStep(p)
<1>1. /\ qPc[p] = "down" /\ UNCHANGED <<qDelivery, sendQueues>> /\ TableOK(qTable)
      /\ ~Updating(p) /\ ~Delivering(p)
      /\ FlagsTell(p) /\ Len(qTable) \in Nat /\ DOMAIN qTable = 1..Len(qTable)
  BY Undisturbed, Before DEF QueueInit, Updating, Delivering
<1>2. CASE qdbFull(qTable, p, GroupAll)
  <2>1. UNCHANGED <<qTable, qPc, qReg>>
    BY <1>2 DEF QueueInit
  <2>2. FlagsTell(p)' /\ DueTold(p)'
    BY <1>1, <2>1, Undisturbed DEF FlagsTell, DueTold, Updating, Delivering
  <2> QED BY <1>1, <2>1, <2>2, SameTable DEF ReachStep
<1>3. CASE ~qdbFull(qTable, p, GroupAll)
  <2>1. /\ qTable' = qdbAddQueue(qTable, p, GroupAll) /\ QGoto(p, "idle", NoReg)
    BY <1>3 DEF QueueInit, Return
  <2>2. qPc'[p] = "idle"
    BY <2>1, Before, GotoIs
  <2>3. Grows(p) /\ Unread(p)
    BY <1>1, <2>1, AddGrows DEF AnyGroup
  <2>5. FlagsTell(p)'
    <3>1. ASSUME NEW j \in DOMAIN qTable', qTable'[j].name = p, qTable'[j].updateFlag = 0 PROVE FALSE
      <4>1. j \in DOMAIN qTable /\ qTable[j].name = p
        BY <2>3, <3>1 DEF Unread, Grows
      <4> QED BY <1>1, <4>1 DEF FlagsTell
    <3> QED BY <2>2, <3>1 DEF FlagsTell
  <2>6. DueTold(p)'
    BY <1>1, <2>2, OwnRest DEF Updating, Delivering
  <2> QED BY <1>1, <2>3, <2>5, <2>6 DEF ReachStep
<1> QED BY <1>2, <1>3

LEMMA JoinReach ==
  ASSUME QueueInv, ReachInv, qDisturbed = {}, NEW p \in QNames, NEW g \in QGroups, Join(p, g)
  PROVE  ReachStep(p)
<1>1. qPc[p] = "idle" /\ UNCHANGED <<qDelivery, sendQueues>> /\ TableOK(qTable)
  BY Before DEF Join
<1>2. CASE qdbFull(qTable, p, g)
  BY <1>1, <1>2, IdleReach DEF Join
<1>3. CASE ~qdbFull(qTable, p, g)
  <2>1. qTable' = qdbAddQueue(qTable, p, g) /\ qPc'[p] = "join"
    BY <1>3, Before, GotoIs DEF Join
  <2>2. Grows(p) /\ Unread(p)
    BY <1>1, <2>1, AddGrows DEF AnyGroup
  <2>3. ~Updating(p) /\ ~Delivering(p) /\ ~Updating(p)' /\ ~Delivering(p)'
    BY <1>1, <2>1 DEF Updating, Delivering
  <2>4. \A n \in QNames : GetFD(p, n) => GetFD(p, n)'
    BY <1>1, SameList
  <2> QED BY <1>1, <2>1, <2>2, <2>3, <2>4, QuietStep
<1> QED BY <1>2, <1>3

LEMMA JoinNextReach ==
  ASSUME QueueInv, ReachInv, qDisturbed = {}, NEW p \in QNames, JoinNext(p)
  PROVE  ReachStep(p)
<1>1. /\ qPc[p] = "join" /\ UNCHANGED <<qTable, qDelivery, sendQueues>>
      /\ QueueTypes /\ TableOK(qTable) /\ qReg[p].back = "join"
  BY Before DEF JoinNext, Locals
<1>2. qPc'[p] \in {"idle", "join", "attach"} /\ qReg'[p].back # "update"
  <2>1. CASE Upcoming(p) = {}
    <3>1. qPc'[p] = "idle" /\ qReg'[p] = NoReg
      BY <1>1, <2>1, GotoIs DEF JoinNext, Return
    <3> QED BY <3>1 DEF NoReg
  <2>2. CASE Upcoming(p) # {}
    <3>1. Advanced(p).back = "join"
      BY <1>1, <2>2, AdvancedIs
    <3> DEFINE pc == IF Advanced(p).target = p THEN "join" ELSE "attach"
    <3>2. pc \in {"join", "attach"} /\ QGoto(p, pc, Advanced(p))
      BY <2>2 DEF JoinNext
    <3> HIDE DEF pc
    <3> QED BY <1>1, <3>1, <3>2, GotoIs
  <2> QED BY <2>1, <2>2
<1>3. ~Updating(p) /\ ~Delivering(p) /\ ~Updating(p)' /\ ~Delivering(p)'
  BY <1>1, <1>2 DEF Updating, Delivering
<1>4. \A n \in QNames : GetFD(p, n) => GetFD(p, n)'
  BY <1>1, SameList
<1>5. Grows(p) /\ Unread(p)
  BY <1>1, SameTable
<1> QED BY <1>1, <1>2, <1>3, <1>4, <1>5, QuietStep

LEMMA QuitNextReach ==
  ASSUME QueueInv, ReachInv, qDisturbed = {}, NEW p \in QNames, QuitNext(p), qDisturbed' = {}
  PROVE  ReachStep(p)
<1>1. Upcoming(p) # {}
  BY DEF QuitNext
<1>2. qPc[p] = "quit" /\ UNCHANGED <<qTable, qDelivery>> /\ QGoto(p, "quit", Advanced(p))
  BY <1>1 DEF QuitNext
<1>3. qPc'[p] = "quit"
  BY <1>2, Before, GotoIs
<1>4. ~Updating(p) /\ ~Delivering(p) /\ ~Updating(p)' /\ ~Delivering(p)'
  BY <1>2, <1>3 DEF Updating, Delivering
<1> QED BY <1>2, <1>3, <1>4, SameTable, QuietStep

\* A step that leaves p in qSendListUpdate.
LEMMA UpdateStays ==
  ASSUME QueueInv, ReachInv, qDisturbed = {}, NEW p \in QNames, qTable' = qTable,
         UNCHANGED qDelivery, UpdateGoesOn(p), Updating(p), Updating(p)',
         qReg'[p].group = qReg[p].group
  PROVE  ReachStep(p)
<1>1. /\ qPc[p] \notin {"down", "exit", "close", "quit"} /\ qPc'[p] # "down"
      /\ Grows(p) /\ Unread(p)
  BY SameTable DEF Updating
<1>2. FlagsTell(p)' /\ DueTold(p)'
  BY <1>1, OwnFlags, OwnUpdate
<1> QED BY <1>1, <1>2 DEF ReachStep

\* radQueueAttach goes on, or returns with the node in the list.
InList(l, n) == \E i \in DOMAIN l : l[i].name = n

LEMMA AttachGoesOn ==
  ASSUME QueueInv, ReachInv, qDisturbed = {}, NEW p \in QNames, qTable' = qTable,
         UNCHANGED qDelivery, qPc[p] \in {"attach", "open"},
         \A n \in QNames : GetFD(p, n) => GetFD(p, n)',
         \/ /\ qPc'[p] \in {"open", "refused"}
            /\ \E b : qReg'[p] = [qReg[p] EXCEPT !.new = b]
         \/ AttachReturns(p) /\ InList(sendQueues'[p], qReg[p].target)
  PROVE  ReachStep(p)
<1> DEFINE reg == qReg[p]
           new(b) == [reg EXCEPT !.new = b]
<1>1. QueueTypes /\ reg \in QRegs /\ reg.back \in {"idle", "join", "update"}
  BY Before DEF Locals
<1>2. \A b : /\ new(b).back = reg.back /\ new(b).group = reg.group
             /\ new(b).index = reg.index /\ new(b).target = reg.target
  BY <1>1 DEF QRegs
<1>3. AttachReturns(p) => qPc'[p] = reg.back /\ qReg'[p] = IF reg.back = "idle" THEN NoReg ELSE new(NoQBuf)
  <2> DEFINE to == IF reg.back = "idle" THEN NoReg ELSE new(NoQBuf)
  <2>1. AttachReturns(p) => QGoto(p, reg.back, to)
    BY DEF AttachReturns
  <2> HIDE DEF to
  <2>2. AttachReturns(p) => qPc'[p] = reg.back /\ qReg'[p] = to
    BY <1>1, <2>1, GotoIs
  <2> QED BY <2>2 DEF to
<1>4. \/ qPc'[p] \in {"open", "refused"} /\ \E b : qReg'[p] = new(b)
      \/ AttachReturns(p) /\ InList(sendQueues'[p], reg.target)
  OBVIOUS
<1> HIDE DEF new
<1>5. CASE reg.back \in {"idle", "join"}
  <2>1. qPc'[p] \in {"open", "refused", "idle", "join"} /\ qReg'[p].back # "update"
    BY <1>2, <1>3, <1>4, <1>5 DEF NoReg
  <2>2. ~Updating(p) /\ ~Delivering(p) /\ ~Updating(p)' /\ ~Delivering(p)' /\ qPc'[p] # "down"
    BY <1>5, <2>1 DEF Updating, Delivering
  <2> QED BY <2>2, SameTable, QuietStep
<1>6. CASE reg.back = "update"
  <2>1. /\ qReg'[p].back = "update" /\ qReg'[p].group = reg.group /\ qReg'[p].index = reg.index
        /\ qReg'[p].target = reg.target /\ qPc'[p] \in {"open", "refused", "update"}
        /\ qPc'[p] \in {"open", "refused"} \/ InList(sendQueues'[p], reg.target)
    BY <1>2, <1>3, <1>4, <1>6
  <2>2. Updating(p) /\ Updating(p)'
    BY <1>6, <2>1 DEF Updating
  <2>3. \A i : Ahead(p, i) => Ahead(p, i)'
    BY <2>1 DEF Ahead
  <2>4. ASSUME NEW n \in QNames, Facing(p, n) PROVE GetFD(p, n)' \/ Facing(p, n)'
    <3>1. n = reg.target
      BY <2>4 DEF Facing
    <3>2. CASE qPc'[p] \in {"open", "refused"}
      BY <2>1, <3>1, <3>2 DEF Facing
    <3>3. CASE InList(sendQueues'[p], reg.target)
      BY <3>1, <3>3 DEF GetFD, InList
    <3> QED BY <2>1, <3>2, <3>3
  <2>5. UpdateGoesOn(p)
    BY <2>1, <2>2, <2>3, <2>4 DEF UpdateGoesOn
  <2> QED BY <2>1, <2>2, <2>5, UpdateStays
<1> QED BY <1>1, <1>5, <1>6

LEMMA AttachGetReach ==
  ASSUME QueueInv, ReachInv, qDisturbed = {}, NEW p \in QNames, AttachGet(p)
  PROVE  ReachStep(p)
<1> DEFINE reg == qReg[p]
           there == Has(sendQueues[p], reg.target, reg.group)
<1>1. /\ qPc[p] = "attach" /\ UNCHANGED <<qTable, sendQueues, qDelivery>>
      /\ QueueTypes /\ reg \in QRegs
  BY Before DEF AttachGet
<1>2. \A n \in QNames : GetFD(p, n) => GetFD(p, n)'
  BY <1>1, SameList
<1>3. CASE there
  <2>1. AttachReturns(p)
    BY <1>3 DEF AttachGet
  <2>2. InList(sendQueues'[p], reg.target)
    BY <1>1, <1>3 DEF Has, InList
  <2> QED BY <1>1, <1>2, <2>1, <2>2, AttachGoesOn
<1>4. CASE ~there
  <2>1. \E b : qPc'[p] \in {"open", "refused"} /\ qReg'[p] = [reg EXCEPT !.new = b]
    <3>1. CASE qFree # {}
      <4> DEFINE to == [reg EXCEPT !.new = AnyFree]
      <4>1. QGoto(p, "open", to)
        BY <1>4, <3>1 DEF AttachGet
      <4> HIDE DEF to
      <4>2. qPc'[p] = "open" /\ qReg'[p] = to
        BY <1>1, <4>1, GotoIs
      <4> QED BY <4>2 DEF to
    <3>2. CASE qFree = {}
      <4>1. QGoto(p, "refused", reg)
        BY <1>4, <3>2 DEF AttachGet
      <4>2. reg = [reg EXCEPT !.new = reg.new]
        BY <1>1 DEF QRegs
      <4>3. qPc'[p] = "refused" /\ qReg'[p] = reg
        BY <1>1, <4>1, GotoIs
      <4> QED BY <4>2, <4>3
    <3> QED BY <3>1, <3>2
  <2> QED BY <1>1, <1>2, <2>1, AttachGoesOn
<1> QED BY <1>3, <1>4

LEMMA AttachOpenReach ==
  ASSUME QueueInv, ReachInv, qDisturbed = {}, NEW p \in QNames, AttachOpen(p)
  PROVE  ReachStep(p)
<1> DEFINE reg == qReg[p]
           nd == [name |-> reg.target, group |-> reg.group, node |-> reg.new]
           s == sendQueues[p]
<1>1. /\ qPc[p] = "open" /\ UNCHANGED <<qTable, qDelivery>>
      /\ QueueTypes /\ s \in Seq(SendNode) /\ AttachReturns(p)
      /\ sendQueues' = [sendQueues EXCEPT ![p] = Append(@, nd)]
  BY Before DEF AttachOpen, SendList
<1>2. sendQueues'[p] = Append(s, nd)
  BY <1>1 DEF QueueTypes
<1>3. /\ \A i \in DOMAIN s : i \in DOMAIN sendQueues'[p] /\ sendQueues'[p][i] = s[i]
      /\ \E i \in DOMAIN sendQueues'[p] : sendQueues'[p][i].name = reg.target
  <2>1. Len(s) \in Nat /\ DOMAIN s = 1..Len(s) /\ nd.name = reg.target
    BY <1>1
  <2> HIDE DEF s, nd
  <2>2. /\ DOMAIN Append(s, nd) = 1..(Len(s) + 1) /\ Append(s, nd)[Len(s) + 1] = nd
        /\ \A i \in 1..Len(s) : Append(s, nd)[i] = s[i]
    BY <1>1
  <2>3. \A i \in DOMAIN s : i \in DOMAIN Append(s, nd) /\ Append(s, nd)[i] = s[i]
    BY <2>1, <2>2
  <2>4. Len(s) + 1 \in DOMAIN Append(s, nd) /\ Append(s, nd)[Len(s) + 1] = nd
    BY <2>1, <2>2
  <2> QED BY <1>2, <2>1, <2>3, <2>4
<1> HIDE DEF nd
<1>4. \A n \in QNames : GetFD(p, n) => GetFD(p, n)'
  BY <1>3 DEF GetFD
<1>5. InList(sendQueues'[p], qReg[p].target)
  BY <1>3 DEF InList
<1> QED BY <1>1, <1>4, <1>5, AttachGoesOn

LEMMA AttachFailsReach ==
  ASSUME QueueInv, ReachInv, qDisturbed = {}, NEW p \in QNames,
         \/ AttachOpenFails(p)
         \/ AttachRefused(p) /\ qDisturbed' = {}
  PROVE  ReachStep(p)
<1>1. QueueTypes /\ qReg[p] \in QRegs
  BY Before
<1>2. CASE AttachOpenFails(p)
  <2> DEFINE old == [qReg[p] EXCEPT !.new = NoQBuf]
  <2>1. /\ qPc[p] = "open" /\ UNCHANGED <<qTable, sendQueues, qDelivery>>
        /\ QGoto(p, "refused", old)
    BY <1>2 DEF AttachOpenFails
  <2>2. qPc'[p] = "refused" /\ qReg'[p] = old
    BY <1>1, <2>1, GotoIs
  <2>3. \A n \in QNames : GetFD(p, n) => GetFD(p, n)'
    BY <2>1, SameList
  <2> QED BY <2>1, <2>2, <2>3, AttachGoesOn
<1>3. CASE AttachRefused(p) /\ qDisturbed' = {}
  <2>1. /\ qPc[p] = "refused" /\ qReg[p].back = "idle" /\ Return(p)
        /\ UNCHANGED <<qTable, sendQueues, qDelivery>>
    BY <1>3 DEF AttachRefused
  <2>2. qPc'[p] = "idle"
    BY <1>1, <2>1, GotoIs DEF Return
  <2>3. ~Updating(p) /\ ~Delivering(p) /\ ~Updating(p)' /\ ~Delivering(p)'
    BY <2>1, <2>2 DEF Updating, Delivering
  <2>4. \A n \in QNames : GetFD(p, n) => GetFD(p, n)'
    BY <2>1, SameList
  <2> QED BY <2>1, <2>2, <2>3, <2>4, SameTable, QuietStep
<1> QED BY <1>2, <1>3

\* A record but for the first is ahead of a traversal that begins.
LEMMA AllAhead ==
  ASSUME QueueInv, ReachInv, qDisturbed = {}, NEW p \in QNames, NEW i \in DOMAIN qTable,
         i > 1, qReg'[p].index = 0
  PROVE  Ahead(p, i)'
<1>1. Len(qTable) \in Nat /\ DOMAIN qTable = 1..Len(qTable)
  BY Undisturbed
<1>2. i - 1 > 0
  BY <1>1
<1> QED BY <1>2 DEF Ahead

\* A process that sends to a group, and goes on with it, keeps the truth of its flags.
LEMMA SendingFlags ==
  ASSUME QueueInv, ReachInv, qDisturbed = {}, NEW p \in QNames, qTable' = qTable,
         sendQueues' = sendQueues, Delivering(p), qPc'[p] # "down"
  PROVE  Grows(p) /\ FlagsTell(p)'
<1>1. Grows(p) /\ Unread(p) /\ ~Updating(p)
  BY SameTable DEF Updating, Delivering
<1>2. UpdateGoesOn(p)
  BY <1>1, SameList DEF UpdateGoesOn
<1>3. qPc[p] \notin {"down", "exit", "close", "quit"}
  BY DEF Delivering
<1> QED BY <1>1, <1>2, <1>3, OwnFlags

LEMMA UpdateNextReach ==
  ASSUME QueueInv, ReachInv, qDisturbed = {}, NEW p \in QNames, UpdateNext(p)
  PROVE  ReachStep(p)
<1> DEFINE reg == qReg[p]
<1>1. /\ qPc[p] = "update" /\ UNCHANGED <<qTable, qDelivery, sendQueues>>
      /\ QueueTypes /\ TableOK(qTable) /\ reg \in QRegs /\ reg.back = "update"
  BY Before DEF UpdateNext, Locals
<1>2. Updating(p) /\ ~Delivering(p) /\ \A n : ~Facing(p, n)
  BY <1>1 DEF Updating, Delivering, Facing
<1>3. \A n \in QNames : GetFD(p, n) <=> GetFD(p, n)'
  BY <1>1, SameList
<1>4. CASE Upcoming(p) # {}
  <2> DEFINE to == Advanced(p)
             pc == IF to.target = p \/ GetFD(p, to.target) THEN "update" ELSE "attach"
  <2>1. to.group = reg.group /\ to.back = "update"
    BY <1>1, <1>4, AdvancedIs
  <2>2. QGoto(p, pc, to)
    BY <1>4 DEF UpdateNext
  <2>3. qPc'[p] = pc /\ qReg'[p] = to
    BY <1>1, <2>2, GotoIs
  <2>4. Updating(p)' /\ qReg'[p].group = reg.group
    BY <2>1, <2>3 DEF Updating
  <2>5. ASSUME NEW i \in DOMAIN qTable, NEW n \in QNames \ {p}, qTable[i].name = n,
               qTable[i].group = reg.group, Ahead(p, i)
        PROVE  GetFD(p, n)' \/ Ahead(p, i)' \/ Facing(p, n)'
    <3>1. i - 1 > to.index \/ n = to.target
      BY <1>4, <2>5, NextIs
    <3>2. CASE i - 1 > to.index
      BY <2>3, <3>2 DEF Ahead
    <3>3. CASE n = to.target
      <4>1. CASE GetFD(p, n)
        BY <1>3, <4>1
      <4>2. CASE ~GetFD(p, n)
        <5>1. qPc'[p] = "attach"
          BY <2>3, <3>3, <4>2
        <5> QED BY <2>3, <3>3, <5>1 DEF Facing
      <4> QED BY <4>1, <4>2
    <3> QED BY <3>1, <3>2, <3>3
  <2>6. UpdateGoesOn(p)
    BY <1>2, <1>3, <2>4, <2>5 DEF UpdateGoesOn
  <2> QED BY <1>1, <1>2, <2>4, <2>6, UpdateStays
<1>5. CASE Upcoming(p) = {}
  <2> DEFINE to == [reg EXCEPT !.index = 0]
  <2>1. qPc'[p] = "group" /\ qReg'[p] = to
    <3>1. QGoto(p, "group", to)
      BY <1>5 DEF UpdateNext
    <3> QED BY <1>1, <3>1, GotoIs
  <2>2. qReg'[p].group = reg.group /\ qReg'[p].index = 0
    BY <1>1, <2>1 DEF QRegs
  <2>3. \A k \in DOMAIN qTable : qTable[k].group = reg.group => ~Ahead(p, k)
    BY <1>5, NextIs
  <2>4. UpdateGoesOn(p)
    BY <1>2, <1>3, <2>3 DEF UpdateGoesOn
  <2>5. Grows(p) /\ FlagsTell(p)'
    BY <1>1, <2>1, <2>4, SameTable, OwnFlags
  <2>6. ~Updating(p)' /\ Delivering(p)'
    BY <2>1 DEF Updating, Delivering
  <2>7. DueTold(p)'
    <3> SUFFICES /\ qDelivery[p].group = reg.group
                 /\ \A n \in qDelivery[p].due : StillDue(p, n)'
      BY <1>1, <2>2, <2>6 DEF DueTold
    <3>1. qDelivery[p].group = reg.group /\ \A n \in qDelivery[p].due : StillDue(p, n)
      BY <1>2, Undisturbed DEF DueTold
    <3>2. ASSUME NEW n \in qDelivery[p].due PROVE StillDue(p, n)'
      <4>1. PICK i \in DOMAIN qTable :
              /\ qTable[i].name = n /\ qTable[i].group = reg.group /\ i > 1
              /\ GetFD(p, n) \/ Ahead(p, i) \/ Facing(p, n)
        BY <1>2, <3>1 DEF StillDue
      <4>2. GetFD(p, n)'
        BY <1>1, <1>2, <2>3, <4>1, SameList
      <4>3. Ahead(p, i)'
        BY <2>2, <3>1, <4>1, AllAhead
      <4>4. n # p
        BY <3>1 DEF StillDue
      <4> QED BY <1>1, <2>2, <2>6, <4>1, <4>2, <4>3, <4>4 DEF StillDue
    <3> QED BY <3>1, <3>2
  <2> QED BY <1>1, <2>5, <2>7 DEF ReachStep
<1> QED BY <1>4, <1>5

LEMMA GroupNextReach ==
  ASSUME QueueInv, ReachInv, qDisturbed = {}, NEW p \in QNames, GroupNext(p), qDisturbed' = {}
  PROVE  ReachStep(p)
<1> DEFINE reg == qReg[p]
<1>1. /\ qPc[p] = "group" /\ UNCHANGED <<qTable, qDelivery, sendQueues>>
      /\ QueueTypes /\ TableOK(qTable) /\ reg \in QRegs
  BY Before DEF GroupNext
<1>2. Delivering(p) /\ ~Updating(p) /\ \A n : ~Facing(p, n)
  BY <1>1 DEF Updating, Delivering, Facing
<1>3. DueTold(p)
  BY Undisturbed
<1>4. CASE Upcoming(p) = {}
  <2>1. qPc'[p] = "idle"
    BY <1>1, <1>4, GotoIs DEF GroupNext, Return
  <2>2. Grows(p) /\ FlagsTell(p)'
    BY <1>1, <1>2, <2>1, SendingFlags
  <2>3. ASSUME NEW n \in qDelivery[p].due PROVE n \in qDelivery[p].got
    <3>1. StillDue(p, n)
      BY <1>2, <1>3, <2>3 DEF DueTold
    <3>2. \A k \in DOMAIN qTable : qTable[k].group = reg.group => ~Ahead(p, k)
      BY <1>4, NextIs
    <3> QED BY <1>2, <3>1, <3>2 DEF StillDue
  <2>4. DueTold(p)'
    BY <1>1, <2>1, <2>3 DEF DueTold, Updating, Delivering
  <2> QED BY <1>1, <2>2, <2>4 DEF ReachStep
<1>5. CASE Upcoming(p) # {}
  <2> DEFINE to == Advanced(p)
  <2>1. to \in QRegs /\ to.group = reg.group
    BY <1>1, <1>5, AdvancedIs
  <2>2. /\ \/ qPc'[p] = "group" /\ to.target = p
           \/ qPc'[p] = "write"
        /\ qReg'[p].group = reg.group /\ qReg'[p].index = to.index /\ qReg'[p].target = to.target
    <3>1. CASE to.target = p
      <4>1. qPc'[p] = "group" /\ qReg'[p] = to
        BY <1>1, <1>5, <3>1, GotoIs DEF GroupNext
      <4> QED BY <2>1, <3>1, <4>1
    <3>2. CASE to.target # p
      <4> DEFINE new == [to EXCEPT !.new = AnyFree]
      <4>1. QGoto(p, "write", new)
        BY <1>5, <3>2 DEF GroupNext
      <4>2. qPc'[p] = "write" /\ qReg'[p] = new
        BY <1>1, <4>1, GotoIs
      <4> HIDE DEF to
      <4>3. new.group = to.group /\ new.index = to.index /\ new.target = to.target
        BY <2>1 DEF QRegs
      <4> QED BY <2>1, <4>2, <4>3
    <3> QED BY <3>1, <3>2
  <2>3. Delivering(p)' /\ ~Updating(p)' /\ qPc'[p] # "down"
    BY <2>2 DEF Delivering, Updating
  <2>4. Grows(p) /\ FlagsTell(p)'
    BY <1>1, <1>2, <2>3, SendingFlags
  <2>5. ASSUME NEW n, StillDue(p, n) PROVE StillDue(p, n)'
    <3>1. PICK i \in DOMAIN qTable :
            /\ qTable[i].name = n /\ qTable[i].group = reg.group /\ i > 1 /\ GetFD(p, n) /\ n # p
            /\ n \in qDelivery[p].got \/ Ahead(p, i)
      BY <1>2, <2>5 DEF StillDue
    <3>2. GetFD(p, n)'
      BY <1>1, <3>1, SameList
    <3>3. n \in qDelivery'[p].got \/ Ahead(p, i)' \/ Facing(p, n)'
      <4>1. CASE n \in qDelivery[p].got
        BY <1>1, <4>1
      <4>2. CASE Ahead(p, i)
        <5>1. i - 1 > to.index \/ n = to.target
          BY <1>5, <3>1, <4>2, NextIs
        <5>2. i - 1 > to.index => Ahead(p, i)'
          BY <2>2 DEF Ahead
        <5>3. n = to.target => Facing(p, n)'
          BY <2>2, <3>1 DEF Facing
        <5> QED BY <5>1, <5>2, <5>3
      <4> QED BY <3>1, <4>1, <4>2
    <3> QED BY <1>1, <2>2, <2>3, <3>1, <3>2, <3>3 DEF StillDue
  <2>6. DueTold(p)'
    BY <1>1, <1>2, <1>3, <2>2, <2>3, <2>5 DEF DueTold
  <2> QED BY <1>1, <2>4, <2>6 DEF ReachStep
<1> QED BY <1>4, <1>5

LEMMA GroupWriteReach ==
  ASSUME QueueInv, ReachInv, qDisturbed = {}, NEW p \in QNames, GroupWrite(p), qDisturbed' = {}
  PROVE  ReachStep(p)
<1> DEFINE reg == qReg[p]
           to == [reg EXCEPT !.new = NoQBuf]
<1>1. /\ qPc[p] = "write" /\ UNCHANGED <<qTable, sendQueues>> /\ QGoto(p, "group", to)
      /\ QueueTypes /\ reg \in QRegs
  BY Before DEF GroupWrite
<1>2. qPc'[p] = "group" /\ qReg'[p] = to
  BY <1>1, GotoIs
<1>3. qReg'[p].group = reg.group /\ qReg'[p].index = reg.index
  BY <1>1, <1>2 DEF QRegs
<1>4. Delivering(p) /\ ~Updating(p) /\ Delivering(p)' /\ ~Updating(p)'
  BY <1>1, <1>2 DEF Updating, Delivering
<1>5. Grows(p) /\ FlagsTell(p)'
  BY <1>1, <1>2, <1>4, SendingFlags
<1>6. /\ qDelivery'[p].group = qDelivery[p].group /\ qDelivery'[p].due = qDelivery[p].due
      /\ qDelivery[p].got \subseteq qDelivery'[p].got
      /\ GetFD(p, reg.target) => reg.target \in qDelivery'[p].got
      /\ \A q \in QNames \ {p} : qDelivery'[q] = qDelivery[q]
  <2>1. /\ qDelivery \in [QNames -> [group : AnyGroup, due : SUBSET QNames, got : SUBSET QNames]]
        /\ qDelivery[p] \in [group : AnyGroup, due : SUBSET QNames, got : SUBSET QNames]
    BY DEF ReachInv, DeliveryTypes
  <2>2. GetFD(p, reg.target) => ~WriteAborts(reg.target)
    BY ListedIsUp
  <2>3. CASE ~GetFD(p, reg.target)
    <3>1. qDelivery' = qDelivery
      BY <2>3 DEF GroupWrite
    <3> QED BY <2>3, <3>1
  <2>4. CASE GetFD(p, reg.target)
    <3>1. qDelivery' = [qDelivery EXCEPT ![p].got = @ \cup {reg.target}]
      BY <2>2, <2>4 DEF GroupWrite
    <3> QED BY <2>1, <3>1
  <2> QED BY <2>3, <2>4
<1>7. ASSUME NEW n, StillDue(p, n) PROVE StillDue(p, n)'
  <2>1. PICK i \in DOMAIN qTable :
          /\ qTable[i].name = n /\ qTable[i].group = reg.group /\ i > 1 /\ GetFD(p, n) /\ n # p
          /\ n \in qDelivery[p].got \/ Ahead(p, i) \/ Facing(p, n)
    BY <1>4, <1>7 DEF StillDue
  <2>2. GetFD(p, n)'
    BY <1>1, <2>1, SameList
  <2>3. n \in qDelivery'[p].got \/ Ahead(p, i)'
    <3>1. Ahead(p, i) => Ahead(p, i)'
      BY <1>3 DEF Ahead
    <3>2. Facing(p, n) => n \in qDelivery'[p].got
      BY <1>6, <2>1 DEF Facing
    <3> QED BY <1>6, <2>1, <3>1, <3>2
  <2> QED BY <1>1, <1>3, <1>4, <2>1, <2>2, <2>3 DEF StillDue
<1>8. DueTold(p)'
  <2>1. DueTold(p)
    BY Undisturbed
  <2> QED BY <1>3, <1>4, <1>6, <1>7, <2>1 DEF DueTold
<1> QED BY <1>5, <1>6, <1>8 DEF ReachStep

\* The send begins.  If the flag was set, all others are ahead of the update;
\* if it was clear, all others are in the send list.
LEMMA SendGroupReach ==
  ASSUME QueueInv, ReachInv, qDisturbed = {}, NEW p \in QNames, NEW g \in AnyGroup,
         SendGroup(p, g)
  PROVE  ReachStep(p)
<1> DEFINE mine == {i \in DOMAIN qTable : qTable[i].name = p /\ qTable[i].group = g}
           flagged == {i \in mine : qTable[i].updateFlag = 1}
           pc == IF flagged # {} THEN "update" ELSE "group"
           reg(b) == [NoReg EXCEPT !.group = g, !.sys = b, !.back = "update"]
           cleared == [i \in DOMAIN qTable |-> IF i \in flagged
                                               THEN [qTable[i] EXCEPT !.updateFlag = 0]
                                               ELSE qTable[i]]
           told == [group |-> g, got |-> {},
                    due |-> IF mine # {} THEN Members(g) \ {p} ELSE {}]
<1>1. PICK b \in qOwned[p] : QGoto(p, pc, reg(b)) /\ qTable' = cleared
  BY DEF SendGroup
<1>2. /\ qPc[p] = "idle" /\ sendQueues' = sendQueues /\ QueueTypes
      /\ qDelivery' = [qDelivery EXCEPT ![p] = told]
      /\ FlagsTell(p) /\ DeliveryTypes /\ \A i \in DOMAIN qTable : qTable[i] \in QRec
  BY Before, Undisturbed DEF SendGroup
<1>3. qPc'[p] = pc /\ qReg'[p] = reg(b)
  BY <1>1, <1>2, GotoIs
<1>4. qReg'[p].group = g /\ qReg'[p].index = 0 /\ qReg'[p].back = "update"
  BY <1>3 DEF NoReg
<1>5. ASSUME NEW i \in DOMAIN qTable
      PROVE  /\ i \in DOMAIN qTable' /\ qTable'[i].name = qTable[i].name
             /\ qTable'[i].group = qTable[i].group
             /\ qTable'[i].updateFlag = 0 => qTable[i].updateFlag = 0 \/ i \in flagged
  <2>1. CASE i \in flagged
    <3>1. qTable'[i] = [qTable[i] EXCEPT !.updateFlag = 0] /\ i \in DOMAIN qTable'
      BY <1>1, <2>1
    <3> QED BY <1>2, <2>1, <3>1 DEF QRec
  <2>2. CASE i \notin flagged
    <3>1. qTable'[i] = qTable[i] /\ i \in DOMAIN qTable'
      BY <1>1, <2>2
    <3> QED BY <3>1
  <2> QED BY <2>1, <2>2
<1>6. DOMAIN qTable' = DOMAIN qTable
  BY <1>1
<1>7. ~Updating(p) /\ (Updating(p)' <=> flagged # {}) /\ (Delivering(p)' <=> flagged = {})
  BY <1>2, <1>3, <1>4 DEF Updating, Delivering
<1>8. flagged \subseteq mine /\ \A i \in mine : i \notin flagged => qTable[i].updateFlag # 1
  OBVIOUS
<1>9. \A i \in mine : i \in DOMAIN qTable /\ qTable[i].name = p /\ qTable[i].group = g
  OBVIOUS
<1>10. qPc'[p] \in {"update", "group"}
  BY <1>3
<1>11. \A n \in Members(g) :
         \E i \in DOMAIN qTable : qTable[i].name = n /\ qTable[i].group = g /\ i > 1
  BY DEF Members
<1>12. /\ told.group = g /\ \A n \in told.due : n # p /\ n \in Members(g) /\ mine # {}
       /\ qDelivery'[p] = told /\ \A q \in QNames \ {p} : qDelivery'[q] = qDelivery[q]
  BY <1>2 DEF DeliveryTypes
<1> HIDE DEF mine, flagged, pc, reg, cleared, told
<1>13. Grows(p)
  BY <1>5, <1>6, <1>8, <1>9 DEF Grows
<1>15. FlagsTell(p)'
  <2>1. ASSUME NEW j \in DOMAIN qTable, NEW i \in DOMAIN qTable, NEW n,
               qTable[j].name = p, qTable'[j].updateFlag = 0, i > 1,
               qTable[i].group = qTable[j].group, qTable[i].name = n, n # p
        PROVE  \/ GetFD(p, n)'
               \/ Updating(p)' /\ qReg'[p].group = qTable[i].group /\ Ahead(p, i)'
    <3>1. CASE qTable[j].updateFlag = 0
      <4>1. GetFD(p, n)
        BY <1>2, <1>7, <2>1, <3>1 DEF FlagsTell
      <4> QED BY <1>2, <4>1, SameList
    <3>2. CASE j \in flagged
      <4>1. qTable[j].group = g /\ Updating(p)'
        BY <1>7, <1>8, <1>9, <3>2
      <4>2. Ahead(p, i)'
        BY <1>4, <2>1, AllAhead
      <4> QED BY <1>4, <2>1, <4>1, <4>2
    <3> QED BY <1>5, <2>1, <3>1, <3>2
  <2>2. ASSUME NEW j \in DOMAIN qTable', NEW i \in DOMAIN qTable', NEW n,
               qTable'[j].name = p, qTable'[j].updateFlag = 0, i > 1,
               qTable'[i].group = qTable'[j].group, qTable'[i].name = n, n # p
        PROVE  \/ GetFD(p, n)'
               \/ Updating(p)' /\ qReg'[p].group = qTable'[i].group /\ Ahead(p, i)'
    <3>1. /\ j \in DOMAIN qTable /\ qTable'[j].name = qTable[j].name
          /\ qTable'[j].group = qTable[j].group
          /\ i \in DOMAIN qTable /\ qTable'[i].name = qTable[i].name
          /\ qTable'[i].group = qTable[i].group
      BY <1>5, <1>6
    <3> QED BY <2>1, <2>2, <3>1
  <2>3. qPc'[p] # "down"
    BY <1>10
  <2> QED BY <2>2, <2>3 DEF FlagsTell, GetFD
<1>16. DueTold(p)'
  <2>1. ASSUME NEW n \in told.due PROVE StillDue(p, n)'
    <3>1. PICK i \in DOMAIN qTable : qTable[i].name = n /\ qTable[i].group = g /\ i > 1
      BY <1>11, <1>12
    <3>2. n # p /\ mine # {}
      BY <1>12
    <3>3. Ahead(p, i)'
      BY <1>4, <2>1, <3>1, AllAhead
    <3>4. i \in DOMAIN qTable' /\ qTable'[i].name = n /\ qTable'[i].group = qReg'[p].group
      BY <1>4, <1>5, <3>1
    <3>5. ASSUME flagged = {} PROVE GetFD(p, n)'
      <4>1. PICK j \in mine : TRUE
        BY <3>2
      <4>2. j \in DOMAIN qTable /\ qTable[j].name = p /\ qTable[j].group = g /\ qTable[j].updateFlag # 1
        BY <1>8, <1>9, <3>5
      <4>3. qTable[j].updateFlag = 0
        <5>1. qTable[j] \in QRec
          BY <1>2, <4>2
        <5> QED BY <4>2, <5>1 DEF QRec
      <4>4. GetFD(p, n)
        BY <1>2, <1>7, <2>1, <3>1, <3>2, <4>2, <4>3 DEF FlagsTell
      <4> QED BY <1>2, <4>4, SameList
    <3> QED BY <1>7, <3>1, <3>2, <3>3, <3>4, <3>5 DEF StillDue
  <2>2. Updating(p)' \/ Delivering(p)'
    BY <1>7
  <2> QED BY <1>4, <1>12, <2>1, <2>2 DEF DueTold
<1> QED BY <1>12, <1>13, <1>15, <1>16 DEF ReachStep

\* What has disturbed the sends is not forgotten.
LEMMA DisturbedStays ==
  ASSUME NEW p \in QNames, QStep(p), qDisturbed' = {} PROVE qDisturbed = {}
<1>1. CASE QueueInit(p) \/ Exit(p) \/ ExitDelete(p) \/ ExitClose(p) \/ Die(p)
  BY <1>1 DEF QueueInit, Exit, ExitDelete, ExitClose, Die
<1>2. CASE AttachGet(p) \/ AttachOpen(p) \/ AttachOpenFails(p) \/ AttachRefused(p) \/ JoinNext(p) \/ QuitNext(p)
  BY <1>2 DEF AttachGet, AttachOpen, AttachOpenFails, AttachRefused, JoinNext, QuitNext
<1>3. CASE Alloc(p) \/ Release(p) \/ Recv(p)
  BY <1>3 DEF Alloc, Release, Recv
<1>4. CASE UpdateNext(p) \/ GroupNext(p) \/ GroupWrite(p)
  BY <1>4 DEF UpdateNext, GroupNext, GroupWrite
<1>5. ASSUME NEW g \in QGroups, Join(p, g) \/ Quit(p, g) PROVE qDisturbed = {}
  BY <1>5 DEF Join, Quit
<1>6. ASSUME NEW n \in QNames, Send(p, n) PROVE qDisturbed = {}
  BY <1>6 DEF Send
<1>7. ASSUME NEW g \in AnyGroup, SendGroup(p, g) PROVE qDisturbed = {}
  BY <1>7 DEF SendGroup
<1>8. ASSUME NEW n \in QNames, NEW g \in AnyGroup, ClientAttach(p, n, g) \/ ClientDettach(p, n, g)
      PROVE  qDisturbed = {}
  BY <1>8 DEF ClientAttach, ClientDettach
<1> QED BY <1>1, <1>2, <1>3, <1>4, <1>5, <1>6, <1>7, <1>8 DEF QStep, AnyGroup

LEMMA DeliveryKept ==
  ASSUME QueueInv, DeliveryTypes, NEW p \in QNames, QStep(p) PROVE DeliveryTypes'
<1> DEFINE D == [group : AnyGroup, due : SUBSET QNames, got : SUBSET QNames]
<1>1. qDelivery \in [QNames -> D]
  BY DEF DeliveryTypes
<1>2. SUFFICES \/ qDelivery' = qDelivery
               \/ \E d \in D : qDelivery' = [qDelivery EXCEPT ![p] = d]
  BY <1>1 DEF DeliveryTypes
<1>3. CASE QueueInit(p) \/ Exit(p) \/ ExitDelete(p)
  BY <1>3 DEF QueueInit, Exit, ExitDelete
<1>4. CASE ExitClose(p) \/ Die(p)
  <2>1. NoDelivery \in D
    BY DEF NoDelivery, AnyGroup
  <2> QED BY <1>4, <2>1 DEF ExitClose, Die, Ends
<1>5. CASE AttachGet(p) \/ AttachOpen(p) \/ AttachOpenFails(p) \/ AttachRefused(p) \/ JoinNext(p) \/ QuitNext(p)
  BY <1>5 DEF AttachGet, AttachOpen, AttachOpenFails, AttachRefused, JoinNext, QuitNext
<1>6. CASE Alloc(p) \/ Release(p) \/ Recv(p)
  BY <1>6 DEF Alloc, Release, Recv
<1>7. CASE UpdateNext(p) \/ GroupNext(p)
  BY <1>7 DEF UpdateNext, GroupNext
<1>8. CASE GroupWrite(p)
  <2>1. qReg[p].target \in QNames
    BY <1>8, Before DEF GroupWrite, Locals
  <2> DEFINE d == [qDelivery[p] EXCEPT !.got = @ \cup {qReg[p].target}]
  <2>2. qDelivery' = qDelivery \/ qDelivery' = [qDelivery EXCEPT ![p] = d]
    BY <1>8 DEF GroupWrite
  <2>3. d \in D
    BY <1>1, <2>1
  <2> QED BY <2>2, <2>3
<1>9. ASSUME NEW g \in QGroups, Join(p, g) \/ Quit(p, g) PROVE qDelivery' = qDelivery
  BY <1>9 DEF Join, Quit
<1>10. ASSUME NEW n \in QNames, Send(p, n) PROVE qDelivery' = qDelivery
  BY <1>10 DEF Send
<1>11. ASSUME NEW g \in AnyGroup, SendGroup(p, g)
       PROVE  \E d \in D : qDelivery' = [qDelivery EXCEPT ![p] = d]
  <2>1. Members(g) \subseteq QNames
    <3>1. \A i \in DOMAIN qTable : qTable[i] \in QRec
      BY Before DEF TableOK
    <3> QED BY <3>1 DEF Members, QRec
  <2> DEFINE mine == {i \in DOMAIN qTable : qTable[i].name = p /\ qTable[i].group = g}
             d == [group |-> g, got |-> {}, due |-> IF mine # {} THEN Members(g) \ {p} ELSE {}]
  <2>2. qDelivery' = [qDelivery EXCEPT ![p] = d]
    BY <1>11 DEF SendGroup
  <2>3. d \in D
    BY <2>1
  <2> QED BY <2>2, <2>3
<1>12. ASSUME NEW n \in QNames, NEW g \in AnyGroup, ClientAttach(p, n, g) \/ ClientDettach(p, n, g)
       PROVE  qDelivery' = qDelivery
  BY <1>12 DEF ClientAttach, ClientDettach
<1> QED BY <1>3, <1>4, <1>5, <1>6, <1>7, <1>8, <1>9, <1>10, <1>11, <1>12 DEF QStep, AnyGroup

LEMMA StepReaches ==
  ASSUME QueueInv, ReachInv, NEW p \in QNames, QStep(p) PROVE ReachInv'
<1>1. DeliveryTypes'
  BY DeliveryKept DEF ReachInv
<1>2. ASSUME qDisturbed' = {} PROVE \A q \in QNames : FlagsTell(q)' /\ DueTold(q)'
  <2>1. qDisturbed = {} /\ OnlyMine(p) /\ qPc[p] # "close"
    BY <1>2, DisturbedStays, StepIs, Undisturbed
  <2>2. ReachStep(p)
    <3>1. \A g \in QGroups : Join(p, g) => ReachStep(p)
      BY <2>1, JoinReach
    <3>2. \A n \in QNames : Send(p, n) => ReachStep(p)
      BY <2>1, SendReach
    <3>3. \A g \in QGroups \cup {GroupAll} : SendGroup(p, g) => ReachStep(p)
      BY <2>1, SendGroupReach DEF AnyGroup
    <3>4. ~ExitDelete(p) /\ ~ExitClose(p) /\ ~Die(p)
      BY <1>2, <2>1 DEF ExitDelete, ExitClose, Die
    <3>8. \A n \in QNames, g \in QGroups \cup {GroupAll} :
             ClientAttach(p, n, g) \/ ClientDettach(p, n, g) => ReachStep(p)
      BY <1>2, <2>1, CallsReach DEF AnyGroup
    <3>9. CASE AttachOpenFails(p) \/ AttachRefused(p)
      BY <1>2, <2>1, <3>9, AttachFailsReach
    <3>5. CASE Exit(p) \/ Alloc(p) \/ Release(p) \/ Recv(p) \/ \E g \in QGroups : Quit(p, g)
      BY <2>1, <3>5, CallsReach
    <3>6. CASE QueueInit(p) \/ AttachGet(p) \/ AttachOpen(p) \/ JoinNext(p) \/ QuitNext(p)
      BY <1>2, <2>1, <3>6, QueueInitReach, AttachGetReach, AttachOpenReach, JoinNextReach,
         QuitNextReach
    <3>7. CASE UpdateNext(p) \/ GroupNext(p) \/ GroupWrite(p)
      BY <1>2, <2>1, <3>7, UpdateNextReach, GroupNextReach, GroupWriteReach
    <3> QED BY <3>1, <3>2, <3>3, <3>4, <3>5, <3>6, <3>7, <3>8, <3>9 DEF QStep
  <2>3. \A q \in QNames \ {p} : FlagsTell(q)' /\ DueTold(q)'
    BY <2>1, <2>2, OthersReach DEF ReachStep
  <2> QED BY <2>2, <2>3 DEF ReachStep
<1> QED BY <1>1, <1>2 DEF ReachInv

LEMMA InitReachInv == QInit => ReachInv
<1> SUFFICES ASSUME QInit PROVE ReachInv
  OBVIOUS
<1>1. /\ qTable = <<>> /\ qPc = [p \in QNames |-> "down"]
      /\ qDelivery = [p \in QNames |-> NoDelivery]
  BY DEF QInit
<1>2. DeliveryTypes
  BY <1>1 DEF DeliveryTypes, NoDelivery, AnyGroup
<1>4. \A p \in QNames : FlagsTell(p)
  BY <1>1 DEF FlagsTell
<1>5. \A p \in QNames : DueTold(p)
  BY <1>1, QAssumption DEF DueTold, NoDelivery, Updating, Delivering
<1> QED BY <1>2, <1>4, <1>5 DEF ReachInv

LEMMA NextReachInv == QueueInv /\ ReachInv /\ [QNext]_qVars => ReachInv'
<1> SUFFICES ASSUME QueueInv, ReachInv, [QNext]_qVars PROVE ReachInv'
  OBVIOUS
<1>1. CASE QNext
  BY <1>1, StepReaches DEF QNext
<1>2. CASE UNCHANGED qVars
  BY <1>2 DEF qVars, ReachInv, DeliveryTypes, FlagsTell, DueTold, StillDue,
             Updating, Delivering, Ahead, Facing, GetFD
<1> QED BY <1>1, <1>2

\* GroupSendReachesAll (radqueue.c:921-985, radQueueSendGroup): for any number
\* of queues and groups, a member's send to its group reaches every other member
\* that was listed behind record 0 when it began, as long as no process has gone,
\* no client has quit a group or dettached, and no group call was refused a buffer,
\* an open or a write: whatever starts, joins, attaches and sends go on meanwhile.
THEOREM GroupSendsReachAll == QSpec => []GroupSendReachesAll
<1>1. QueueInv /\ ReachInv => GroupSendReachesAll
  <2> SUFFICES ASSUME QueueInv, ReachInv, NEW p \in QNames, qPc[p] = "idle", qDisturbed = {}
               PROVE  qDelivery[p].due \subseteq qDelivery[p].got
    BY DEF GroupSendReachesAll
  <2>1. DueTold(p)
    BY DEF ReachInv
  <2>2. ~Updating(p) /\ ~Delivering(p)
    BY DEF Updating, Delivering
  <2> QED BY <2>1, <2>2 DEF DueTold
<1> QED BY QueueInvHolds, InitReachInv, NextReachInv, <1>1, PTL DEF QSpec

------------------------------------------------------------------------------
(* The reflector: the invariant *)

Unit == [from : {"self", "other"}, id : Nat, part : 1..HdrUnits]

\* A FIFO holds whole headers, each in one piece.
Follows(u, v) == IF u.part = HdrUnits THEN v.part = 1
                 ELSE v.from = u.from /\ v.id = u.id /\ v.part = u.part + 1
Whole(q) ==
    /\ q \in Seq(Unit)
    /\ q # <<>> => q[1].part = 1 /\ q[Len(q)].part = HdrUnits
    /\ \A i \in 1..(Len(q) - 1) : Follows(q[i], q[i + 1])

\* The process's own messages are in it in the order it sent them.
Own(u) == u.from = "self"
Precedes(u, v) == u.id < v.id \/ (u.id = v.id /\ u.part < v.part)
InSentOrder(q) ==
    \A i, j \in DOMAIN q : i < j /\ Own(q[i]) /\ Own(q[j]) => Precedes(q[i], q[j])
OwnBelow(q, n) == \A i \in DOMAIN q : Own(q[i]) => q[i].id <= n
OwnAbove(q, n) == \A i \in DOMAIN q : Own(q[i]) => q[i].id > n
AllBefore(q, r) ==
    \A i \in DOMAIN q, j \in DOMAIN r : Own(q[i]) /\ Own(r[j]) => q[i].id < r[j].id

\* Of the process's own messages, those up to a have left the reflector.
Reflects(a) ==
    /\ a \in 0..sentSelf /\ Len(reflector) = HdrUnits * (sentSelf - a)
    /\ OwnAbove(reflector, a) /\ OwnBelow(reflector, sentSelf)
    /\ OwnBelow(childHas, a) /\ OwnBelow(ownFifo, a)
    /\ \A i \in Back : received[i][1].id <= a

\* What has come back came in the order it was sent, ahead of what is under way.
ComeBack ==
    /\ \A i, j \in Back : i < j => received[i][1].id < received[j][1].id
    /\ \A i \in Back : /\ received[i][1].id > 0
                        /\ OwnAbove(ownFifo, received[i][1].id) /\ OwnAbove(childHas, received[i][1].id)
    /\ OwnAbove(ownFifo, 0) /\ OwnAbove(childHas, 0)

ReflTypes ==
    /\ sentSelf \in Nat /\ sentOther \in Nat
    /\ received \in Seq(Seq(Unit))
    /\ \A i \in DOMAIN received :
          \E from \in {"self", "other"}, id \in Nat : received[i] = Header(from, id)

ReflInv ==
    /\ ReflTypes
    /\ Whole(reflector) /\ Whole(childHas) /\ Whole(ownFifo)
    /\ InSentOrder(reflector) /\ InSentOrder(childHas) /\ InSentOrder(ownFifo)
    /\ AllBefore(ownFifo, childHas)
    /\ ComeBack /\ Waiting <= SelfWindow
    /\ \E a \in 0..sentSelf : Reflects(a)

------------------------------------------------------------------------------
(* The reflector: sequences of units *)

LEMMA UnitsOf ==
  ASSUME NEW q \in Seq(Unit)
  PROVE  /\ Len(q) \in Nat /\ DOMAIN q = 1..Len(q) /\ \A i \in 1..Len(q) : q[i] \in Unit
         /\ q = <<>> <=> Len(q) = 0
<1>1. Len(q) \in Nat /\ DOMAIN q = 1..Len(q) /\ \A i \in 1..Len(q) : q[i] \in Unit
  BY LenProperties, ElementOfSeq
<1>2. q # <<>> => Len(q) # 0
  BY EmptySeq
<1>3. q = <<>> => Len(q) = 0
  BY EmptySeq
<1> QED BY <1>1, <1>2, <1>3

LEMMA UnitIds == \A q \in Seq(Unit) : \A i \in DOMAIN q : q[i].id \in Nat /\ q[i].id \in Int
<1> SUFFICES ASSUME NEW q \in Seq(Unit), NEW i \in DOMAIN q PROVE q[i].id \in Nat /\ q[i].id \in Int
  OBVIOUS
<1>1. q[i] \in Unit
  BY UnitsOf
<1>2. q[i].id \in Nat
  BY <1>1 DEF Unit
<1> QED BY <1>2

LEMMA HeaderIs ==
  ASSUME ReflAssumption, NEW from \in {"self", "other"}, NEW id \in Nat
  PROVE  /\ Header(from, id) \in Seq(Unit) /\ Len(Header(from, id)) = HdrUnits
         /\ \A k \in 1..HdrUnits : Header(from, id)[k] = [from |-> from, id |-> id, part |-> k]
         /\ Whole(Header(from, id)) /\ InSentOrder(Header(from, id))
<1> DEFINE h == Header(from, id)
<1>0. HdrUnits \in Nat \ {0}
  BY DEF ReflAssumption
<1>1. \A k \in 1..HdrUnits : h[k] = [from |-> from, id |-> id, part |-> k]
  BY DEF Header
<1>2. h \in [1..HdrUnits -> Unit]
  <2>1. \A k \in 1..HdrUnits : [from |-> from, id |-> id, part |-> k] \in Unit
    BY DEF Unit
  <2> QED BY <2>1 DEF Header
<1>3. h \in Seq(Unit) /\ Len(h) = HdrUnits
  <2>1. h \in Seq(Unit)
    BY <1>0, <1>2, SeqDef
  <2>2. DOMAIN h = 1..HdrUnits /\ DOMAIN h = 1..Len(h) /\ Len(h) \in Nat
    BY <1>2, <2>1, UnitsOf
  <2> QED BY ONLY <2>1, <2>2, <1>0
<1> HIDE DEF h
<1>4. h[1].part = 1 /\ h[HdrUnits].part = HdrUnits
  <2>1. 1 \in 1..HdrUnits /\ HdrUnits \in 1..HdrUnits
    BY <1>0
  <2>2. /\ h[1] = [from |-> from, id |-> id, part |-> 1]
        /\ h[HdrUnits] = [from |-> from, id |-> id, part |-> HdrUnits]
    BY ONLY <2>1, <1>1
  <2> QED BY <2>2
<1>5. \A i \in 1..(HdrUnits - 1) : Follows(h[i], h[i + 1])
  <2> SUFFICES ASSUME NEW i \in 1..(HdrUnits - 1) PROVE Follows(h[i], h[i + 1])
    OBVIOUS
  <2>1. i \in 1..HdrUnits /\ i + 1 \in 1..HdrUnits /\ i # HdrUnits
    BY <1>0
  <2>2. /\ h[i] = [from |-> from, id |-> id, part |-> i]
        /\ h[i + 1] = [from |-> from, id |-> id, part |-> i + 1]
    BY <2>1, <1>1
  <2> QED BY <2>1, <2>2 DEF Follows
<1>6. Whole(h)
  BY <1>3, <1>4, <1>5 DEF Whole
<1>7. InSentOrder(h)
  <2>1. DOMAIN h = 1..HdrUnits
    BY <1>3, UnitsOf
  <2> QED BY <2>1, <1>1 DEF InSentOrder, Precedes
<1> QED BY <1>1, <1>3, <1>6, <1>7 DEF h

\* One FIFO's content behind another's.
LEMMA Joined ==
  ASSUME NEW q, NEW r, Whole(q), Whole(r), InSentOrder(q), InSentOrder(r), AllBefore(q, r)
  PROVE  /\ Whole(q \o r) /\ InSentOrder(q \o r) /\ Len(q \o r) = Len(q) + Len(r)
         /\ \A i \in DOMAIN (q \o r) : \/ i \in DOMAIN q /\ (q \o r)[i] = q[i]
                                       \/ i - Len(q) \in DOMAIN r /\ (q \o r)[i] = r[i - Len(q)]
<1> DEFINE t == q \o r
<1>1. /\ q \in Seq(Unit) /\ r \in Seq(Unit)
      /\ q # <<>> => q[1].part = 1 /\ q[Len(q)].part = HdrUnits
      /\ r # <<>> => r[1].part = 1 /\ r[Len(r)].part = HdrUnits
      /\ \A i \in 1..(Len(q) - 1) : Follows(q[i], q[i + 1])
      /\ \A i \in 1..(Len(r) - 1) : Follows(r[i], r[i + 1])
  BY DEF Whole
<1>2. /\ Len(q) \in Nat /\ DOMAIN q = 1..Len(q) /\ (q = <<>> <=> Len(q) = 0)
      /\ Len(r) \in Nat /\ DOMAIN r = 1..Len(r) /\ (r = <<>> <=> Len(r) = 0)
  BY <1>1, UnitsOf
<1>3. t \in Seq(Unit) /\ Len(t) = Len(q) + Len(r)
      /\ \A i \in 1..(Len(q) + Len(r)) : t[i] = IF i <= Len(q) THEN q[i] ELSE r[i - Len(q)]
  BY <1>1, ConcatProperties
<1>4. DOMAIN t = 1..(Len(q) + Len(r)) /\ (t = <<>> <=> Len(t) = 0)
  BY <1>3, UnitsOf
<1> HIDE DEF t
<1>5. /\ \A i \in 1..Len(q) : i \in 1..(Len(q) + Len(r)) /\ t[i] = q[i]
      /\ \A i \in 1..Len(r) : Len(q) + i \in 1..(Len(q) + Len(r)) /\ t[Len(q) + i] = r[i]
  BY ONLY <1>2, <1>3
<1>6. \A i \in DOMAIN t : \/ i \in 1..Len(q) /\ t[i] = q[i]
                          \/ i - Len(q) \in 1..Len(r) /\ t[i] = r[i - Len(q)]
  BY ONLY <1>2, <1>3, <1>4
<1>7. t # <<>> => t[1].part = 1 /\ t[Len(t)].part = HdrUnits
  <2>1. ASSUME Len(t) # 0 PROVE t[1].part = 1
    <3>1. CASE Len(q) = 0
      <4>1. t[1] = r[1] /\ r # <<>>
        BY ONLY <3>1, <2>1, <1>2, <1>3
      <4> QED BY <4>1, <1>1
    <3>2. CASE Len(q) # 0
      <4>1. t[1] = q[1] /\ q # <<>>
        BY ONLY <3>2, <1>2, <1>5
      <4> QED BY <4>1, <1>1
    <3> QED BY <3>1, <3>2
  <2>2. ASSUME Len(t) # 0 PROVE t[Len(t)].part = HdrUnits
    <3>1. CASE Len(r) = 0
      <4>1. t[Len(t)] = q[Len(q)] /\ q # <<>>
        BY ONLY <3>1, <2>2, <1>2, <1>3
      <4> QED BY <4>1, <1>1
    <3>2. CASE Len(r) # 0
      <4>1. t[Len(t)] = r[Len(r)] /\ r # <<>>
        BY ONLY <3>2, <1>2, <1>3
      <4> QED BY <4>1, <1>1
    <3> QED BY <3>1, <3>2
  <2> QED BY <2>1, <2>2, <1>4
<1>8. \A i \in 1..(Len(t) - 1) : Follows(t[i], t[i + 1])
  <2> SUFFICES ASSUME NEW i \in 1..(Len(t) - 1) PROVE Follows(t[i], t[i + 1])
    OBVIOUS
  <2>1. CASE i < Len(q)
    <3>1. i \in 1..(Len(q) - 1) /\ t[i] = q[i] /\ t[i + 1] = q[i + 1]
      BY ONLY <2>1, <1>2, <1>3, i \in 1..(Len(t) - 1)
    <3> QED BY <3>1, <1>1
  <2>2. CASE i = Len(q)
    <3>1. t[i] = q[Len(q)] /\ t[i + 1] = r[1] /\ q # <<>> /\ r # <<>>
      BY ONLY <2>2, <1>2, <1>3, i \in 1..(Len(t) - 1)
    <3>2. t[i].part = HdrUnits /\ t[i + 1].part = 1
      BY <3>1, <1>1
    <3> QED BY <3>2 DEF Follows
  <2>3. CASE i > Len(q)
    <3>1. i - Len(q) \in 1..(Len(r) - 1) /\ t[i] = r[i - Len(q)] /\ t[i + 1] = r[(i - Len(q)) + 1]
      BY ONLY <2>3, <1>2, <1>3, i \in 1..(Len(t) - 1)
    <3> QED BY <3>1, <1>1
  <2>4. i < Len(q) \/ i = Len(q) \/ i > Len(q)
    <3>1. i \in Int /\ Len(q) \in Int
      BY <1>2
    <3> QED BY ONLY <3>1
  <2> QED BY <2>1, <2>2, <2>3, <2>4
<1>9. InSentOrder(t)
  <2> SUFFICES ASSUME NEW i \in DOMAIN t, NEW j \in DOMAIN t, i < j, Own(t[i]), Own(t[j])
               PROVE  Precedes(t[i], t[j])
    BY DEF InSentOrder
  <2>1. CASE i \in 1..Len(q) /\ j \in 1..Len(q)
    <3>1. t[i] = q[i] /\ t[j] = q[j]
      BY <2>1, <1>5
    <3> QED BY <3>1, <2>1, <1>2 DEF InSentOrder
  <2>2. CASE i \in 1..Len(q) /\ j \notin 1..Len(q)
    <3>1. t[i] = q[i] /\ j - Len(q) \in DOMAIN r /\ t[j] = r[j - Len(q)]
      BY <2>2, <1>2, <1>5, <1>6
    <3>2. t[i].id < t[j].id
      BY <3>1, <2>2, <1>2 DEF AllBefore
    <3> QED BY <3>2 DEF Precedes
  <2>3. CASE i \notin 1..Len(q) /\ j \notin 1..Len(q)
    <3>1. /\ i - Len(q) \in DOMAIN r /\ t[i] = r[i - Len(q)]
          /\ j - Len(q) \in DOMAIN r /\ t[j] = r[j - Len(q)]
      BY <2>3, <1>2, <1>6
    <3>2. i - Len(q) < j - Len(q)
      BY <1>2, <1>4
    <3> QED BY <3>1, <3>2 DEF InSentOrder
  <2>4. ~(i \notin 1..Len(q) /\ j \in 1..Len(q))
    BY <1>2, <1>4
  <2> QED BY <2>1, <2>2, <2>3, <2>4
<1>10. Whole(t)
  BY <1>3, <1>7, <1>8, SMTT(30) DEF Whole
<1> QED BY <1>2, <1>3, <1>6, <1>9, <1>10 DEF t

\* What a read of a header takes from a FIFO, and what it leaves.
LEMMA Taken ==
  ASSUME ReflAssumption, NEW q, Whole(q), InSentOrder(q), q # <<>>
  PROVE  LET rest == SubSeq(q, HdrUnits + 1, Len(q))
         IN  /\ Len(q) >= HdrUnits /\ SubSeq(q, 1, HdrUnits) = Header(q[1].from, q[1].id)
             /\ q[1] \in Unit /\ 1 \in DOMAIN q
             /\ Whole(rest) /\ InSentOrder(rest)
             /\ \A i \in DOMAIN rest : i + HdrUnits \in DOMAIN q /\ rest[i] = q[i + HdrUnits]
             /\ Own(q[1]) => OwnAbove(rest, q[1].id)
<1> DEFINE rest == SubSeq(q, HdrUnits + 1, Len(q))
           hd == SubSeq(q, 1, HdrUnits)
<1>0. HdrUnits \in Nat \ {0}
  BY DEF ReflAssumption
<1>1. /\ q \in Seq(Unit) /\ q[1].part = 1 /\ q[Len(q)].part = HdrUnits
      /\ \A i \in 1..(Len(q) - 1) : Follows(q[i], q[i + 1])
  BY DEF Whole
<1>2. Len(q) \in Nat \ {0} /\ DOMAIN q = 1..Len(q) /\ \A i \in 1..Len(q) : q[i] \in Unit
  BY <1>1, UnitsOf
<1>3. q[1] \in Unit /\ 1 \in DOMAIN q
  BY <1>2
<1> DEFINE Right(k) == /\ k + 1 <= Len(q) /\ q[k + 1].part = k + 1
                       /\ q[k + 1].from = q[1].from /\ q[k + 1].id = q[1].id
           T == {k \in Nat : k < HdrUnits => Right(k)}
<1>4. T = Nat
  <2>1. 0 \in T
    BY <1>0, <1>1, <1>2
  <2>2. ASSUME NEW k \in T PROVE k + 1 \in T
    <3>1. k \in Nat /\ (k < HdrUnits => Right(k))
      OBVIOUS
    <3>2. ASSUME k + 1 < HdrUnits PROVE Right(k + 1)
      <4>1. k + 1 <= Len(q) /\ q[k + 1].part = k + 1 /\ q[k + 1].from = q[1].from /\ q[k + 1].id = q[1].id
        BY <3>1, <3>2, <1>0
      <4>2. k + 1 # Len(q)
        BY <4>1, <3>2, <1>1, <1>0, <3>1
      <4>3. k + 1 \in 1..(Len(q) - 1)
        <5>1. k + 1 <= Len(q)
          BY <4>1
        <5>2. k \in Nat /\ Len(q) \in Nat
          BY <3>1, <1>2
        <5> QED BY ONLY <5>1, <5>2, <4>2
      <4>4. Follows(q[k + 1], q[k + 2])
        <5>1. (k + 1) + 1 = k + 2
          BY <3>1
        <5> QED BY <4>3, <5>1, <1>1
      <4>5. q[k + 1].part # HdrUnits
        BY <4>1, <3>1, <3>2, <1>0
      <4>6. q[k + 2].part = (k + 1) + 1 /\ q[k + 2].from = q[1].from /\ q[k + 2].id = q[1].id
        BY <4>1, <4>4, <4>5 DEF Follows
      <4>7. (k + 1) + 1 = k + 2 /\ (k + 1) + 1 <= Len(q)
        BY ONLY <4>3, <3>1, <1>2
      <4> QED BY <4>6, <4>7
    <3> QED BY <3>1, <3>2
  <2> HIDE DEF T
  <2>3. T \in SUBSET Nat
    BY DEF T
  <2> QED BY <2>1, <2>2, <2>3, NatInd
<1>5. \A k \in 1..HdrUnits : k <= Len(q) /\ q[k] = [from |-> q[1].from, id |-> q[1].id, part |-> k]
  <2> SUFFICES ASSUME NEW k \in 1..HdrUnits
               PROVE  k <= Len(q) /\ q[k] = [from |-> q[1].from, id |-> q[1].id, part |-> k]
    OBVIOUS
  <2>1. k - 1 \in Nat /\ k - 1 < HdrUnits /\ (k - 1) + 1 = k
    BY <1>0
  <2>2. Right(k - 1)
    <3>1. k - 1 \in T
      BY <2>1, <1>4
    <3> QED BY <3>1, <2>1
  <2>3. k <= Len(q) /\ q[k].part = k /\ q[k].from = q[1].from /\ q[k].id = q[1].id
    BY <2>1, <2>2
  <2>4. q[k] \in Unit
    BY <2>3, <1>2, <1>0
  <2> QED BY <2>3, <2>4 DEF Unit
<1>6. Len(q) >= HdrUnits
  <2>1. HdrUnits \in 1..HdrUnits
    BY <1>0
  <2> QED BY <2>1, <1>0, <1>2, <1>5
<1>7. hd = Header(q[1].from, q[1].id)
  <2>1. q[1].from \in {"self", "other"} /\ q[1].id \in Nat
    BY <1>3 DEF Unit
  <2>2. /\ hd \in Seq(Unit) /\ Len(hd) = HdrUnits /\ \A i \in 1..HdrUnits : hd[i] = q[i]
    <3>1. \A i \in 1..HdrUnits : q[i] \in Unit /\ (1 + i) - 1 = i
      <4> SUFFICES ASSUME NEW i \in 1..HdrUnits PROVE q[i] \in Unit /\ (1 + i) - 1 = i
        OBVIOUS
      <4>1. i <= Len(q) /\ i \in Nat /\ i >= 1
        <5>1. i <= Len(q)
          BY ONLY <1>5, i \in 1..HdrUnits
        <5>2. i \in Nat /\ i >= 1
          BY ONLY <1>0, i \in 1..HdrUnits
        <5> QED BY ONLY <5>1, <5>2
      <4>2. i \in 1..Len(q) /\ (1 + i) - 1 = i
        BY ONLY <4>1, <1>2
      <4> QED BY ONLY <4>2, <1>2
    <3>2. 1 \in Int /\ HdrUnits \in Int /\ (HdrUnits - 1) + 1 = HdrUnits /\ 1 <= HdrUnits
      BY <1>0
    <3>3. /\ hd \in Seq(Unit) /\ Len(hd) = IF 1 <= HdrUnits THEN (HdrUnits - 1) + 1 ELSE 0
          /\ \A i \in 1..((HdrUnits - 1) + 1) : hd[i] = q[(1 + i) - 1]
      BY <3>1, <3>2, SubSeqProperties
    <3> HIDE DEF hd
    <3> QED BY ONLY <3>1, <3>2, <3>3
  <2>3. /\ Header(q[1].from, q[1].id) \in Seq(Unit) /\ Len(Header(q[1].from, q[1].id)) = HdrUnits
        /\ \A k \in 1..HdrUnits : Header(q[1].from, q[1].id)[k]
                = [from |-> q[1].from, id |-> q[1].id, part |-> k]
    BY <2>1, HeaderIs
  <2> HIDE DEF hd
  <2>4. \A i \in 1..Len(hd) : hd[i] = Header(q[1].from, q[1].id)[i]
    BY <2>2, <2>3, <1>5
  <2> QED BY <2>2, <2>3, <2>4, SeqEqual
<1>8. /\ rest \in Seq(Unit) /\ Len(rest) = Len(q) - HdrUnits
      /\ \A i \in 1..(Len(q) - HdrUnits) : rest[i] = q[i + HdrUnits]
  <2>1. \A i \in (HdrUnits + 1)..Len(q) : q[i] \in Unit
    BY <1>0, <1>2
  <2>2. HdrUnits + 1 \in Int /\ Len(q) \in Int
    BY <1>0, <1>2
  <2>3. /\ rest \in Seq(Unit)
        /\ Len(rest) = IF HdrUnits + 1 <= Len(q) THEN Len(q) - (HdrUnits + 1) + 1 ELSE 0
        /\ \A i \in 1..(Len(q) - (HdrUnits + 1) + 1) : rest[i] = q[(HdrUnits + 1) + i - 1]
    BY <2>1, <2>2, SubSeqProperties
  <2> HIDE DEF rest
  <2>4. Len(q) - (HdrUnits + 1) + 1 = Len(q) - HdrUnits
    BY <1>0, <1>2
  <2>5. Len(rest) = Len(q) - HdrUnits
    <3>1. HdrUnits + 1 <= Len(q) \/ (~(HdrUnits + 1 <= Len(q)) /\ Len(q) - HdrUnits = 0)
      <4>1. Len(q) \in Nat /\ HdrUnits \in Nat
        BY <1>0, <1>2
      <4> QED BY ONLY <4>1, <1>6
    <3> QED BY ONLY <3>1, <2>3, <2>4
  <2>6. \A i \in 1..(Len(q) - HdrUnits) : (HdrUnits + 1) + i - 1 = i + HdrUnits
    BY <1>0, <1>2
  <2> QED BY <2>3, <2>4, <2>5, <2>6
<1> HIDE DEF rest, hd
<1>9. /\ DOMAIN rest = 1..Len(rest) /\ (rest = <<>> <=> Len(rest) = 0)
      /\ \A i \in 1..Len(rest) : i + HdrUnits \in 1..Len(q) /\ rest[i] = q[i + HdrUnits]
  <2>1. DOMAIN rest = 1..Len(rest) /\ (rest = <<>> <=> Len(rest) = 0)
    BY <1>8, UnitsOf
  <2>2. \A i \in 1..Len(rest) : i + HdrUnits \in 1..Len(q)
    BY <1>8, <1>0, <1>2
  <2> QED BY <2>1, <2>2, <1>8
<1>10. Whole(rest)
  <2>1. rest # <<>> => rest[1].part = 1 /\ rest[Len(rest)].part = HdrUnits
    <3>1. SUFFICES ASSUME Len(rest) # 0 PROVE rest[1].part = 1 /\ rest[Len(rest)].part = HdrUnits
      BY <1>9
    <3>2. /\ 1 \in 1..Len(rest) /\ Len(rest) \in 1..Len(rest) /\ Len(rest) + HdrUnits = Len(q)
          /\ HdrUnits \in 1..HdrUnits /\ HdrUnits \in 1..(Len(q) - 1) /\ 1 + HdrUnits = HdrUnits + 1
      BY <3>1, <1>8, <1>6, <1>0, <1>2
    <3>3. rest[1] = q[HdrUnits + 1] /\ rest[Len(rest)] = q[Len(q)]
      BY <3>2, <1>9
    <3>4. q[HdrUnits].part = HdrUnits /\ Follows(q[HdrUnits], q[HdrUnits + 1])
      <4>1. q[HdrUnits] = [from |-> q[1].from, id |-> q[1].id, part |-> HdrUnits]
        BY ONLY <3>2, <1>5
      <4>2. Follows(q[HdrUnits], q[HdrUnits + 1])
        BY ONLY <3>2, <1>1
      <4> QED BY <4>1, <4>2
    <3> QED BY <3>3, <3>4, <1>1 DEF Follows
  <2>2. \A i \in 1..(Len(rest) - 1) : Follows(rest[i], rest[i + 1])
    <3> SUFFICES ASSUME NEW i \in 1..(Len(rest) - 1) PROVE Follows(rest[i], rest[i + 1])
      OBVIOUS
    <3>1. /\ i \in 1..Len(rest) /\ i + 1 \in 1..Len(rest) /\ i + HdrUnits \in 1..(Len(q) - 1)
          /\ (i + 1) + HdrUnits = (i + HdrUnits) + 1
      BY <1>8, <1>0, <1>2
    <3>2. rest[i] = q[i + HdrUnits] /\ rest[i + 1] = q[(i + HdrUnits) + 1]
      BY <3>1, <1>9
    <3> QED BY <3>1, <3>2, <1>1
  <2> QED BY <2>1, <2>2, <1>8 DEF Whole
<1>11. InSentOrder(rest)
  <2> SUFFICES ASSUME NEW i \in DOMAIN rest, NEW j \in DOMAIN rest, i < j, Own(rest[i]), Own(rest[j])
               PROVE  Precedes(rest[i], rest[j])
    BY DEF InSentOrder
  <2>1. /\ rest[i] = q[i + HdrUnits] /\ rest[j] = q[j + HdrUnits]
        /\ i + HdrUnits \in DOMAIN q /\ j + HdrUnits \in DOMAIN q
    BY <1>9, <1>2
  <2>2. i + HdrUnits < j + HdrUnits
    BY <1>0, <1>8, <1>9, <1>2
  <2> QED BY <2>1, <2>2 DEF InSentOrder
<1>12. ASSUME Own(q[1]) PROVE OwnAbove(rest, q[1].id)
  <2> SUFFICES ASSUME NEW i \in DOMAIN rest, Own(rest[i]) PROVE rest[i].id > q[1].id
    BY DEF OwnAbove
  <2>1. i + HdrUnits \in DOMAIN q /\ rest[i] = q[i + HdrUnits] /\ rest[i] \in Unit
    BY <1>9, <1>2
  <2>2. HdrUnits \in DOMAIN q /\ HdrUnits < i + HdrUnits /\ HdrUnits \in 1..HdrUnits
    <3>1. i \in Nat /\ i >= 1
      BY <1>8, <1>9, <1>0, <1>2
    <3> QED BY ONLY <3>1, <1>0, <1>2, <1>6
  <2>3. q[HdrUnits].part = HdrUnits /\ q[HdrUnits].from = q[1].from /\ q[HdrUnits].id = q[1].id
    <3>1. q[HdrUnits] = [from |-> q[1].from, id |-> q[1].id, part |-> HdrUnits]
      BY ONLY <2>2, <1>5
    <3> QED BY <3>1
  <2>4. Precedes(q[HdrUnits], q[i + HdrUnits])
    BY <2>1, <2>2, <2>3, <1>12 DEF InSentOrder, Own
  <2>5. rest[i].id \in Nat /\ q[1].id \in Nat /\ rest[i].part <= HdrUnits /\ rest[i].part \in Nat
    BY <2>1, <1>0, <1>3 DEF Unit
  <2> QED BY <2>1, <2>3, <2>4, <2>5, <1>0 DEF Precedes
<1> QED BY <1>2, <1>3, <1>6, <1>7, <1>9, <1>10, <1>11, <1>12 DEF rest, hd

LEMMA NoUnits ==
  /\ <<>> \in Seq(Unit) /\ Len(<<>>) = 0 /\ Whole(<<>>) /\ InSentOrder(<<>>)
  /\ \A n : OwnBelow(<<>>, n) /\ OwnAbove(<<>>, n)
  /\ \A q : AllBefore(<<>>, q) /\ AllBefore(q, <<>>)
<1>1. <<>> \in Seq(Unit) /\ Len(<<>>) = 0
  BY EmptySeq
<1>2. DOMAIN <<>> = {}
  BY <1>1, UnitsOf
<1>3. Whole(<<>>)
  <2>1. 1..(Len(<<>>) - 1) = {}
    BY <1>1
  <2> QED BY <2>1, <1>1 DEF Whole
<1> QED BY <1>1, <1>2, <1>3 DEF InSentOrder, OwnBelow, OwnAbove, AllBefore

------------------------------------------------------------------------------
(* The reflector: what has come back *)

LEMMA Timed ==
  ASSUME NEW h \in Nat, NEW x \in Nat, NEW y \in Nat, x <= y PROVE h * x <= h * y
<1>1. PICK d \in Nat : y = x + d
  <2>1. y - x \in Nat /\ y = x + (y - x)
    OBVIOUS
  <2> QED BY <2>1
<1>2. h * (x + d) = h * x + h * d /\ h * d >= 0 /\ h * x \in Int /\ h * d \in Int
  OBVIOUS
<1> QED BY <1>1, <1>2

LEMMA ReceivedIs ==
  ASSUME ReflAssumption, ReflTypes
  PROVE  /\ Back \subseteq 1..Len(received) /\ IsFiniteSet(Back) /\ Cardinality(Back) \in Nat
         /\ \A i \in DOMAIN received : /\ received[i] = Header(received[i][1].from, received[i][1].id)
                                       /\ received[i][1].id \in Nat
<1>1. Back \subseteq 1..Len(received) /\ Len(received) \in Nat
  <2>1. received \in Seq(Seq(Unit))
    BY DEF ReflTypes
  <2> QED BY <2>1, LenProperties DEF Back
<1>2. IsFiniteSet(Back)
  <2>1. IsFiniteSet(1..Len(received))
    <3>1. 1 \in Int /\ Len(received) \in Int
      BY <1>1
    <3> QED BY <3>1, FS_Interval
  <2> QED BY <2>1, <1>1, FS_Subset
<1>3. Cardinality(Back) \in Nat
  BY <1>2, FS_CardinalityType
<1>4. ASSUME NEW i \in DOMAIN received
      PROVE  received[i] = Header(received[i][1].from, received[i][1].id) /\ received[i][1].id \in Nat
  <2>1. PICK from \in {"self", "other"}, id \in Nat : received[i] = Header(from, id)
    BY <1>4 DEF ReflTypes
  <2>2. 1 \in 1..HdrUnits
    BY DEF ReflAssumption
  <2>3. received[i][1] = [from |-> from, id |-> id, part |-> 1]
    BY <2>1, <2>2 DEF Header
  <2>4. received[i][1].from = from /\ received[i][1].id = id
    BY <2>3
  <2> QED BY <2>1, <2>4
<1> QED BY <1>1, <1>2, <1>3, <1>4

\* The reflector never holds more than a read of dummyChild takes.
LEMMA OneReadTakesAll ==
  ASSUME ReflAssumption, SelfWindow * HdrUnits <= ChunkUnits, ReflTypes, ComeBack,
         Waiting <= SelfWindow, NEW a, Reflects(a)
  PROVE  /\ a \in 0..sentSelf /\ sentSelf \in Nat /\ Len(reflector) \in Nat
         /\ Len(reflector) <= ChunkUnits
<1>1. sentSelf \in Nat /\ a \in 0..sentSelf /\ Len(reflector) = HdrUnits * (sentSelf - a)
  BY DEF Reflects, ReflTypes
<1>2. HdrUnits \in Nat /\ SelfWindow \in Nat /\ ChunkUnits \in Nat
  BY DEF ReflAssumption
<1>3. Cardinality(Back) <= a
  <2> DEFINE f == [i \in Back |-> received[i][1].id]
  <2>1. \A i \in Back : received[i][1].id \in 1..a
    <3>1. \A i \in Back : /\ received[i][1].id \in Nat /\ received[i][1].id > 0
                          /\ received[i][1].id <= a
      <4>1. \A i \in Back : received[i][1].id \in Nat
        BY ReceivedIs DEF Back
      <4>2. \A i \in Back : received[i][1].id > 0
        BY DEF ComeBack
      <4>3. \A i \in Back : received[i][1].id <= a
        BY DEF Reflects
      <4> QED BY <4>1, <4>2, <4>3
    <3> QED BY SMTT(30), <3>1, <1>1
  <2>2. f \in [Back -> 1..a]
    BY <2>1
  <2>3. \A i, j \in Back : f[i] = f[j] => i = j
    <3>1. \A i, j \in Back : i < j \/ j < i \/ i = j
      <4>1. \A i \in Back : i \in Int
        BY ReceivedIs
      <4> QED BY ONLY <4>1
    <3>2. \A i, j \in Back : i < j => received[i][1].id < received[j][1].id
      BY DEF ComeBack
    <3>3. \A i \in Back : f[i] = received[i][1].id /\ f[i] \in Int
      BY <2>2, <1>1
    <3> HIDE DEF f
    <3> QED BY ONLY <3>1, <3>2, <3>3
  <2> HIDE DEF f
  <2>4. f \in Injection(Back, 1..a)
    BY <2>2, <2>3 DEF Injection, IsInjective
  <2>5. IsFiniteSet(1..a) /\ Cardinality(1..a) = a
    <3>1. 1 \in Int /\ a \in Int /\ (IF 1 > a THEN 0 ELSE a - 1 + 1) = a
      BY <1>1
    <3> QED BY <3>1, FS_Interval
  <2> QED BY <2>4, <2>5, FS_Injection
<1>4. sentSelf - a \in Nat /\ sentSelf - a <= SelfWindow
  <2>1. sentSelf - Cardinality(Back) <= SelfWindow /\ Cardinality(Back) \in Nat
    BY ReceivedIs DEF Waiting
  <2> QED BY <2>1, <1>1, <1>2, <1>3
<1>5. HdrUnits * (sentSelf - a) <= HdrUnits * SelfWindow
  BY ONLY <1>2, <1>4, Timed
<1>6. HdrUnits * SelfWindow = SelfWindow * HdrUnits /\ HdrUnits * (sentSelf - a) \in Nat
      /\ SelfWindow * HdrUnits \in Nat
  BY ONLY <1>2, <1>4
<1> HIDE DEF Waiting
<1>7. Len(reflector) \in Nat /\ Len(reflector) <= ChunkUnits
  BY ONLY <1>1, <1>2, <1>5, <1>6, SelfWindow * HdrUnits <= ChunkUnits
<1> QED BY <1>1, <1>7

LEMMA ReflStarts == ASSUME ReflAssumption, ReflInit PROVE ReflInv
<1>1. /\ reflector = <<>> /\ ownFifo = <<>> /\ childHas = <<>> /\ received = <<>>
      /\ sentSelf = 0 /\ sentOther = 0
  BY DEF ReflInit
<1>2. ReflTypes /\ Back = {}
  <2>1. received \in Seq(Seq(Unit)) /\ DOMAIN received = {}
    <3>1. received \in Seq(Seq(Unit)) /\ Len(received) = 0
      BY <1>1, EmptySeq
    <3> QED BY <3>1, LenProperties
  <2> QED BY <2>1, <1>1 DEF ReflTypes, Back
<1>3. Waiting <= SelfWindow
  BY <1>1, <1>2, FS_EmptySet DEF Waiting, ReflAssumption
<1>4. ComeBack
  BY <1>1, <1>2, NoUnits DEF ComeBack
<1>5. Reflects(0)
  <2>1. HdrUnits * (0 - 0) = 0
    BY DEF ReflAssumption
  <2> QED BY <1>1, <1>2, <2>1, NoUnits DEF Reflects
<1>6. 0 \in 0..sentSelf
  BY <1>1
<1> QED BY <1>1, <1>2, <1>3, <1>4, <1>5, <1>6, NoUnits DEF ReflInv

------------------------------------------------------------------------------
(* The reflector: one lemma per step *)

\* What is to be shown after a step.
ReflKept(a) ==
    /\ ReflTypes
    /\ Whole(reflector) /\ Whole(childHas) /\ Whole(ownFifo)
    /\ InSentOrder(reflector) /\ InSentOrder(childHas) /\ InSentOrder(ownFifo)
    /\ AllBefore(ownFifo, childHas)
    /\ ComeBack /\ Waiting <= SelfWindow /\ Reflects(a)

LEMMA KeptIsInv == ASSUME NEW a, ReflKept(a) PROVE ReflInv
BY DEF ReflKept, ReflInv, Reflects

LEMMA KeptAfter == ASSUME NEW a, ReflKept(a)' PROVE ReflInv'
BY DEF ReflKept, ReflInv, Reflects

\* What OwnBelow and OwnAbove say of a FIFO behind another.
LEMMA JoinedBounds ==
  ASSUME NEW q, NEW r, NEW n, OwnBelow(q, n), OwnBelow(r, n),
         \A i \in DOMAIN (q \o r) : \/ i \in DOMAIN q /\ (q \o r)[i] = q[i]
                                    \/ i - Len(q) \in DOMAIN r /\ (q \o r)[i] = r[i - Len(q)]
  PROVE  OwnBelow(q \o r, n)
BY DEF OwnBelow

LEMMA JoinedAbove ==
  ASSUME NEW q, NEW r, NEW n, OwnAbove(q, n), OwnAbove(r, n),
         \A i \in DOMAIN (q \o r) : \/ i \in DOMAIN q /\ (q \o r)[i] = q[i]
                                    \/ i - Len(q) \in DOMAIN r /\ (q \o r)[i] = r[i - Len(q)]
  PROVE  OwnAbove(q \o r, n)
BY DEF OwnAbove

LEMMA Rises ==
  ASSUME NEW q, Whole(q), NEW m \in Int, NEW n \in Int, m <= n
  PROVE  (OwnBelow(q, m) => OwnBelow(q, n)) /\ (OwnAbove(q, n) => OwnAbove(q, m))
<1>1. \A i \in DOMAIN q : q[i].id \in Int
  <2>1. q \in Seq(Unit)
    BY DEF Whole
  <2> QED BY <2>1, UnitIds
<1> QED BY <1>1 DEF OwnBelow, OwnAbove

LEMMA Between ==
  ASSUME NEW q, NEW r, Whole(q), Whole(r), NEW n \in Int, OwnBelow(q, n), OwnAbove(r, n)
  PROVE  AllBefore(q, r)
<1>1. (\A i \in DOMAIN q : q[i].id \in Int) /\ \A i \in DOMAIN r : r[i].id \in Int
  <2>1. q \in Seq(Unit) /\ r \in Seq(Unit)
    BY DEF Whole
  <2> QED BY <2>1, UnitIds
<1> QED BY <1>1 DEF OwnBelow, OwnAbove, AllBefore

LEMMA SelfSendKeeps ==
  ASSUME ReflAssumption, NEW a, ReflKept(a), SelfSend PROVE ReflKept(a)'
<1> DEFINE h == Header("self", sentSelf + 1)
<1>1. /\ reflector' = reflector \o h /\ sentSelf' = sentSelf + 1 /\ Waiting < SelfWindow
      /\ UNCHANGED <<ownFifo, childHas, sentOther, received>>
  BY DEF SelfSend
<1>2. sentSelf \in Nat /\ sentSelf + 1 \in Nat /\ a \in 0..sentSelf /\ HdrUnits \in Nat \ {0}
      /\ Len(reflector) = HdrUnits * (sentSelf - a)
  BY DEF ReflKept, ReflTypes, Reflects, ReflAssumption
<1>3. /\ h \in Seq(Unit) /\ Len(h) = HdrUnits /\ Whole(h) /\ InSentOrder(h)
      /\ \A k \in 1..HdrUnits : h[k] = [from |-> "self", id |-> sentSelf + 1, part |-> k]
  BY <1>2, HeaderIs
<1>4. \A k \in DOMAIN h : h[k].id = sentSelf + 1
  <2>1. DOMAIN h = 1..HdrUnits
    BY <1>3, UnitsOf
  <2> HIDE DEF h
  <2>2. ASSUME NEW k \in DOMAIN h PROVE h[k].id = sentSelf + 1
    <3>1. h[k] = [from |-> "self", id |-> sentSelf + 1, part |-> k]
      BY <2>1, <1>3
    <3> QED BY <3>1
  <2> QED BY <2>2
<1> HIDE DEF h
<1>5. OwnAbove(h, sentSelf) /\ OwnAbove(h, a) /\ OwnBelow(h, sentSelf + 1)
  BY <1>2, <1>4 DEF OwnAbove, OwnBelow
<1>6. /\ Whole(reflector) /\ InSentOrder(reflector)
      /\ OwnBelow(reflector, sentSelf) /\ OwnAbove(reflector, a)
  BY DEF ReflKept, Reflects
<1>7. AllBefore(reflector, h)
  BY <1>2, <1>3, <1>5, <1>6, Between
<1>8. /\ Whole(reflector') /\ InSentOrder(reflector') /\ Len(reflector') = Len(reflector) + HdrUnits
      /\ \A i \in DOMAIN (reflector \o h) :
            \/ i \in DOMAIN reflector /\ (reflector \o h)[i] = reflector[i]
            \/ i - Len(reflector) \in DOMAIN h /\ (reflector \o h)[i] = h[i - Len(reflector)]
  BY <1>1, <1>3, <1>6, <1>7, Joined
<1>9. OwnAbove(reflector', a) /\ OwnBelow(reflector', sentSelf')
  <2>1. OwnBelow(reflector, sentSelf + 1)
    BY <1>2, <1>6, Rises
  <2>2. OwnBelow(reflector \o h, sentSelf + 1)
    BY <2>1, <1>5, <1>8, JoinedBounds
  <2>3. OwnAbove(reflector \o h, a)
    BY <1>5, <1>6, <1>8, JoinedAbove
  <2> QED BY <2>2, <2>3, <1>1
<1>10. Len(reflector') = HdrUnits * (sentSelf' - a) /\ a \in 0..sentSelf'
  <2>1. HdrUnits * ((sentSelf + 1) - a) = HdrUnits * (sentSelf - a) + HdrUnits
    BY ONLY <1>2
  <2> QED BY <2>1, <1>1, <1>2, <1>8
<1>11. Reflects(a)'
  <2>1. OwnBelow(childHas, a) /\ OwnBelow(ownFifo, a) /\ \A i \in Back : received[i][1].id <= a
    BY DEF ReflKept, Reflects
  <2> QED BY <2>1, <1>1, <1>9, <1>10 DEF Reflects, Back
<1>12. Waiting' <= SelfWindow
  <2>1. Cardinality(Back)' = Cardinality(Back) /\ Cardinality(Back) \in Nat
    BY <1>1, ReceivedIs DEF Back, ReflKept
  <2>2. sentSelf - Cardinality(Back) < SelfWindow /\ SelfWindow \in Nat
    BY <1>1 DEF Waiting, ReflAssumption
  <2> QED BY <2>1, <2>2, <1>1, <1>2 DEF Waiting
<1>13. ReflTypes' /\ ComeBack'
  BY <1>1, <1>2 DEF ReflKept, ReflTypes, ComeBack, Back
<1> QED BY <1>1, <1>8, <1>11, <1>12, <1>13 DEF ReflKept

LEMMA OtherSendKeeps ==
  ASSUME ReflAssumption, NEW a, ReflKept(a), OtherSend PROVE ReflKept(a)'
<1> DEFINE h == Header("other", sentOther + 1)
<1>1. /\ ownFifo' = ownFifo \o h /\ sentOther' = sentOther + 1
      /\ UNCHANGED <<reflector, childHas, sentSelf, received>>
  BY DEF OtherSend
<1>2. sentOther + 1 \in Nat
  BY DEF ReflKept, ReflTypes
<1>3. /\ h \in Seq(Unit) /\ Len(h) = HdrUnits /\ Whole(h) /\ InSentOrder(h)
      /\ \A k \in 1..HdrUnits : h[k] = [from |-> "other", id |-> sentOther + 1, part |-> k]
  BY <1>2, HeaderIs
<1>4. \A k \in DOMAIN h : ~Own(h[k])
  <2>1. DOMAIN h = 1..HdrUnits
    BY <1>3, UnitsOf
  <2>2. \A k \in DOMAIN h : h[k].from = "other"
    <3> HIDE DEF h
    <3>1. ASSUME NEW k \in DOMAIN h PROVE h[k].from = "other"
      <4>1. h[k] = [from |-> "other", id |-> sentOther + 1, part |-> k]
        BY <2>1, <1>3
      <4> QED BY <4>1
    <3> QED BY <3>1
  <2> QED BY <2>2 DEF Own
<1> HIDE DEF h
<1>5. /\ \A n : OwnBelow(h, n) /\ OwnAbove(h, n)
      /\ AllBefore(ownFifo, h) /\ AllBefore(h, childHas)
  BY <1>4 DEF OwnBelow, OwnAbove, AllBefore
<1>6. Whole(ownFifo) /\ InSentOrder(ownFifo) /\ AllBefore(ownFifo, childHas)
  BY DEF ReflKept
<1>7. /\ Whole(ownFifo') /\ InSentOrder(ownFifo')
      /\ \A i \in DOMAIN (ownFifo \o h) :
            \/ i \in DOMAIN ownFifo /\ (ownFifo \o h)[i] = ownFifo[i]
            \/ i - Len(ownFifo) \in DOMAIN h /\ (ownFifo \o h)[i] = h[i - Len(ownFifo)]
  BY <1>1, <1>3, <1>5, <1>6, Joined
<1>8. AllBefore(ownFifo', childHas')
  <2>1. AllBefore(ownFifo \o h, childHas)
    BY <1>4, <1>6, <1>7 DEF AllBefore
  <2> QED BY <2>1, <1>1
<1>9. \A n : OwnBelow(ownFifo, n) => OwnBelow(ownFifo', n)
  BY <1>1, <1>5, <1>7, JoinedBounds
<1>10. \A n : OwnAbove(ownFifo, n) => OwnAbove(ownFifo', n)
  BY <1>1, <1>5, <1>7, JoinedAbove
<1>11. Reflects(a)'
  BY <1>1, <1>9 DEF ReflKept, Reflects, Back
<1>12. Waiting' <= SelfWindow
  BY <1>1 DEF ReflKept, Waiting, Back
<1>13. ReflTypes' /\ ComeBack'
  BY <1>1, <1>2, <1>10 DEF ReflKept, ReflTypes, ComeBack, Back
<1> QED BY <1>1, <1>7, <1>8, <1>11, <1>12, <1>13 DEF ReflKept

LEMMA ReadKeeps ==
  ASSUME ReflAssumption, SelfWindow * HdrUnits <= ChunkUnits, NEW a, ReflKept(a), ChildRead
  PROVE  ReflKept(a)' \/ ReflKept(sentSelf)'
<1>1. /\ childHas = <<>> /\ UNCHANGED <<ownFifo, masterUp, sentSelf, sentOther, received>>
      /\ \/ /\ reflector # <<>>
            /\ childHas' = SubSeq(reflector, 1, ReadSize)
            /\ reflector' = SubSeq(reflector, ReadSize + 1, Len(reflector))
         \/ reflector' = reflector /\ childHas' = childHas
  BY DEF ChildRead
<1>2. CASE reflector' = reflector /\ childHas' = childHas
  BY <1>1, <1>2 DEF ReflKept, ReflTypes, Reflects, ComeBack, Back, Waiting
<1>3. CASE /\ childHas' = SubSeq(reflector, 1, ReadSize)
           /\ reflector' = SubSeq(reflector, ReadSize + 1, Len(reflector))
  <2>1. /\ a \in 0..sentSelf /\ sentSelf \in Nat /\ Len(reflector) \in Nat
        /\ Len(reflector) <= ChunkUnits
    BY OneReadTakesAll DEF ReflKept
  <2>2. ReadSize = Len(reflector)
    BY <2>1 DEF ReadSize, Least, ReflAssumption
  <2>3. reflector \in Seq(Unit)
    BY DEF ReflKept, Whole
  <2>4. childHas' = reflector /\ reflector' = <<>>
    <3>1. Len(reflector) + 1 \in Int /\ Len(reflector) \in Int /\ Len(reflector) < Len(reflector) + 1
      BY <2>1
    <3> QED BY <1>3, <2>2, <2>3, <3>1, SubSeqFull, SubSeqEmpty
  <2>5. /\ Whole(reflector) /\ InSentOrder(reflector) /\ OwnAbove(reflector, a)
        /\ OwnBelow(reflector, sentSelf)
        /\ Whole(ownFifo) /\ InSentOrder(ownFifo) /\ OwnBelow(ownFifo, a)
        /\ \A i \in Back : received[i][1].id <= a
    BY DEF ReflKept, Reflects
  <2>6. a \in Int /\ sentSelf \in Int /\ 0 \in Int /\ 0 <= a /\ a <= sentSelf
    BY <2>1
  <2>7. AllBefore(ownFifo, reflector)
    BY <2>5, <2>6, Between
  <2>8. OwnBelow(ownFifo, sentSelf) /\ OwnAbove(reflector, 0)
    BY <2>5, <2>6, Rises
  <2>9. \A i \in Back : received[i][1].id \in Int /\ received[i][1].id <= sentSelf
                        /\ OwnAbove(reflector, received[i][1].id)
    <3> SUFFICES ASSUME NEW i \in Back
                 PROVE  received[i][1].id \in Int /\ received[i][1].id <= sentSelf
                        /\ OwnAbove(reflector, received[i][1].id)
      OBVIOUS
    <3>1. received[i][1].id \in Int
      BY ReceivedIs DEF Back, ReflKept
    <3>2. received[i][1].id <= a
      BY <2>5
    <3>3. received[i][1].id <= sentSelf
      BY ONLY <3>1, <3>2, <2>6
    <3>4. OwnAbove(reflector, received[i][1].id)
      BY <2>5, <2>6, <3>1, <3>2, Rises
    <3> QED BY <3>1, <3>3, <3>4
  <2>10. Reflects(sentSelf)'
    <3>1. HdrUnits * (sentSelf - sentSelf) = 0 /\ sentSelf \in 0..sentSelf
      BY <2>1 DEF ReflAssumption
    <3>2. Len(reflector') = HdrUnits * (sentSelf' - sentSelf') /\ sentSelf' \in 0..sentSelf'
      BY <3>1, <2>4, <1>1, NoUnits
    <3>3. OwnAbove(reflector', sentSelf') /\ OwnBelow(reflector', sentSelf')
      BY <2>4, NoUnits
    <3>4. OwnBelow(childHas', sentSelf') /\ OwnBelow(ownFifo', sentSelf')
      BY <2>4, <2>5, <2>8, <1>1
    <3>5. \A i \in Back' : received'[i][1].id <= sentSelf'
      BY <2>9, <1>1 DEF Back
    <3> QED BY <3>2, <3>3, <3>4, <3>5 DEF Reflects
  <2>11. ComeBack'
    <3>1. ComeBack
      BY DEF ReflKept
    <3> QED BY <3>1, <2>4, <2>8, <2>9, <1>1 DEF ComeBack, Back
  <2>12. ReflTypes' /\ Waiting' <= SelfWindow
    BY <1>1 DEF ReflKept, ReflTypes, Waiting, Back
  <2>13. Whole(reflector') /\ InSentOrder(reflector') /\ Whole(childHas') /\ InSentOrder(childHas')
         /\ Whole(ownFifo') /\ InSentOrder(ownFifo') /\ AllBefore(ownFifo', childHas')
    BY <2>4, <2>5, <2>7, <1>1, NoUnits
  <2> QED BY <2>10, <2>11, <2>12, <2>13 DEF ReflKept
<1> QED BY <1>1, <1>2, <1>3

LEMMA WriteKeeps ==
  ASSUME ReflAssumption, NEW a, ReflKept(a), ChildWrite PROVE ReflKept(a)'
<1>1. /\ childHas' = <<>> /\ UNCHANGED <<reflector, sentSelf, sentOther, received>>
      /\ ownFifo' = ownFifo \o childHas \/ ownFifo' = ownFifo
  BY DEF ChildWrite, Reflected
<1>2. /\ Whole(ownFifo) /\ Whole(childHas) /\ InSentOrder(ownFifo) /\ InSentOrder(childHas)
      /\ AllBefore(ownFifo, childHas)
  BY DEF ReflKept
<1>3. /\ Whole(ownFifo \o childHas) /\ InSentOrder(ownFifo \o childHas)
      /\ \A i \in DOMAIN (ownFifo \o childHas) :
            \/ i \in DOMAIN ownFifo /\ (ownFifo \o childHas)[i] = ownFifo[i]
            \/ /\ i - Len(ownFifo) \in DOMAIN childHas
               /\ (ownFifo \o childHas)[i] = childHas[i - Len(ownFifo)]
  BY <1>2, Joined
<1>4. \A n : OwnBelow(ownFifo, n) /\ OwnBelow(childHas, n) => OwnBelow(ownFifo', n)
  BY <1>1, <1>3, JoinedBounds
<1>5. \A n : OwnAbove(ownFifo, n) /\ OwnAbove(childHas, n) => OwnAbove(ownFifo', n)
  BY <1>1, <1>3, JoinedAbove
<1>6. Reflects(a)'
  BY <1>1, <1>4, NoUnits DEF ReflKept, Reflects, Back
<1>7. ComeBack'
  BY <1>1, <1>5, NoUnits DEF ReflKept, ComeBack, Back
<1>8. ReflTypes' /\ Waiting' <= SelfWindow
  BY <1>1 DEF ReflKept, ReflTypes, Waiting, Back
<1>9. Whole(ownFifo') /\ InSentOrder(ownFifo')
  BY <1>1, <1>2, <1>3
<1> QED BY <1>1, <1>6, <1>7, <1>8, <1>9, NoUnits DEF ReflKept

LEMMA ExitKeeps ==
  ASSUME ReflAssumption, NEW a, ReflKept(a), MasterExit PROVE ReflKept(a)'
<1>1. ownFifo' = <<>> /\ UNCHANGED <<reflector, childHas, sentSelf, sentOther, received>>
  BY DEF MasterExit
<1>2. Reflects(a)' /\ ComeBack'
  BY <1>1, NoUnits DEF ReflKept, Reflects, ComeBack, Back
<1>3. ReflTypes' /\ Waiting' <= SelfWindow
  BY <1>1 DEF ReflKept, ReflTypes, Waiting, Back
<1> QED BY <1>1, <1>2, <1>3, NoUnits DEF ReflKept

LEMMA RecvKeeps ==
  ASSUME ReflAssumption, NEW a, ReflKept(a), ReflRecv PROVE ReflKept(a)'
<1> DEFINE u == ownFifo[1]
           hd == Header(u.from, u.id)
           n == Len(received) + 1
<1>1. /\ Whole(ownFifo) /\ InSentOrder(ownFifo) /\ ownFifo # <<>> /\ Len(ownFifo) \in Nat
      /\ HdrUnits \in Nat \ {0}
  <2>1. ownFifo \in Seq(Unit)
    BY DEF ReflKept, Whole
  <2>2. Len(ownFifo) \in Nat
    BY <2>1, UnitsOf
  <2> QED BY <2>2 DEF ReflKept, ReflRecv, ReflAssumption
<1>2. /\ Len(ownFifo) >= HdrUnits /\ SubSeq(ownFifo, 1, HdrUnits) = hd
      /\ u \in Unit /\ 1 \in DOMAIN ownFifo
      /\ Whole(SubSeq(ownFifo, HdrUnits + 1, Len(ownFifo)))
      /\ InSentOrder(SubSeq(ownFifo, HdrUnits + 1, Len(ownFifo)))
      /\ \A i \in DOMAIN SubSeq(ownFifo, HdrUnits + 1, Len(ownFifo)) :
            /\ i + HdrUnits \in DOMAIN ownFifo
            /\ SubSeq(ownFifo, HdrUnits + 1, Len(ownFifo))[i] = ownFifo[i + HdrUnits]
      /\ Own(u) => OwnAbove(SubSeq(ownFifo, HdrUnits + 1, Len(ownFifo)), u.id)
  BY <1>1, Taken
<1>3. Least(HdrUnits, Len(ownFifo)) = HdrUnits
  BY <1>1, <1>2 DEF Least
<1>4. /\ ownFifo' = SubSeq(ownFifo, HdrUnits + 1, Len(ownFifo)) /\ received' = Append(received, hd)
      /\ UNCHANGED <<reflector, childHas, sentSelf, sentOther>>
  BY <1>2, <1>3 DEF ReflRecv
<1>5. u.from \in {"self", "other"} /\ u.id \in Nat
  BY <1>2 DEF Unit
<1>6. /\ hd \in Seq(Unit) /\ hd[1].from = u.from /\ hd[1].id = u.id
  <2>1. 1 \in 1..HdrUnits
    BY <1>1
  <2>2. /\ hd \in Seq(Unit)
        /\ \A k \in 1..HdrUnits : hd[k] = [from |-> u.from, id |-> u.id, part |-> k]
    BY SMTT(30), <1>5, HeaderIs
  <2>3. hd[1] = [from |-> u.from, id |-> u.id, part |-> 1]
    BY <2>1, <2>2
  <2> QED BY <2>2, <2>3
<1> HIDE DEF u, hd
<1>7. received \in Seq(Seq(Unit))
  BY DEF ReflKept, ReflTypes
<1>8. /\ Len(received') = n /\ n \in Nat /\ DOMAIN received' = 1..n /\ Len(received) \in Nat
      /\ DOMAIN received = 1..Len(received)
      /\ \A i \in 1..Len(received) : received'[i] = received[i]
      /\ received'[n] = hd
  BY <1>4, <1>6, <1>7, AppendProperties, LenProperties
<1>9. /\ Own(u) => Back' = Back \cup {n}
      /\ ~Own(u) => Back' = Back
      /\ Back \subseteq 1..Len(received) /\ n \notin Back
      /\ IsFiniteSet(Back) /\ Cardinality(Back) \in Nat
  <2>1. \A i \in 1..n : i = n \/ i \in 1..Len(received)
    BY <1>8
  <2>2. \A i \in 1..Len(received) : i \in 1..n /\ i # n
    BY <1>8
  <2>3. n \in 1..n
    BY <1>8
  <2>4. \A i \in 1..Len(received) : i \in Back' <=> i \in Back
    BY <2>2, <1>8 DEF Back
  <2>5. n \in Back' <=> Own(u)
    BY <2>3, <1>6, <1>8 DEF Back, Own
  <2>6. Back \subseteq 1..Len(received) /\ IsFiniteSet(Back) /\ Cardinality(Back) \in Nat
    BY ReceivedIs DEF ReflKept
  <2>7. Back' \subseteq 1..n
    BY <1>8 DEF Back
  <2> QED BY <2>1, <2>2, <2>4, <2>5, <2>6, <2>7
<1>10. Waiting' <= SelfWindow
  <2>1. Cardinality(Back') \in Nat /\ Cardinality(Back') >= Cardinality(Back)
    <3>1. CASE Own(u)
      <4>1. IsFiniteSet(Back) /\ n \notin Back /\ Back' = Back \cup {n} /\ Cardinality(Back) \in Nat
        BY ONLY <1>9, <3>1
      <4>2. Cardinality(Back \cup {n}) = Cardinality(Back) + 1
        BY ONLY <4>1, FS_AddElement
      <4> QED BY ONLY <4>1, <4>2
    <3>2. CASE ~Own(u)
      BY ONLY <1>9, <3>2
    <3> QED BY ONLY <3>1, <3>2
  <2>2. sentSelf - Cardinality(Back) <= SelfWindow /\ sentSelf \in Nat /\ SelfWindow \in Nat
    BY DEF ReflKept, Waiting, ReflTypes, ReflAssumption
  <2>3. sentSelf' - Cardinality(Back') <= SelfWindow
    BY <2>1, <2>2, <1>4, <1>9
  <2> QED BY <2>3 DEF Waiting
<1>11. ReflTypes'
  <2>1. received' \in Seq(Seq(Unit))
    BY <1>4, <1>6, <1>7, AppendProperties
  <2>2. \A i \in DOMAIN received' :
          \E from \in {"self", "other"}, id \in Nat : received'[i] = Header(from, id)
    <3> SUFFICES ASSUME NEW i \in DOMAIN received'
                 PROVE  \E from \in {"self", "other"}, id \in Nat : received'[i] = Header(from, id)
      OBVIOUS
    <3>1. CASE i = n
      BY <3>1, <1>5, <1>8 DEF hd
    <3>2. CASE i \in 1..Len(received)
      BY <3>2, <1>8 DEF ReflKept, ReflTypes
    <3> QED BY <3>1, <3>2, <1>8
  <2> QED BY <2>1, <2>2, <1>4 DEF ReflTypes, ReflKept
<1>12. \A m : /\ OwnBelow(ownFifo, m) => OwnBelow(ownFifo', m)
              /\ OwnAbove(ownFifo, m) => OwnAbove(ownFifo', m)
  BY <1>2, <1>4 DEF OwnBelow, OwnAbove
<1>13. AllBefore(ownFifo', childHas')
  BY <1>2, <1>4 DEF ReflKept, AllBefore
<1>14. \A i \in Back : received'[i][1].id = received[i][1].id
  BY <1>8, <1>9
<1>15. ASSUME Own(u) PROVE received'[n][1].id = u.id /\ u.id <= a /\ u.id > 0
  <2>1. OwnBelow(ownFifo, a) /\ OwnAbove(ownFifo, 0)
    BY DEF ReflKept, Reflects, ComeBack
  <2> QED BY <2>1, <1>2, <1>6, <1>8, <1>15 DEF u, OwnBelow, OwnAbove
<1>16. Reflects(a)'
  <2>1. \A i \in Back' : received'[i][1].id <= a
    <3> SUFFICES ASSUME NEW i \in Back' PROVE received'[i][1].id <= a
      OBVIOUS
    <3>1. CASE i \in Back
      BY <3>1, <1>14 DEF ReflKept, Reflects
    <3>2. CASE i \notin Back
      <4>1. Own(u) /\ i = n
        BY <3>2, <1>9
      <4> QED BY <4>1, <1>15
    <3> QED BY <3>1, <3>2
  <2> QED BY <2>1, <1>4, <1>12 DEF ReflKept, Reflects
<1>17. ComeBack'
  <2>1. ComeBack /\ Whole(childHas)
    BY DEF ReflKept
  <2>2. ASSUME Own(u), NEW i \in Back PROVE received[i][1].id < u.id
    BY <2>1, <2>2, <1>2 DEF u, ComeBack, OwnAbove
  <2>3. ASSUME Own(u) PROVE OwnAbove(ownFifo', u.id) /\ OwnAbove(childHas', u.id)
    <3>1. AllBefore(ownFifo, childHas)
      BY DEF ReflKept
    <3>2. OwnAbove(childHas, u.id)
      <4>1. \A j \in DOMAIN childHas : Own(childHas[j]) => u.id < childHas[j].id
        BY <3>1, <2>3, <1>2 DEF AllBefore, u
      <4>2. \A j \in DOMAIN childHas : childHas[j].id \in Nat
        BY <2>1, UnitIds DEF Whole
      <4> QED BY <4>1, <4>2, <1>5 DEF OwnAbove
    <3> QED BY <3>2, <2>3, <1>2, <1>4
  <2>4. \A i, j \in Back' : i < j => received'[i][1].id < received'[j][1].id
    <3> SUFFICES ASSUME NEW i \in Back', NEW j \in Back', i < j
                 PROVE  received'[i][1].id < received'[j][1].id
      OBVIOUS
    <3>1. CASE i \in Back /\ j \in Back
      <4>1. received[i][1].id < received[j][1].id
        BY <3>1, <2>1 DEF ComeBack
      <4> QED BY <4>1, <3>1, <1>14
    <3>2. CASE i \in Back /\ j \notin Back
      <4>1. Own(u) /\ j = n
        BY <3>2, <1>9
      <4> QED BY <4>1, <3>2, <2>2, <1>14, <1>15
    <3>3. CASE i \notin Back
      <4>1. i = n /\ j \in 1..n
        BY <3>3, <1>8, <1>9 DEF Back
      <4> QED BY <4>1, <1>8
    <3> QED BY <3>1, <3>2, <3>3
  <2>5. \A i \in Back' : /\ received'[i][1].id > 0
                         /\ OwnAbove(ownFifo', received'[i][1].id)
                         /\ OwnAbove(childHas', received'[i][1].id)
    <3> SUFFICES ASSUME NEW i \in Back'
                 PROVE  /\ received'[i][1].id > 0
                        /\ OwnAbove(ownFifo', received'[i][1].id)
                        /\ OwnAbove(childHas', received'[i][1].id)
      OBVIOUS
    <3>1. CASE i \in Back
      BY <3>1, <2>1, <1>4, <1>12, <1>14 DEF ComeBack
    <3>2. CASE i \notin Back
      <4>1. Own(u) /\ i = n
        BY <3>2, <1>9
      <4> QED BY <4>1, <2>3, <1>15
    <3> QED BY <3>1, <3>2
  <2>6. OwnAbove(ownFifo', 0) /\ OwnAbove(childHas', 0)
    BY <2>1, <1>4, <1>12 DEF ComeBack
  <2> QED BY <2>4, <2>5, <2>6 DEF ComeBack
<1> QED BY <1>2, <1>4, <1>10, <1>11, <1>13, <1>16, <1>17 DEF ReflKept

LEMMA ReflNextKeeps ==
  ASSUME ReflAssumption, SelfWindow * HdrUnits <= ChunkUnits, ReflInv, [ReflNext]_reflVars
  PROVE  ReflInv'
<1>1. PICK a : ReflKept(a)
  BY DEF ReflInv, ReflKept
<1>2. CASE SelfSend
  BY <1>1, <1>2, SelfSendKeeps, KeptAfter
<1>3. CASE OtherSend
  BY <1>1, <1>3, OtherSendKeeps, KeptAfter
<1>4. CASE ChildRead
  <2>1. ReflKept(a)' \/ ReflKept(sentSelf)'
    BY <1>1, <1>4, ReadKeeps
  <2>2. ReflKept(sentSelf)' => ReflInv'
    BY DEF ReflKept, ReflInv, Reflects
  <2> QED BY <2>1, <2>2, KeptAfter
<1>5. CASE ChildWrite
  BY <1>1, <1>5, WriteKeeps, KeptAfter
<1>6. CASE ReflRecv
  BY <1>1, <1>6, RecvKeeps, KeptAfter
<1>7. CASE MasterExit
  BY <1>1, <1>7, ExitKeeps, KeptAfter
<1>8. CASE UNCHANGED reflVars
  <2>1. ReflKept(a)'
    BY <1>1, <1>8 DEF reflVars, ReflKept, ReflTypes, ComeBack, Reflects, Waiting, Back
  <2> QED BY <2>1, KeptAfter
<1> QED BY <1>2, <1>3, <1>4, <1>5, <1>6, <1>7, <1>8 DEF ReflNext

\* Every header radQueueRecv accepts was sent by somebody, for any lengths of
\* headers, reads and FIFOs and whatever the order of the two processes and the
\* other senders, as long as the messages a process lets wait for itself fit one
\* read of dummyChild: then no read ends inside a header.
THEOREM HeadersStayWhole ==
  SelfWindow * HdrUnits <= ChunkUnits => (ReflSpec => []HeadersWhole)
<1> SUFFICES ASSUME SelfWindow * HdrUnits <= ChunkUnits PROVE ReflSpec => []HeadersWhole
  OBVIOUS
<1>1. ReflInit => ReflInv
  BY ReflStarts, ReflAssumption
<1>2. ReflInv /\ [ReflNext]_reflVars => ReflInv'
  BY ReflNextKeeps, ReflAssumption
<1>3. ReflInv => HeadersWhole
  BY ReceivedIs, ReflAssumption DEF ReflInv, HeadersWhole
<1> QED BY <1>1, <1>2, <1>3, PTL DEF ReflSpec

------------------------------------------------------------------------------
(* The mm allocator: the inductive invariant *)

Area == [at : Nat, size : Nat \ {0}]
Block == [size : Nat \ {0}, usize : Nat]
ChunkAt(a) == [at |-> a, size |-> chunks[a].size]
AllocatedAreas == {ChunkAt(a) : a \in DOMAIN chunks}
FreeAreas == Range(freeChunks)

\* The areas of A, allocated, and of F, free, are apart and leave no byte
\* below the offset out.
Covers(r, b) == r.at <= b /\ b < EndOf(r)
Tiles(A, F, offset) ==
    /\ A \cap F = {}
    /\ \A r \in A \cup F : PoolHdr <= r.at /\ EndOf(r) <= offset
    /\ \A r, s \in A \cup F : r = s \/ EndOf(r) <= s.at \/ EndOf(s) <= r.at
    /\ \A b \in PoolHdr .. offset - 1 : \E r \in A \cup F : Covers(r, b)
Merged(F, offset) == \A f, g \in F : EndOf(f) # g.at /\ EndOf(f) # offset

\* The free list is sorted by address.
Sorted(s) == \A i, j \in DOMAIN s : i < j => s[i].at < s[j].at

MmTypes ==
    /\ mpSize \in Nat /\ mpOffset \in Nat /\ mmGlobal \in BOOLEAN
    /\ freeChunks \in Seq(Area) /\ Sorted(freeChunks) /\ FreeCountRight
    /\ \A a \in DOMAIN chunks : a \in Nat \ {0} /\ chunks[a] \in Block
    /\ mmOwns \in [MmProcs -> SUBSET Nat] /\ mmPc \in [MmProcs -> {"idle", "spare"}]
    /\ mmWant \in [MmProcs -> Nat] /\ mmReplaces \in [MmProcs -> Nat]

\* Every chunk has one owner, and the chunk that mm_realloc is about to free
\* is still its own.
ChunksOwned ==
    /\ \A a \in DOMAIN chunks : \E p \in MmProcs : a \in mmOwns[p]
    /\ \A p \in MmProcs : mmOwns[p] \subseteq DOMAIN chunks
    /\ \A p \in MmProcs : mmReplaces[p] # 0 => mmReplaces[p] \in mmOwns[p]

PoolTiled ==
    mmGlobal => /\ PoolHdr <= mpOffset /\ mpOffset <= mpSize
                /\ Tiles(AllocatedAreas, FreeAreas, mpOffset) /\ Merged(FreeAreas, mpOffset)
                /\ mm_available = mpSize - PoolHdr - AllocatedSize

\* Nobody is in a pool that is not there.
NoPool ==
    ~mmGlobal => /\ DOMAIN chunks = {} /\ freeChunks = <<>>
                 /\ \A p \in MmProcs : mmPc[p] = "idle"

MmInv == MmTypes /\ ChunksOwned /\ PoolTiled /\ NoPool /\ BlocksHold /\ FailedCreateLeavesNothing

------------------------------------------------------------------------------
(* The mm allocator: areas *)

\* What an area is made of.
LEMMA AreaIs ==
  ASSUME NEW r \in Area
  PROVE  /\ r.at \in Nat /\ r.size \in Nat \ {0} /\ EndOf(r) = r.at + r.size
         /\ EndOf(r) \in Nat /\ r.at < EndOf(r) /\ r = [at |-> r.at, size |-> r.size]
<1>1. r.at \in Nat /\ r.size \in Nat \ {0} /\ r = [at |-> r.at, size |-> r.size]
  BY DEF Area
<1>2. EndOf(r) = r.at + r.size
  BY DEF EndOf
<1> QED BY <1>1, <1>2

\* An area is where it starts and where it ends.
LEMMA SameArea ==
  ASSUME NEW r \in Area, NEW s \in Area, r.at = s.at, EndOf(r) = EndOf(s)
  PROVE  r = s
<1>1. r.size = s.size
  BY AreaIs
<1> QED BY <1>1, AreaIs

\* A free chunk is given out whole.
LEMMA TilesTaken ==
  ASSUME NEW A, NEW F, NEW offset, Tiles(A, F, offset), NEW f \in F
  PROVE  Tiles(A \cup {f}, F \ {f}, offset)
<1>1. (A \cup {f}) \cup (F \ {f}) = A \cup F /\ (A \cup {f}) \cap (F \ {f}) = {}
  BY DEF Tiles
<1> QED BY <1>1 DEF Tiles

\* A chunk is given back.
LEMMA TilesFreed ==
  ASSUME NEW A, NEW F, NEW offset, Tiles(A, F, offset), NEW c \in A
  PROVE  Tiles(A \ {c}, F \cup {c}, offset)
<1>1. (A \ {c}) \cup (F \cup {c}) = A \cup F /\ (A \ {c}) \cap (F \cup {c}) = {}
  BY DEF Tiles
<1> QED BY <1>1 DEF Tiles

\* A free chunk is cut in two.
CutInto(A, F, offset, f, u, v) ==
    /\ Tiles(A, (F \ {f}) \cup {u, v}, offset)
    /\ v \notin A \cup F /\ u \notin F \ {f} /\ u # v

LEMMA TilesSplit ==
  ASSUME NEW A \in SUBSET Area, NEW F \in SUBSET Area, NEW offset \in Nat, Tiles(A, F, offset),
         PoolHdr \in Nat, NEW f \in F, NEW u \in Area, NEW v \in Area,
         u.at = f.at, EndOf(u) = v.at, EndOf(v) = EndOf(f)
  PROVE  CutInto(A, F, offset, f, u, v)
<1> DEFINE G == (F \ {f}) \cup {u, v}
           old == (A \cup F) \ {f}
<1>1. /\ f \in Area /\ f \notin A
      /\ u.at \in Nat /\ v.at \in Nat /\ EndOf(u) \in Nat /\ EndOf(v) \in Nat
      /\ u.at < EndOf(u) /\ v.at < EndOf(v)
  BY AreaIs DEF Tiles
<1>2. \A r \in old : /\ r.at \in Nat /\ EndOf(r) \in Nat /\ r.at < EndOf(r)
                     /\ PoolHdr <= r.at /\ EndOf(r) <= offset
                     /\ EndOf(r) <= u.at \/ EndOf(v) <= r.at
  BY AreaIs DEF Tiles
<1>3. u \notin old /\ v \notin old /\ v # f /\ u # v
  BY <1>1, <1>2
<1>4. A \cup G = old \cup {u, v}
  BY <1>1
<1>5. A \cap G = {}
  BY <1>1, <1>3 DEF Tiles
<1>6. \A r \in A \cup G : PoolHdr <= r.at /\ EndOf(r) <= offset
  <2>1. PoolHdr <= f.at /\ EndOf(f) <= offset
    BY DEF Tiles
  <2>2. PoolHdr <= u.at /\ EndOf(u) <= offset /\ PoolHdr <= v.at /\ EndOf(v) <= offset
    BY <1>1, <2>1
  <2> QED BY <1>2, <1>4, <2>2
<1>7. \A r, s \in A \cup G : r = s \/ EndOf(r) <= s.at \/ EndOf(s) <= r.at
  <2>1. \A r, s \in old : r = s \/ EndOf(r) <= s.at \/ EndOf(s) <= r.at
    BY DEF Tiles
  <2>2. \A r \in old : EndOf(r) <= u.at \/ EndOf(u) <= r.at
    BY <1>1, <1>2
  <2>3. \A r \in old : EndOf(r) <= v.at \/ EndOf(v) <= r.at
    BY <1>1, <1>2
  <2>4. EndOf(u) <= v.at
    BY <1>1
  <2> HIDE DEF old, G
  <2> QED BY <1>4, <2>1, <2>2, <2>3, <2>4
<1>8. \A b \in PoolHdr .. offset - 1 : \E r \in A \cup G : Covers(r, b)
  <2> SUFFICES ASSUME NEW b \in PoolHdr .. offset - 1 PROVE \E r \in A \cup G : Covers(r, b)
    OBVIOUS
  <2>1. PICK r \in A \cup F : Covers(r, b)
    BY DEF Tiles
  <2>2. CASE r # f
    BY <2>1, <2>2, <1>4
  <2>3. CASE r = f
    <3>1. f.at <= b /\ b < EndOf(f)
      BY <2>1, <2>3 DEF Covers
    <3>2. Covers(u, b) \/ Covers(v, b)
      <4> CASE b < v.at
        BY <3>1, <1>1 DEF Covers
      <4> CASE ~(b < v.at)
        <5>1. v.at <= b
          BY <1>1
        <5> QED BY <5>1, <3>1, <1>1 DEF Covers
      <4> QED OBVIOUS
    <3> QED BY <3>2
  <2> QED BY <2>2, <2>3
<1>9. Tiles(A, G, offset)
  BY <1>5, <1>6, <1>7, <1>8 DEF Tiles
<1> QED BY <1>1, <1>3, <1>9 DEF CutInto

\* Two free chunks that touch become one.
LEMMA TilesJoined ==
  ASSUME NEW A \in SUBSET Area, NEW F \in SUBSET Area, NEW offset \in Nat, Tiles(A, F, offset),
         NEW u \in F, NEW v \in F, NEW f \in Area,
         u.at = f.at, EndOf(u) = v.at, EndOf(v) = EndOf(f)
  PROVE  Tiles(A, (F \ {u, v}) \cup {f}, offset) /\ f \notin A \cup F
<1> DEFINE G == (F \ {u, v}) \cup {f}
           old == (A \cup F) \ {u, v}
<1>1. /\ u \in Area /\ v \in Area /\ u \notin A /\ v \notin A
      /\ u.at \in Nat /\ v.at \in Nat /\ EndOf(u) \in Nat /\ EndOf(v) \in Nat
      /\ u.at < EndOf(u) /\ v.at < EndOf(v)
  BY AreaIs DEF Tiles
<1>2. \A r \in old : /\ r.at \in Nat /\ EndOf(r) \in Nat /\ r.at < EndOf(r)
                     /\ PoolHdr <= r.at /\ EndOf(r) <= offset
                     /\ EndOf(r) <= u.at \/ EndOf(u) <= r.at
                     /\ EndOf(r) <= v.at \/ EndOf(v) <= r.at
  BY AreaIs DEF Tiles
<1>3. \A r \in old : EndOf(r) <= f.at \/ EndOf(f) <= r.at
  BY <1>1, <1>2
<1>4. f \notin old /\ f # u /\ f # v
  BY <1>1, <1>2
<1>5. A \cup G = old \cup {f} /\ A \cap G = {}
  BY <1>1, <1>4 DEF Tiles
<1>6. PoolHdr <= f.at /\ EndOf(f) <= offset
  BY DEF Tiles
<1>7. \A r, s \in A \cup G : r = s \/ EndOf(r) <= s.at \/ EndOf(s) <= r.at
  <2>1. \A r, s \in old : r = s \/ EndOf(r) <= s.at \/ EndOf(s) <= r.at
    BY DEF Tiles
  <2> HIDE DEF old, G
  <2> QED BY <1>3, <1>5, <2>1
<1>8. \A b \in PoolHdr .. offset - 1 : \E r \in A \cup G : Covers(r, b)
  <2> SUFFICES ASSUME NEW b \in PoolHdr .. offset - 1 PROVE \E r \in A \cup G : Covers(r, b)
    OBVIOUS
  <2>1. PICK r \in A \cup F : Covers(r, b)
    BY DEF Tiles
  <2>2. CASE r \notin {u, v}
    BY <2>1, <2>2, <1>5
  <2>3. CASE r \in {u, v}
    <3>1. Covers(f, b)
      <4>1. f.at = u.at /\ EndOf(f) = EndOf(v) /\ b \in Int
        BY DEF Tiles
      <4> QED BY <2>1, <2>3, <4>1, <1>1 DEF Covers
    <3> QED BY <3>1
  <2> QED BY <2>2, <2>3
<1> QED BY <1>2, <1>4, <1>5, <1>6, <1>7, <1>8 DEF Tiles

\* The spare area shrinks.
LEMMA TilesGrown ==
  ASSUME NEW A \in SUBSET Area, NEW F \in SUBSET Area, NEW offset \in Nat, Tiles(A, F, offset),
         PoolHdr \in Nat, PoolHdr <= offset, NEW u \in Area, u.at = offset
  PROVE  Tiles(A \cup {u}, F, EndOf(u)) /\ u \notin A \cup F
<1>1. u.at \in Nat /\ EndOf(u) \in Nat /\ u.at < EndOf(u)
  BY AreaIs
<1>2. \A r \in A \cup F : /\ r.at \in Nat /\ EndOf(r) \in Nat /\ r.at < EndOf(r)
                          /\ PoolHdr <= r.at /\ EndOf(r) <= offset
  BY AreaIs DEF Tiles
<1>3. u \notin A \cup F
  BY <1>1, <1>2
<1>4. (A \cup {u}) \cap F = {}
  BY <1>3 DEF Tiles
<1>5. \A r \in A \cup {u} \cup F : PoolHdr <= r.at /\ EndOf(r) <= EndOf(u)
  BY <1>1, <1>2
<1>6. \A r, s \in A \cup {u} \cup F : r = s \/ EndOf(r) <= s.at \/ EndOf(s) <= r.at
  <2>1. \A r, s \in A \cup F : r = s \/ EndOf(r) <= s.at \/ EndOf(s) <= r.at
    BY DEF Tiles
  <2> QED BY <1>2, <2>1
<1>7. \A b \in PoolHdr .. EndOf(u) - 1 : \E r \in A \cup {u} \cup F : Covers(r, b)
  <2> SUFFICES ASSUME NEW b \in PoolHdr .. EndOf(u) - 1
               PROVE  \E r \in A \cup {u} \cup F : Covers(r, b)
    OBVIOUS
  <2>1. CASE b < offset
    <3>1. b \in PoolHdr .. offset - 1
      BY <2>1
    <3> QED BY <3>1 DEF Tiles
  <2>2. CASE ~(b < offset)
    <3>1. Covers(u, b)
      BY <2>2, <1>1 DEF Covers
    <3> QED BY <3>1
  <2> QED BY <2>1, <2>2
<1> QED BY <1>3, <1>4, <1>5, <1>6, <1>7 DEF Tiles

\* The last free chunk goes back to the spare area.
LEMMA TilesShrunk ==
  ASSUME NEW A \in SUBSET Area, NEW F \in SUBSET Area, NEW offset \in Nat, Tiles(A, F, offset),
         PoolHdr \in Nat, NEW f \in F, EndOf(f) = offset
  PROVE  Tiles(A, F \ {f}, f.at) /\ PoolHdr <= f.at
<1> DEFINE old == A \cup (F \ {f})
<1>1. f \in Area /\ f \notin A /\ f.at \in Nat /\ f.at < offset /\ PoolHdr <= f.at
  BY AreaIs DEF Tiles
<1>2. \A r \in old : /\ r.at \in Nat /\ EndOf(r) \in Nat /\ r.at < EndOf(r)
                     /\ PoolHdr <= r.at /\ EndOf(r) <= f.at
  <2> SUFFICES ASSUME NEW r \in old
               PROVE  /\ r.at \in Nat /\ EndOf(r) \in Nat /\ r.at < EndOf(r)
                      /\ PoolHdr <= r.at /\ EndOf(r) <= f.at
    OBVIOUS
  <2>1. r # f /\ r \in A \cup F
    BY <1>1
  <2>2. r.at \in Nat /\ EndOf(r) \in Nat /\ r.at < EndOf(r)
    BY <2>1, AreaIs
  <2>3. PoolHdr <= r.at /\ EndOf(r) <= offset /\ (EndOf(r) <= f.at \/ EndOf(f) <= r.at)
    BY <2>1 DEF Tiles
  <2> QED BY <1>1, <2>2, <2>3
<1>3. \A r, s \in old : r = s \/ EndOf(r) <= s.at \/ EndOf(s) <= r.at
  BY DEF Tiles
<1>4. \A b \in PoolHdr .. f.at - 1 : \E r \in old : Covers(r, b)
  <2> SUFFICES ASSUME NEW b \in PoolHdr .. f.at - 1 PROVE \E r \in old : Covers(r, b)
    OBVIOUS
  <2>1. b \in PoolHdr .. offset - 1 /\ b < f.at
    BY <1>1
  <2>2. PICK r \in A \cup F : Covers(r, b)
    BY <2>1 DEF Tiles
  <2>3. r # f
    BY <1>1, <2>1, <2>2 DEF Covers
  <2> QED BY <2>2, <2>3
<1>5. A \cap (F \ {f}) = {}
  BY DEF Tiles
<1> QED BY <1>1, <1>2, <1>3, <1>4, <1>5 DEF Tiles

------------------------------------------------------------------------------
(* The mm allocator: sums *)

\* What AddUp computes, by the equations it is defined with.
AddsAs(first, f, n, sum) ==
    /\ sum \in [0..n -> Int] /\ sum[0] = first
    /\ \A k \in 0..(n - 1) : sum[k + 1] = sum[k] + f[k + 1]
    /\ AddUp(first, f, n) = sum[n]

\* AddUp by the equations it is defined with.
LEMMA Adding ==
  ASSUME NEW first \in Int, NEW n \in Nat, NEW f, \A k \in 1..n : f[k] \in Int
  PROVE  \E sum : AddsAs(first, f, n, sum)
<1> DEFINE eqn(g) == [k \in 0..n |-> IF k = 0 THEN first ELSE g[k - 1] + f[k]]
           Sum == CHOOSE g : g = eqn(g)
           step == [x \in Nat \X Int |-> IF x[1] + 1 \in 1..n THEN x[2] + f[x[1] + 1] ELSE x[2]]
<1>1. AddUp(first, f, n) = Sum[n]
  BY DEF AddUp
<1>2. PICK t \in [Nat -> Int] : t[0] = first /\ \A k \in Nat : t[k + 1] = step[<<k, t[k]>>]
  <2>1. step \in [Nat \X Int -> Int]
    OBVIOUS
  <2>2. Iterates(Int, first, step)
    <3> HIDE DEF step
    <3> QED BY <2>1, Recursion
  <2> HIDE DEF step
  <2> QED BY <2>2 DEF Iterates
<1>3. \A k \in 0..(n - 1) : t[k + 1] = t[k] + f[k + 1]
  <2> SUFFICES ASSUME NEW k \in 0..(n - 1) PROVE t[k + 1] = t[k] + f[k + 1]
    OBVIOUS
  <2>1. k \in Nat /\ k + 1 \in 1..n /\ t[k] \in Int
    OBVIOUS
  <2>2. step[<<k, t[k]>>] = t[k] + f[k + 1]
    BY <2>1
  <2> HIDE DEF step
  <2> QED BY <2>1, <2>2, <1>2
<1> HIDE DEF step
<1> DEFINE g == [k \in 0..n |-> t[k]]
<1>4. g = eqn(g)
  <2>1. ASSUME NEW k \in 0..n PROVE g[k] = eqn(g)[k]
    <3>1. CASE k = 0
      BY <3>1, <1>2
    <3>2. CASE k # 0
      <4>1. k - 1 \in 0..(n - 1) /\ (k - 1) + 1 = k /\ k - 1 \in 0..n
        BY <3>2
      <4>2. t[k] = t[k - 1] + f[k]
        BY <4>1, <1>3
      <4> QED BY <3>2, <4>1, <4>2
    <3> QED BY <3>1, <3>2
  <2> QED BY <2>1
<1>5. Sum = eqn(Sum)
  <2> HIDE DEF eqn
  <2> QED BY <1>4
<1>6. ASSUME NEW k \in 0..n PROVE Sum[k] = IF k = 0 THEN first ELSE Sum[k - 1] + f[k]
  <2> HIDE DEF Sum
  <2>1. eqn(Sum)[k] = IF k = 0 THEN first ELSE Sum[k - 1] + f[k]
    OBVIOUS
  <2> HIDE DEF eqn
  <2> QED BY <2>1, <1>5
<1>7. DOMAIN Sum = 0..n /\ Sum = [k \in 0..n |-> Sum[k]]
  <2> HIDE DEF Sum
  <2> QED BY <1>5
<1> HIDE DEF Sum
<1>8. Sum[0] = first /\ \A k \in 0..(n - 1) : Sum[k + 1] = Sum[k] + f[k + 1]
  <2>1. 0 \in 0..n /\ \A k \in 0..(n - 1) : k + 1 \in 0..n /\ k + 1 # 0 /\ (k + 1) - 1 = k
    OBVIOUS
  <2> QED BY <2>1, <1>6
<1>9. \A k \in 0..n : Sum[k] \in Int
  <2> DEFINE T == {k \in Nat : k <= n => Sum[k] \in Int}
  <2>1. 0 \in T
    BY <1>8
  <2>2. ASSUME NEW k \in T PROVE k + 1 \in T
    <3>1. CASE k + 1 <= n
      <4>1. k \in 0..(n - 1) /\ k <= n /\ k + 1 \in 1..n /\ k + 1 \in Nat
        BY <3>1
      <4>2. Sum[k + 1] = Sum[k] + f[k + 1] /\ Sum[k] \in Int /\ f[k + 1] \in Int
        BY <4>1, <1>8
      <4> QED BY <4>1, <4>2
    <3>2. CASE ~(k + 1 <= n)
      BY <3>2
    <3> QED BY <3>1, <3>2
  <2> HIDE DEF T
  <2>3. T \subseteq Nat
    BY DEF T
  <2>4. T = Nat
    BY <2>1, <2>2, <2>3, NatInd
  <2> QED BY <2>4 DEF T
<1>10. Sum \in [0..n -> Int]
  BY <1>7, <1>9
<1> QED BY <1>1, <1>8, <1>10 DEF AddsAs

\* Sums of numbers that differ in one place at most.
OneDiffers(f, g, n, q) ==
    \A k \in 1..n : f[k] \in Int /\ g[k] \in Int /\ (k # q => g[k] = f[k])
SumDiffers(a, b, f, g, n, q) ==
    /\ AddUp(b, g, n) = AddUp(a, f, n) + (b - a) + (IF q \in 1..n THEN g[q] - f[q] ELSE 0)
    /\ AddUp(a, f, n) \in Int

LEMMA AddUpChanged ==
  ASSUME NEW a \in Int, NEW b \in Int, NEW n \in Nat, NEW f, NEW g, NEW q \in Nat,
         OneDiffers(f, g, n, q)
  PROVE  SumDiffers(a, b, f, g, n, q)
<1>0. \A k \in 1..n : f[k] \in Int /\ g[k] \in Int /\ (k # q => g[k] = f[k])
  BY DEF OneDiffers
<1>1. PICK s : AddsAs(a, f, n, s)
  BY <1>0, Adding
<1>2. PICK t : AddsAs(b, g, n, t)
  BY <1>0, Adding
<1>3. /\ s \in [0..n -> Int] /\ s[0] = a /\ AddUp(a, f, n) = s[n]
      /\ t \in [0..n -> Int] /\ t[0] = b /\ AddUp(b, g, n) = t[n]
  BY <1>1, <1>2 DEF AddsAs
<1>4. \A k \in 0..(n - 1) : s[k + 1] = s[k] + f[k + 1] /\ t[k + 1] = t[k] + g[k + 1]
  BY <1>1, <1>2 DEF AddsAs
<1> DEFINE more(k) == IF q \in 1..k THEN g[q] - f[q] ELSE 0
           T == {k \in Nat : k <= n => t[k] = s[k] + (b - a) + more(k)}
<1>5. 0 \in T
  BY <1>3
<1>6. ASSUME NEW k \in T PROVE k + 1 \in T
  <2>1. CASE k + 1 <= n
    <3>1. k \in 0..(n - 1) /\ k \in 0..n /\ k <= n /\ k + 1 \in 1..n /\ k + 1 \in Nat
      BY <2>1
    <3>2. s[k + 1] = s[k] + f[k + 1] /\ t[k + 1] = t[k] + g[k + 1] /\ s[k] \in Int /\ t[k] \in Int
      BY <3>1, <1>3, <1>4
    <3>3. f[k + 1] \in Int /\ g[k + 1] \in Int /\ (k + 1 # q => g[k + 1] = f[k + 1])
      BY <3>1, <1>0
    <3>4. t[k] = s[k] + (b - a) + more(k)
      BY <3>1
    <3>5. CASE k + 1 = q
      <4>1. more(k) = 0 /\ more(k + 1) = g[k + 1] - f[k + 1]
        BY <3>1, <3>5
      <4> HIDE DEF more
      <4> QED BY <3>1, <3>2, <3>3, <3>4, <4>1
    <3>6. CASE k + 1 # q
      <4>1. more(k + 1) = more(k) /\ more(k) \in Int
        BY <3>1, <3>6, <1>0
      <4> HIDE DEF more
      <4> QED BY <3>1, <3>2, <3>3, <3>4, <3>6, <4>1
    <3> QED BY <3>5, <3>6
  <2>2. CASE ~(k + 1 <= n)
    BY <2>2
  <2> QED BY <2>1, <2>2
<1> HIDE DEF T, more
<1>7. T \subseteq Nat
  BY DEF T
<1>8. T = Nat
  BY <1>5, <1>6, <1>7, NatInd
<1>9. t[n] = s[n] + (b - a) + more(n) /\ s[n] \in Int
  BY <1>3, <1>8 DEF T
<1> QED BY <1>3, <1>9 DEF more, SumDiffers

\* One number more.
OneMore(f, g, n, q, d) ==
    /\ \A k \in 1..n : f[k] \in Int
    /\ \A k \in 1..(n + 1) : g[k] = IF k < q THEN f[k] ELSE IF k = q THEN d ELSE f[k - 1]
SumMore(a, b, f, g, n, d) ==
    AddUp(b, g, n + 1) = AddUp(a, f, n) + (b - a) + d /\ AddUp(a, f, n) \in Int

LEMMA AddUpInserted ==
  ASSUME NEW a \in Int, NEW b \in Int, NEW n \in Nat, NEW f, NEW g, NEW q \in 1..(n + 1),
         NEW d \in Int, OneMore(f, g, n, q, d)
  PROVE  SumMore(a, b, f, g, n, d)
<1>0. /\ \A k \in 1..n : f[k] \in Int
      /\ \A k \in 1..(n + 1) : g[k] = IF k < q THEN f[k] ELSE IF k = q THEN d ELSE f[k - 1]
  BY DEF OneMore
<1>1. PICK s : AddsAs(a, f, n, s)
  BY <1>0, Adding
<1>2. \A k \in 1..(n + 1) : g[k] \in Int
  <2> SUFFICES ASSUME NEW k \in 1..(n + 1) PROVE g[k] \in Int
    OBVIOUS
  <2>1. CASE k < q
    <3>1. k \in 1..n
      BY <2>1
    <3> QED BY <3>1, <2>1, <1>0
  <2>2. CASE k = q
    BY <2>2, <1>0
  <2>3. CASE k > q
    <3>1. k - 1 \in 1..n /\ g[k] = f[k - 1]
      BY <2>3, <1>0
    <3> QED BY <3>1, <1>0
  <2> QED BY <2>1, <2>2, <2>3
<1>3. PICK t : AddsAs(b, g, n + 1, t)
  BY <1>2, Adding
<1>4. /\ s \in [0..n -> Int] /\ s[0] = a /\ AddUp(a, f, n) = s[n]
      /\ t \in [0..(n + 1) -> Int] /\ t[0] = b /\ AddUp(b, g, n + 1) = t[n + 1]
  BY <1>1, <1>3 DEF AddsAs
<1>5. \A k \in 0..(n - 1) : s[k + 1] = s[k] + f[k + 1]
  BY <1>1 DEF AddsAs
<1>6. \A k \in 0..n : t[k + 1] = t[k] + g[k + 1]
  <2>1. (n + 1) - 1 = n
    OBVIOUS
  <2> QED BY <1>3, <2>1 DEF AddsAs
<1> DEFINE T == {k \in Nat : k <= n + 1 => t[k] = IF k < q THEN s[k] + (b - a)
                                                  ELSE s[k - 1] + (b - a) + d}
<1>7. 0 \in T
  BY <1>4
<1>8. ASSUME NEW k \in T PROVE k + 1 \in T
  <2>1. CASE k + 1 <= n + 1
    <3>1. k \in 0..n /\ k <= n + 1 /\ k + 1 \in 1..(n + 1) /\ k + 1 \in Nat /\ (k + 1) - 1 = k
      BY <2>1
    <3>2. t[k + 1] = t[k] + g[k + 1] /\ s[k] \in Int
      BY <3>1, <1>4, <1>6
    <3>3. t[k] = IF k < q THEN s[k] + (b - a) ELSE s[k - 1] + (b - a) + d
      BY <3>1
    <3>4. CASE k + 1 < q
      <4>1. g[k + 1] = f[k + 1] /\ k \in 0..(n - 1) /\ f[k + 1] \in Int /\ k < q
        BY <3>1, <3>4, <1>0
      <4>2. s[k + 1] = s[k] + f[k + 1]
        BY <4>1, <1>5
      <4>3. t[k + 1] = s[k + 1] + (b - a)
        BY <3>2, <3>3, <4>1, <4>2
      <4> QED BY <3>1, <3>4, <4>3
    <3>5. CASE k + 1 = q
      <4>1. g[k + 1] = d /\ k < q
        BY <3>1, <3>5, <1>0
      <4>2. t[k + 1] = s[k] + (b - a) + d
        BY <3>2, <3>3, <4>1
      <4>3. ~(k + 1 < q)
        BY <3>5, <3>1
      <4> QED BY <3>1, <4>2, <4>3
    <3>6. CASE k + 1 > q
      <4>1. g[k + 1] = f[k] /\ k \in 1..n /\ f[k] \in Int /\ ~(k < q) /\ k - 1 \in 0..(n - 1) /\ (k - 1) + 1 = k
        BY <3>1, <3>6, <1>0
      <4>2. s[k] = s[k - 1] + f[k] /\ s[k - 1] \in Int
        BY <4>1, <1>4, <1>5
      <4>3. t[k + 1] = s[k] + (b - a) + d
        BY <3>2, <3>3, <4>1, <4>2
      <4>4. ~(k + 1 < q)
        BY <3>6, <3>1
      <4> QED BY <3>1, <4>3, <4>4
    <3> QED BY <3>1, <3>4, <3>5, <3>6
  <2>2. CASE ~(k + 1 <= n + 1)
    BY <2>2
  <2> QED BY <2>1, <2>2
<1> HIDE DEF T
<1>9. T \subseteq Nat
  BY DEF T
<1>10. T = Nat
  BY <1>7, <1>8, <1>9, NatInd
<1>11. t[n + 1] = s[n] + (b - a) + d
  <2>1. n + 1 \in T /\ (n + 1) - 1 = n /\ ~(n + 1 < q)
    BY <1>10
  <2> QED BY <2>1 DEF T
<1> QED BY <1>4, <1>11 DEF SumMore

\* Nothing to add.
LEMMA AddUpZero ==
  ASSUME NEW a \in Int, NEW n \in Nat, NEW f, \A k \in 1..n : f[k] = 0
  PROVE  AddUp(a, f, n) = a
<1>1. \A k \in 1..n : f[k] \in Int
  OBVIOUS
<1>2. PICK s : AddsAs(a, f, n, s)
  BY <1>1, Adding
<1>3. s \in [0..n -> Int] /\ s[0] = a /\ AddUp(a, f, n) = s[n]
  BY <1>2 DEF AddsAs
<1>4. \A k \in 0..(n - 1) : s[k + 1] = s[k] + f[k + 1]
  BY <1>2 DEF AddsAs
<1> DEFINE T == {k \in Nat : k <= n => s[k] = a}
<1>5. 0 \in T
  BY <1>3
<1>6. ASSUME NEW k \in T PROVE k + 1 \in T
  <2>1. CASE k + 1 <= n
    <3>1. k \in 0..(n - 1) /\ k <= n /\ k + 1 \in 1..n /\ k + 1 \in Nat
      BY <2>1
    <3>2. s[k + 1] = s[k] + f[k + 1] /\ f[k + 1] = 0 /\ s[k] = a
      BY <3>1, <1>4
    <3> QED BY <3>1, <3>2
  <2>2. CASE ~(k + 1 <= n)
    BY <2>2
  <2> QED BY <2>1, <2>2
<1> HIDE DEF T
<1>7. T \subseteq Nat
  BY DEF T
<1>8. T = Nat
  BY <1>5, <1>6, <1>7, NatInd
<1> QED BY <1>3, <1>8 DEF T

------------------------------------------------------------------------------
(* The mm allocator: the free list *)

SizesOf(s) == [i \in DOMAIN s |-> s[i].size]
\* What mm_available makes of a list and a spare area.
Available(spare, s) == AddUp(spare, SizesOf(s), Len(s))

\* What a list of areas is made of.
LEMMA ListOf ==
  ASSUME NEW s \in Seq(Area)
  PROVE  /\ DOMAIN s = 1..Len(s) /\ Len(s) \in Nat
         /\ \A k \in 1..Len(s) : /\ s[k] \in Area /\ s[k].at \in Nat /\ s[k].size \in Nat \ {0}
                                 /\ s[k].at < EndOf(s[k]) /\ SizesOf(s)[k] = s[k].size
         /\ Range(s) = {s[k] : k \in 1..Len(s)} /\ Range(s) \subseteq Area
<1>1. DOMAIN s = 1..Len(s) /\ Len(s) \in Nat
  BY LenProperties
<1>2. \A k \in 1..Len(s) : s[k] \in Area
  BY ElementOfSeq
<1>3. \A k \in 1..Len(s) : SizesOf(s)[k] = s[k].size
  BY <1>1 DEF SizesOf
<1>4. Range(s) = {s[k] : k \in 1..Len(s)}
  BY <1>1 DEF Range
<1> QED BY <1>1, <1>2, <1>3, <1>4, AreaIs

\* The chunk q is not on the list any more.
LEMMA ListDropped ==
  ASSUME NEW s \in Seq(Area), Sorted(s), NEW q \in 1..Len(s), NEW a \in Int, NEW b \in Int
  PROVE  /\ RemoveAt(s, q) \in Seq(Area) /\ Sorted(RemoveAt(s, q))
         /\ Len(RemoveAt(s, q)) = Len(s) - 1 /\ Range(RemoveAt(s, q)) = Range(s) \ {s[q]}
         /\ Available(b, RemoveAt(s, q)) = Available(a, s) + (b - a) - s[q].size
         /\ Available(a, s) \in Int
<1> DEFINE r == RemoveAt(s, q)
           n == Len(s) - 1
<1>1. r \in Seq(Area) /\ Len(r) = n /\ \A k \in 1..n : r[k] = IF k < q THEN s[k] ELSE s[k + 1]
  BY RemoveAtIs
<1> HIDE DEF r
<1>2. /\ DOMAIN s = 1..Len(s) /\ Len(s) \in Nat
      /\ \A k \in 1..Len(s) : s[k].at \in Nat /\ s[k].size \in Nat \ {0} /\ SizesOf(s)[k] = s[k].size
      /\ Range(s) = {s[k] : k \in 1..Len(s)}
  BY ListOf
<1>3. DOMAIN r = 1..n /\ n \in Nat /\ (\A k \in 1..n : SizesOf(r)[k] = r[k].size)
      /\ Range(r) = {r[k] : k \in 1..n}
  BY <1>1, ListOf
<1>4. \A i, j \in 1..Len(s) : i < j => s[i].at < s[j].at
  BY <1>2 DEF Sorted
<1>5. Sorted(r)
  <2> SUFFICES ASSUME NEW i \in 1..n, NEW j \in 1..n, i < j PROVE r[i].at < r[j].at
    BY <1>3 DEF Sorted
  <2>1. /\ i \in 1..Len(s) /\ i + 1 \in 1..Len(s) /\ j \in 1..Len(s) /\ j + 1 \in 1..Len(s)
        /\ i < j + 1 /\ i + 1 < j + 1 /\ (j < q => i < q)
    BY <1>2
  <2> QED BY <1>1, <1>4, <2>1
<1>6. Range(r) = Range(s) \ {s[q]}
  <2>1. ASSUME NEW k \in 1..n PROVE r[k] \in Range(s) /\ r[k] # s[q]
    <3>1. k \in 1..Len(s) /\ k + 1 \in 1..Len(s)
      BY <1>2
    <3>2. CASE k < q
      <4>1. r[k] = s[k] /\ s[k].at < s[q].at /\ s[k].at \in Nat
        BY <1>1, <1>2, <1>4, <3>1, <3>2
      <4> QED BY <1>2, <3>1, <4>1
    <3>3. CASE ~(k < q)
      <4>1. q < k + 1 /\ r[k] = s[k + 1]
        BY <1>1, <3>3
      <4>2. s[q].at < s[k + 1].at /\ s[q].at \in Nat
        BY <1>2, <1>4, <3>1, <4>1
      <4> QED BY <1>2, <3>1, <4>1, <4>2
    <3> QED BY <3>2, <3>3
  <2>2. ASSUME NEW k \in 1..Len(s), k # q PROVE s[k] \in Range(r)
    <3>1. CASE k < q
      <4>1. k \in 1..n /\ r[k] = s[k]
        BY SMTT(60), <1>1, <1>2, <3>1
      <4> QED BY <1>3, <4>1
    <3>2. CASE k > q
      <4>1. k - 1 \in 1..n /\ ~(k - 1 < q) /\ (k - 1) + 1 = k
        BY <1>2, <3>2
      <4>2. r[k - 1] = s[k]
        BY <1>1, <4>1
      <4> QED BY <1>3, <4>1, <4>2
    <3> QED BY <2>2, <3>1, <3>2
  <2> QED BY <1>2, <1>3, <2>1, <2>2
<1>7. Available(b, r) = Available(a, s) + (b - a) - s[q].size /\ Available(a, s) \in Int
  <2> DEFINE f == SizesOf(r)
             g == SizesOf(s)
             d == s[q].size
  <2>1. \A k \in 1..n : f[k] \in Int
    <3> SUFFICES ASSUME NEW k \in 1..n PROVE f[k] \in Int
      OBVIOUS
    <3>1. k \in 1..Len(s) /\ k + 1 \in 1..Len(s) /\ (r[k] = s[k] \/ r[k] = s[k + 1])
      BY <1>1, <1>2
    <3> QED BY <1>2, <1>3, <3>1
  <2>2. \A k \in 1..(n + 1) : g[k] = IF k < q THEN f[k] ELSE IF k = q THEN d ELSE f[k - 1]
    <3> SUFFICES ASSUME NEW k \in 1..(n + 1)
                 PROVE  g[k] = IF k < q THEN f[k] ELSE IF k = q THEN d ELSE f[k - 1]
      OBVIOUS
    <3>1. k \in 1..Len(s) /\ g[k] = s[k].size
      BY <1>2
    <3>2. CASE k < q
      <4>1. k \in 1..n
        BY <1>2, <3>2
      <4> QED BY <1>1, <1>3, <3>1, <3>2, <4>1
    <3>3. CASE k = q
      BY <3>1, <3>3
    <3>4. CASE k > q
      <4>1. k - 1 \in 1..n /\ ~(k - 1 < q) /\ (k - 1) + 1 = k
        BY <1>2, <3>4
      <4>2. f[k - 1] = s[k].size
        BY <1>1, <1>3, <4>1
      <4> QED BY <3>1, <3>4, <4>2
    <3> QED BY <3>2, <3>3, <3>4
  <2>3. n \in Nat /\ q \in 1..(n + 1) /\ d \in Int /\ Len(s) = n + 1
    BY <1>2
  <2> HIDE DEF f, g, d, n
  <2>4. SumMore(b, a, f, g, n, d)
    <3>1. OneMore(f, g, n, q, d)
      BY <2>1, <2>2 DEF OneMore
    <3> QED BY <3>1, <2>3, AddUpInserted
  <2>5. Available(b, r) = AddUp(b, f, n) /\ Available(a, s) = AddUp(a, g, n + 1)
    BY <1>1, <2>3 DEF Available, f, g
  <2> QED BY <2>3, <2>4, <2>5 DEF d, SumMore
<1> QED BY <1>1, <1>5, <1>6, <1>7 DEF r

\* A chunk of the list becomes another one between the same neighbours.
FitsAt(s, q, e) == \A k \in 1..Len(s) : (k < q => s[k].at < e.at) /\ (q < k => e.at < s[k].at)
Changed(s, q, e, r, a, b) ==
    /\ r \in Seq(Area) /\ Sorted(r) /\ Len(r) = Len(s)
    /\ Range(r) = (Range(s) \ {s[q]}) \cup {e} /\ r[q] = e
    /\ \A k \in 1..Len(s) : k # q => r[k] = s[k]
    /\ Available(b, r) = Available(a, s) + (b - a) + e.size - s[q].size
    /\ Available(a, s) \in Int

LEMMA ListChanged ==
  ASSUME NEW s \in Seq(Area), Sorted(s), NEW q \in 1..Len(s), NEW e \in Area, FitsAt(s, q, e),
         NEW a \in Int, NEW b \in Int
  PROVE  Changed(s, q, e, [s EXCEPT ![q] = e], a, b)
<1> DEFINE r == [s EXCEPT ![q] = e]
           n == Len(s)
<1>1. r \in Seq(Area) /\ Len(r) = n /\ \A k \in 1..n : r[k] = IF k = q THEN e ELSE s[k]
  BY ExceptSeq
<1> HIDE DEF r
<1>2. /\ DOMAIN s = 1..n /\ n \in Nat
      /\ \A k \in 1..n : s[k].at \in Nat /\ s[k].size \in Nat \ {0} /\ SizesOf(s)[k] = s[k].size
      /\ Range(s) = {s[k] : k \in 1..n}
  BY ListOf
<1>3. DOMAIN r = 1..n /\ Range(r) = {r[k] : k \in 1..n}
      /\ \A k \in 1..n : SizesOf(r)[k] = r[k].size /\ r[k].size \in Nat \ {0}
  BY <1>1, ListOf
<1>4. \A i, j \in 1..n : i < j => s[i].at < s[j].at
  BY <1>2 DEF Sorted
<1>5. Sorted(r)
  <2> SUFFICES ASSUME NEW i \in 1..n, NEW j \in 1..n, i < j PROVE r[i].at < r[j].at
    BY <1>3 DEF Sorted
  <2>1. CASE i = q
    BY <1>1, <2>1 DEF FitsAt
  <2>2. CASE j = q
    BY <1>1, <2>2 DEF FitsAt
  <2>3. CASE i # q /\ j # q
    BY <1>1, <1>4, <2>3
  <2> QED BY <2>1, <2>2, <2>3
<1>6. Range(r) = (Range(s) \ {s[q]}) \cup {e}
  <2>1. \A k \in 1..n : k # q => s[k] # s[q]
    <3> SUFFICES ASSUME NEW k \in 1..n, k # q PROVE s[k].at # s[q].at
      OBVIOUS
    <3>1. k < q \/ q < k
      BY <1>2
    <3> QED BY <1>2, <1>4, <3>1
  <2> QED BY <1>1, <1>2, <1>3, <2>1
<1>7. Available(b, r) = Available(a, s) + (b - a) + e.size - s[q].size /\ Available(a, s) \in Int
  <2> DEFINE f == SizesOf(s)
             g == SizesOf(r)
  <2>1. \A k \in 1..n : f[k] \in Int /\ g[k] \in Int
    BY <1>2, <1>3
  <2>2. (\A k \in 1..n : k # q => g[k] = f[k]) /\ q \in Nat /\ q \in 1..n
    BY <1>1, <1>2, <1>3
  <2>3. g[q] = e.size /\ f[q] = s[q].size /\ e.size \in Int /\ s[q].size \in Int
    BY <1>1, <1>2, <1>3, AreaIs
  <2> HIDE DEF f, g, n
  <2>4. SumDiffers(a, b, f, g, n, q)
    <3>1. OneDiffers(f, g, n, q)
      BY <2>1, <2>2 DEF OneDiffers
    <3> QED BY <3>1, <1>2, <2>2, AddUpChanged
  <2>5. Available(b, r) = AddUp(b, g, n) /\ Available(a, s) = AddUp(a, f, n)
    BY <1>1 DEF Available, f, g, n
  <2> QED BY <2>2, <2>3, <2>4, <2>5 DEF SumDiffers
<1>8. r[q] = e /\ \A k \in 1..n : k # q => r[k] = s[k]
  BY <1>1
<1> QED BY <1>1, <1>5, <1>6, <1>7, <1>8 DEF r, Changed

\* A chunk comes onto the list between two others.
LEMMA ListInserted ==
  ASSUME NEW s \in Seq(Area), Sorted(s), NEW q \in 1..(Len(s) + 1), NEW e \in Area,
         \A k \in 1..Len(s) : /\ k < q => s[k].at < e.at
                              /\ q <= k => e.at < s[k].at,
         NEW a \in Int, NEW b \in Int
  PROVE  /\ InsertAt(s, q, e) \in Seq(Area) /\ Sorted(InsertAt(s, q, e))
         /\ Len(InsertAt(s, q, e)) = Len(s) + 1 /\ Range(InsertAt(s, q, e)) = Range(s) \cup {e}
         /\ Available(b, InsertAt(s, q, e)) = Available(a, s) + (b - a) + e.size
         /\ Available(a, s) \in Int
<1> DEFINE r == InsertAt(s, q, e)
           n == Len(s)
<1>1. /\ r \in Seq(Area) /\ Len(r) = n + 1
      /\ \A k \in 1..(n + 1) : r[k] = IF k < q THEN s[k] ELSE IF k = q THEN e ELSE s[k - 1]
  <2>1. r \in Seq(Area) /\ Len(r) = Len(s) + 1
    BY InsertAtLen
  <2>2. \A k \in 1..(Len(s) + 1) : r[k] = IF k < q THEN s[k] ELSE IF k = q THEN e ELSE s[k - 1]
    BY InsertAtItems
  <2> QED BY <2>1, <2>2
<1> HIDE DEF r
<1>2. /\ DOMAIN s = 1..n /\ n \in Nat
      /\ \A k \in 1..n : s[k].at \in Nat /\ s[k].size \in Nat \ {0} /\ SizesOf(s)[k] = s[k].size
      /\ Range(s) = {s[k] : k \in 1..n}
  BY ListOf
<1>3. DOMAIN r = 1..(n + 1) /\ (\A k \in 1..(n + 1) : SizesOf(r)[k] = r[k].size)
      /\ Range(r) = {r[k] : k \in 1..(n + 1)}
  BY <1>1, ListOf
<1>4. \A i, j \in 1..n : i < j => s[i].at < s[j].at
  BY <1>2 DEF Sorted
<1> HIDE DEF n
<1>5. Sorted(r)
  <2> SUFFICES ASSUME NEW i \in 1..(n + 1), NEW j \in 1..(n + 1), i < j PROVE r[i].at < r[j].at
    BY <1>3 DEF Sorted
  <2>1. CASE j < q
    <3>1. i < q /\ i \in 1..n /\ j \in 1..n
      BY <2>1, <1>2
    <3> QED BY <1>1, <1>4, <2>1, <3>1
  <2>2. CASE j = q
    <3>1. i < q /\ i \in 1..n
      BY <2>2, <1>2
    <3> QED BY <1>1, <2>2, <3>1 DEF n
  <2>3. CASE j > q
    <3>1. j - 1 \in 1..n /\ ~(j < q) /\ j # q /\ q <= j - 1
      BY <2>3, <1>2
    <3>2. r[j] = s[j - 1]
      BY <1>1, <3>1
    <3>3. CASE i < q
      <4>1. i \in 1..n /\ i < j - 1
        BY <2>3, <3>3, <1>2
      <4> QED BY <1>1, <1>4, <3>1, <3>2, <3>3, <4>1
    <3>4. CASE i = q
      <4>1. r[i] = e /\ e.at < s[j - 1].at
        BY <1>1, <3>1, <3>4 DEF n
      <4> QED BY <3>2, <4>1
    <3>5. CASE i > q
      <4>1. i - 1 \in 1..n /\ i - 1 < j - 1 /\ ~(i < q) /\ i # q
        BY <3>5, <1>2
      <4>2. r[i] = s[i - 1]
        BY <1>1, <4>1
      <4> QED BY <1>4, <3>1, <3>2, <4>1, <4>2
    <3> QED BY <3>3, <3>4, <3>5
  <2> QED BY <2>1, <2>2, <2>3
<1>6. Range(r) = Range(s) \cup {e}
  <2>1. ASSUME NEW k \in 1..(n + 1) PROVE r[k] \in Range(s) \cup {e}
    <3>1. CASE k < q
      <4>1. k \in 1..n
        BY <3>1, <1>2
      <4> QED BY <1>1, <1>2, <3>1, <4>1
    <3>2. CASE k = q
      BY <1>1, <3>2
    <3>3. CASE k > q
      <4>1. k - 1 \in 1..n /\ ~(k < q) /\ k # q
        BY <3>3, <1>2
      <4> QED BY <1>1, <1>2, <4>1
    <3> QED BY <3>1, <3>2, <3>3
  <2>2. e \in Range(r)
    <3>1. q \in 1..(n + 1) /\ r[q] = e
      BY <1>1 DEF n
    <3> QED BY <1>3, <3>1
  <2>3. ASSUME NEW k \in 1..n PROVE s[k] \in Range(r)
    <3>1. CASE k < q
      <4>1. k \in 1..(n + 1) /\ r[k] = s[k]
        BY <1>1, <1>2, <3>1
      <4> QED BY <1>3, <4>1
    <3>2. CASE ~(k < q)
      <4>1. k + 1 \in 1..(n + 1) /\ ~(k + 1 < q) /\ k + 1 # q /\ (k + 1) - 1 = k
        BY <1>2, <3>2
      <4>2. r[k + 1] = s[k]
        BY <1>1, <4>1
      <4> QED BY <1>3, <4>1, <4>2
    <3> QED BY <3>1, <3>2
  <2> QED BY <1>2, <1>3, <2>1, <2>2, <2>3
<1>7. Available(b, r) = Available(a, s) + (b - a) + e.size /\ Available(a, s) \in Int
  <2> DEFINE f == SizesOf(s)
             g == SizesOf(r)
             d == e.size
  <2>1. (\A k \in 1..n : f[k] \in Int) /\ q \in 1..(n + 1) /\ d \in Int
    <3>1. \A k \in 1..n : f[k] \in Int
      BY SMTT(30), <1>2
    <3>2. d \in Int
      BY AreaIs
    <3> HIDE DEF f, d
    <3> QED BY <3>1, <3>2 DEF n
  <2>2. \A k \in 1..(n + 1) : g[k] = IF k < q THEN f[k] ELSE IF k = q THEN d ELSE f[k - 1]
    <3> SUFFICES ASSUME NEW k \in 1..(n + 1)
                 PROVE  g[k] = IF k < q THEN f[k] ELSE IF k = q THEN d ELSE f[k - 1]
      OBVIOUS
    <3>1. CASE k < q
      <4>1. k \in 1..n
        BY <3>1, <1>2
      <4> QED BY <1>1, <1>2, <1>3, <3>1, <4>1
    <3>2. CASE k = q
      BY <1>1, <1>3, <3>2
    <3>3. CASE k > q
      <4>1. k - 1 \in 1..n /\ ~(k < q) /\ k # q
        BY <3>3, <1>2
      <4>2. r[k] = s[k - 1] /\ f[k - 1] = s[k - 1].size
        BY <1>1, <1>2, <4>1
      <4> QED BY <1>3, <4>1, <4>2
    <3> QED BY <3>1, <3>2, <3>3
  <2> HIDE DEF f, g, d
  <2>3. SumMore(a, b, f, g, n, d)
    <3>1. OneMore(f, g, n, q, d)
      BY <2>1, <2>2 DEF OneMore
    <3> QED BY <3>1, <1>2, <2>1, AddUpInserted
  <2>4. Available(b, r) = AddUp(b, g, n + 1) /\ Available(a, s) = AddUp(a, f, n)
    BY <1>1 DEF Available, f, g, n
  <2> QED BY <2>3, <2>4 DEF d, SumMore
<1> QED BY <1>1, <1>5, <1>6, <1>7 DEF r, n

\* Only the spare memory changes.
LEMMA SpareMoved ==
  ASSUME NEW s \in Seq(Area), NEW a \in Int, NEW b \in Int
  PROVE  Available(b, s) = Available(a, s) + (b - a) /\ Available(a, s) \in Int
<1> DEFINE f == SizesOf(s)
           n == Len(s)
<1>1. n \in Nat /\ 0 \in Nat /\ 0 \notin 1..n /\ \A k \in 1..n : f[k] \in Int
  BY ListOf
<1> HIDE DEF f, n
<1>2. OneDiffers(f, f, n, 0)
  BY <1>1 DEF OneDiffers
<1>3. SumDiffers(a, b, f, f, n, 0)
  BY <1>1, <1>2, AddUpChanged
<1> QED BY <1>1, <1>3 DEF SumDiffers, Available, f, n

LEMMA SizeSet ==
  ASSUME NEW r \in Area, NEW x \in Nat \ {0}
  PROVE  [r EXCEPT !.size = x] = [at |-> r.at, size |-> x] /\ [at |-> r.at, size |-> x] \in Area
BY DEF Area

\* Where mm_insert_chunk finds that a chunk belongs.
PlaceOf(a) == Cardinality({i \in DOMAIN freeChunks : freeChunks[i].at < a})

\* A place in the sorted list splits it into the chunks before and behind an address.
LEMMA PlaceIs ==
  ASSUME freeChunks \in Seq(Area), Sorted(freeChunks), NEW a \in Nat
  PROVE  /\ PlaceOf(a) \in 0..Len(freeChunks)
         /\ \A k \in 1..Len(freeChunks) : k <= PlaceOf(a) <=> freeChunks[k].at < a
<1> DEFINE n == Len(freeChunks)
           before == {i \in DOMAIN freeChunks : freeChunks[i].at < a}
<1>1. DOMAIN freeChunks = 1..n /\ n \in Nat /\ \A k \in 1..n : freeChunks[k].at \in Nat
  BY ListOf
<1>2. \A i, j \in 1..n : i < j => freeChunks[i].at < freeChunks[j].at
  BY <1>1 DEF Sorted
<1>3. PlaceOf(a) = Cardinality(before)
  BY DEF PlaceOf
<1>4. \A k \in 1..n : k \in before <=> freeChunks[k].at < a
  BY <1>1
<1>5. before \subseteq 1..n
  BY <1>1
<1> HIDE DEF before, n
<1>6. CASE before = {}
  <2>1. PlaceOf(a) = 0
    BY <1>3, <1>6, FS_EmptySet
  <2> QED BY <1>1, <1>4, <1>6, <2>1 DEF n
<1>7. CASE before # {}
  <2> DEFINE m == Max(before)
  <2>1. m \in before /\ \A k \in before : k <= m
    <3>1. before \in SUBSET (0..n)
      BY <1>1, <1>5
    <3> QED BY <1>1, <1>7, <3>1, Greatest
  <2> HIDE DEF m
  <2>2. m \in 1..n /\ freeChunks[m].at < a
    BY <1>4, <1>5, <2>1
  <2>3. ASSUME NEW k \in 1..m PROVE k \in before
    <3>1. k \in 1..n /\ (k = m \/ k < m)
      BY <1>1, <2>2
    <3>2. freeChunks[k].at < a
      BY <1>1, <1>2, <2>2, <3>1
    <3> QED BY <1>4, <3>1, <3>2
  <2>4. before = 1..m
    <3>1. \A k \in before : k \in 1..m
      BY <1>1, <1>5, <2>1, <2>2
    <3> QED BY <2>3, <3>1
  <2>5. PlaceOf(a) = m
    <3>1. 1 \in Int /\ m \in Int /\ m >= 1
      BY <2>2
    <3>2. Cardinality(1..m) = IF 1 > m THEN 0 ELSE m - 1 + 1
      BY <3>1, FS_Interval
    <3> QED BY <1>3, <2>4, <3>1, <3>2
  <2>6. \A k \in 1..n : k <= m <=> k \in before
    BY <1>1, <2>2, <2>4
  <2> QED BY <1>1, <1>4, <2>2, <2>5, <2>6 DEF n
<1> QED BY <1>6, <1>7

\* The chunks before and after an allocated one are the ones that may touch it.
LEMMA NeighboursTouch ==
  ASSUME MmTypes, Tiles(AllocatedAreas, FreeAreas, mpOffset), NEW a \in DOMAIN chunks
  PROVE  LET i == PlaceOf(a)
         IN  /\ i \in 0..Len(freeChunks)
             /\ \A k \in 1..Len(freeChunks) : /\ k <= i => freeChunks[k].at < a
                                              /\ k > i => a < freeChunks[k].at
             /\ \A k \in 1..Len(freeChunks) : EndOf(freeChunks[k]) = a => k = i
             /\ \A k \in 1..Len(freeChunks) : freeChunks[k].at = EndOf(ChunkAt(a)) => k = i + 1
<1> DEFINE i == PlaceOf(a)
           n == Len(freeChunks)
           c == ChunkAt(a)
           f(k) == freeChunks[k]
<1>1. /\ freeChunks \in Seq(Area) /\ Sorted(freeChunks) /\ a \in Nat
      /\ chunks[a].size \in Nat \ {0}
  BY DEF MmTypes, Block
<1>2. /\ DOMAIN freeChunks = 1..n /\ n \in Nat
      /\ \A k \in 1..n : f(k) \in FreeAreas /\ f(k).at \in Nat /\ EndOf(f(k)) \in Nat
                         /\ f(k).at < EndOf(f(k))
  BY SMTT(30), <1>1, ListOf, AreaIs DEF FreeAreas
<1>3. c \in AllocatedAreas /\ c \in Area /\ c.at = a /\ EndOf(c) \in Nat /\ a < EndOf(c)
  <2>1. c \in Area /\ c.at = a
    BY <1>1 DEF Area, ChunkAt
  <2> HIDE DEF c
  <2>2. EndOf(c) \in Nat /\ a < EndOf(c)
    BY <2>1, AreaIs
  <2> QED BY <2>1, <2>2 DEF c, AllocatedAreas
<1>4. i \in 0..n /\ \A k \in 1..n : k <= i <=> f(k).at < a
  BY <1>1, PlaceIs
<1>5. \A j, k \in 1..n : j < k => f(j).at < f(k).at
  BY <1>1, <1>2 DEF Sorted
<1> HIDE DEF i, n, c, f
<1>6. \A k \in 1..n : EndOf(f(k)) <= a \/ EndOf(c) <= f(k).at
  <2> SUFFICES ASSUME NEW k \in 1..n PROVE EndOf(f(k)) <= a \/ EndOf(c) <= f(k).at
    OBVIOUS
  <2>1. f(k) # c
    BY <1>2, <1>3 DEF Tiles
  <2> QED BY <1>2, <1>3, <2>1 DEF Tiles
<1>7. \A k \in 1..n : k > i => a < f(k).at
  <2> SUFFICES ASSUME NEW k \in 1..n, k > i PROVE a < f(k).at
    OBVIOUS
  <2>1. ~(f(k).at < a)
    BY <1>4
  <2> QED BY <1>1, <1>2, <1>3, <1>6, <2>1
<1>8. \A j, k \in 1..n : j < k => EndOf(f(j)) <= f(k).at
  <2> SUFFICES ASSUME NEW j \in 1..n, NEW k \in 1..n, j < k PROVE EndOf(f(j)) <= f(k).at
    OBVIOUS
  <2>1. f(j).at < f(k).at
    BY <1>5
  <2>2. f(j) # f(k)
    BY <1>2, <2>1
  <2>3. EndOf(f(j)) <= f(k).at \/ EndOf(f(k)) <= f(j).at
    BY <1>2, <2>2 DEF Tiles
  <2> QED BY <1>2, <2>1, <2>3
<1>9. \A k \in 1..n : EndOf(f(k)) = a => k = i
  <2> SUFFICES ASSUME NEW k \in 1..n, EndOf(f(k)) = a, k # i PROVE FALSE
    OBVIOUS
  <2>1. f(k).at < a
    BY <1>2
  <2>2. k <= i /\ k < i /\ i \in 1..n
    BY <1>2, <1>4, <2>1
  <2>3. f(i).at < a
    BY <1>4, <2>2
  <2>4. a <= f(i).at
    BY <1>8, <2>2
  <2> QED BY <1>1, <1>2, <2>2, <2>3, <2>4
<1>10. \A k \in 1..n : f(k).at = EndOf(c) => k = i + 1
  <2> SUFFICES ASSUME NEW k \in 1..n, f(k).at = EndOf(c), k # i + 1 PROVE FALSE
    OBVIOUS
  <2>1. ~(f(k).at < a)
    BY <1>1, <1>2, <1>3
  <2>2. k > i /\ i + 1 \in 1..n /\ i + 1 < k
    BY <1>2, <1>4, <2>1
  <2>3. a < f(i + 1).at /\ f(i + 1).at < f(k).at
    BY <1>4, <1>5, <1>7, <2>2
  <2>4. EndOf(f(i + 1)) <= a \/ EndOf(c) <= f(i + 1).at
    BY <1>6, <2>2
  <2> QED BY <1>1, <1>2, <1>3, <2>2, <2>3, <2>4
<1> QED BY <1>4, <1>7, <1>9, <1>10 DEF i, n, c, f

\* The list stays merged when chunks of it give way to one that nothing touches.
LEMMA MergedAfter ==
  ASSUME NEW F \in SUBSET Area, NEW offset, Merged(F, offset), NEW R, NEW m \in Area,
         \A f \in F \ R : EndOf(f) # m.at /\ f.at # EndOf(m), EndOf(m) # offset
  PROVE  Merged((F \ R) \cup {m}, offset)
<1>1. EndOf(m) # m.at
  BY AreaIs
<1> QED BY <1>1 DEF Merged

------------------------------------------------------------------------------
(* The mm allocator: a chunk is given back *)

\* A chunk c is given back to a list s with spare memory from off on: it
\* belongs behind the first i chunks, and touches no others than its neighbours.
JoinsBefore(s, c, i) == i > 0 /\ EndOf(s[i]) = c.at
JoinsAfter(s, c, i) == i < Len(s) /\ EndOf(c) = s[i + 1].at
Freeing(B, s, c, i, off) ==
    /\ s \in Seq(Area) /\ Sorted(s) /\ c \in Area /\ off \in Nat /\ i \in 0..Len(s)
    /\ B \in SUBSET Area /\ PoolHdr \in Nat /\ PoolHdr <= off
    /\ Tiles(B, Range(s) \cup {c}, off) /\ Merged(Range(s), off)
    /\ \A k \in 1..Len(s) : (k <= i => s[k].at < c.at) /\ (k > i => c.at < s[k].at)
    /\ \A k \in 1..Len(s) : EndOf(s[k]) = c.at => k = i
    /\ \A k \in 1..Len(s) : s[k].at = EndOf(c) => k = i + 1

\* The list r and the spare memory from off2 on that this must lead to.
GivenBack(B, s, c, off, top, r, off2) ==
    /\ r \in Seq(Area) /\ Sorted(r) /\ off2 \in Nat /\ PoolHdr <= off2 /\ off2 <= off
    /\ Tiles(B, Range(r), off2) /\ Merged(Range(r), off2)
    /\ Available(top - off2, r) = Available(top - off, s) + c.size

\* The list with another chunk in place of the q-th.
With(s, q, from, size) == [s EXCEPT ![q] = [at |-> from, size |-> size]]

\* What the other lemmas use of such a list.
LEMMA FreeingIs ==
  ASSUME NEW B, NEW s, NEW c, NEW i, NEW off, Freeing(B, s, c, i, off)
  PROVE  /\ Len(s) \in Nat /\ i \in 0..Len(s) /\ off \in Nat
         /\ c \in Area /\ c.at \in Nat /\ c.size \in Nat \ {0} /\ EndOf(c) = c.at + c.size
         /\ Range(s) \in SUBSET Area /\ Range(s) \cup {c} \in SUBSET Area
         /\ \A k \in 1..Len(s) : /\ s[k] \in Range(s) /\ s[k] \in Area
                                 /\ s[k].at \in Nat /\ s[k].size \in Nat \ {0}
                                 /\ EndOf(s[k]) = s[k].at + s[k].size
         /\ ~JoinsBefore(s, c, i) => \A f \in Range(s) : EndOf(f) # c.at
         /\ ~JoinsAfter(s, c, i) => \A f \in Range(s) : f.at # EndOf(c)
         /\ JoinsBefore(s, c, i) => i \in 1..Len(s)
         /\ JoinsAfter(s, c, i) => i + 1 \in 1..Len(s)
<1>1. s \in Seq(Area) /\ c \in Area /\ off \in Nat /\ i \in 0..Len(s)
  BY DEF Freeing
<1>2. /\ Len(s) \in Nat /\ Range(s) = {s[k] : k \in 1..Len(s)} /\ Range(s) \subseteq Area
      /\ \A k \in 1..Len(s) : s[k] \in Area
  BY <1>1, ListOf
<1>3. \A k \in 1..Len(s) : s[k].at \in Nat /\ s[k].size \in Nat \ {0} /\ EndOf(s[k]) = s[k].at + s[k].size
  BY <1>2, AreaIs
<1>4. c.at \in Nat /\ c.size \in Nat \ {0} /\ EndOf(c) = c.at + c.size
  BY <1>1, AreaIs
<1>5. JoinsBefore(s, c, i) => i \in 1..Len(s)
  BY <1>1, <1>2 DEF JoinsBefore
<1>6. JoinsAfter(s, c, i) => i + 1 \in 1..Len(s)
  BY <1>1, <1>2 DEF JoinsAfter
<1>7. ASSUME ~JoinsBefore(s, c, i), NEW f \in Range(s) PROVE EndOf(f) # c.at
  <2>1. PICK k \in 1..Len(s) : f = s[k]
    BY <1>2
  <2>2. EndOf(s[k]) = c.at => k = i
    BY DEF Freeing
  <2>3. k > 0
    OBVIOUS
  <2> QED BY <1>7, <2>1, <2>2, <2>3 DEF JoinsBefore
<1>8. ASSUME ~JoinsAfter(s, c, i), NEW f \in Range(s) PROVE f.at # EndOf(c)
  <2>1. PICK k \in 1..Len(s) : f = s[k]
    BY <1>2
  <2>2. s[k].at = EndOf(c) => k = i + 1
    BY DEF Freeing
  <2>3. k = i + 1 => i < Len(s)
    BY <1>1, <1>2
  <2> QED BY <1>8, <2>1, <2>2, <2>3 DEF JoinsAfter
<1> QED BY <1>1, <1>2, <1>3, <1>4, <1>5, <1>6, <1>7, <1>8

\* It touches nothing and becomes a chunk of the list.
LEMMA FreedApart ==
  ASSUME NEW B, NEW s, NEW c, NEW i, NEW off, NEW top \in Nat, Freeing(B, s, c, i, off),
         ~JoinsBefore(s, c, i), ~JoinsAfter(s, c, i), EndOf(c) # off
  PROVE  /\ GivenBack(B, s, c, off, top, InsertAt(s, i + 1, c), off)
         /\ Len(InsertAt(s, i + 1, c)) = Len(s) + 1
<1> DEFINE r == InsertAt(s, i + 1, c)
           F == Range(s)
           spare == top - off
<1>1. /\ s \in Seq(Area) /\ Sorted(s) /\ c \in Area /\ off \in Nat /\ PoolHdr <= off
      /\ i + 1 \in 1..(Len(s) + 1) /\ spare \in Int /\ F \in SUBSET Area
  BY FreeingIs DEF Freeing
<1>2. \A k \in 1..Len(s) : (k < i + 1 => s[k].at < c.at) /\ (i + 1 <= k => c.at < s[k].at)
  <2>1. \A k \in 1..Len(s) : (k <= i => s[k].at < c.at) /\ (k > i => c.at < s[k].at)
    BY DEF Freeing
  <2>2. i \in Nat /\ Len(s) \in Nat
    BY FreeingIs
  <2> QED BY <2>1, <2>2
<1> HIDE DEF r, spare
<1>3. /\ r \in Seq(Area) /\ Sorted(r) /\ Len(r) = Len(s) + 1 /\ Range(r) = F \cup {c}
      /\ Available(spare, r) = Available(spare, s) + (spare - spare) + c.size
      /\ Available(spare, s) \in Int
  BY <1>1, <1>2, ListInserted DEF r
<1>4. Merged(F \cup {c}, off)
  <2>1. \A f \in F : EndOf(f) # c.at /\ f.at # EndOf(c)
    BY FreeingIs
  <2>2. Merged(F, off)
    BY DEF Freeing
  <2>3. (F \ {}) \cup {c} = F \cup {c} /\ \A f \in F \ {} : EndOf(f) # c.at /\ f.at # EndOf(c)
    BY <2>1
  <2> HIDE DEF F
  <2>4. Merged((F \ {}) \cup {c}, off)
    BY <1>1, <2>2, <2>3, MergedAfter
  <2> QED BY <2>3, <2>4
<1>5. Tiles(B, F \cup {c}, off)
  BY DEF Freeing
<1>6. Available(spare, r) = Available(spare, s) + c.size
  <2>1. c.size \in Nat
    BY <1>1, AreaIs
  <2> QED BY <1>1, <1>3, <2>1
<1> HIDE DEF F
<1>7. GivenBack(B, s, c, off, top, r, off)
  BY <1>1, <1>3, <1>4, <1>5, <1>6 DEF GivenBack, spare
<1> QED BY <1>3, <1>7 DEF r

\* It touches the spare area only, and becomes part of it.
LEMMA FreedAtSpare ==
  ASSUME NEW B, NEW s, NEW c, NEW i, NEW off, NEW top \in Nat, Freeing(B, s, c, i, off),
         ~JoinsBefore(s, c, i), ~JoinsAfter(s, c, i), EndOf(c) = off
  PROVE  GivenBack(B, s, c, off, top, s, off - c.size)
<1> DEFINE F == Range(s)
           G == F \cup {c}
<1>1. /\ s \in Seq(Area) /\ Sorted(s) /\ c \in Area /\ off \in Nat /\ PoolHdr \in Nat
      /\ F \in SUBSET Area /\ G \in SUBSET Area /\ B \in SUBSET Area
      /\ c.at \in Nat /\ c.size \in Nat \ {0} /\ off - c.size = c.at
  <2>1. c.at \in Nat /\ c.size \in Nat \ {0} /\ EndOf(c) = c.at + c.size
    BY FreeingIs
  <2>2. off - c.size = c.at
    BY ONLY <2>1, EndOf(c) = off
  <2> QED BY <2>1, <2>2, FreeingIs DEF Freeing
<1>2. Tiles(B, G, off) /\ Merged(F, off)
  BY DEF Freeing
<1>3. \A f \in F : EndOf(f) # c.at /\ f.at # EndOf(c)
  BY FreeingIs
<1>4. c \notin F
  BY <1>2 DEF Merged
<1>5. c \in G /\ G \ {c} = F
  BY <1>4
<1> HIDE DEF G, F
<1>6. Tiles(B, F, c.at) /\ PoolHdr <= c.at
  BY <1>1, <1>2, <1>5, TilesShrunk
<1>7. Merged(F, c.at)
  BY <1>2, <1>3 DEF Merged
<1>8. Available(top - c.at, s) = Available(top - off, s) + ((top - c.at) - (top - off))
      /\ Available(top - off, s) \in Int
  <2>1. top - c.at \in Int /\ top - off \in Int
    BY <1>1
  <2> QED BY <1>1, <2>1, SpareMoved
<1>9. c.at <= off /\ Available(top - c.at, s) = Available(top - off, s) + c.size
  BY SMTT(30), <1>1, <1>8
<1> QED BY <1>1, <1>6, <1>7, <1>9 DEF GivenBack, F

\* It touches the chunk after it, and becomes its beginning.
LEMMA FreedBefore ==
  ASSUME NEW B, NEW s, NEW c, NEW i, NEW off, NEW top \in Nat, Freeing(B, s, c, i, off),
         ~JoinsBefore(s, c, i), JoinsAfter(s, c, i)
  PROVE  /\ GivenBack(B, s, c, off, top, With(s, i + 1, c.at, c.size + s[i + 1].size), off)
         /\ Len(With(s, i + 1, c.at, c.size + s[i + 1].size)) = Len(s)
<1> DEFINE m == [at |-> c.at, size |-> c.size + s[i + 1].size]
           r == [s EXCEPT ![i + 1] = m]
           q == i + 1
           next == s[q]
           F == Range(s)
           G == F \cup {c}
           spare == top - off
<1>0. m = [at |-> c.at, size |-> c.size + s[i + 1].size]
  OBVIOUS
<1> HIDE DEF m
<1>1. /\ s \in Seq(Area) /\ Sorted(s) /\ c \in Area /\ off \in Nat /\ PoolHdr <= off
      /\ q \in 1..Len(s) /\ F \in SUBSET Area /\ G \in SUBSET Area /\ B \in SUBSET Area
      /\ Tiles(B, G, off) /\ Merged(F, off)
  <2>1. q \in 1..Len(s) /\ F \in SUBSET Area /\ G \in SUBSET Area
    BY FreeingIs
  <2> HIDE DEF q
  <2> QED BY <2>1 DEF Freeing
<1>2. /\ c.at \in Nat /\ c.size \in Nat \ {0} /\ EndOf(c) = c.at + c.size
      /\ next \in F /\ next \in Area /\ next.at \in Nat /\ next.size \in Nat \ {0}
      /\ EndOf(next) = next.at + next.size /\ EndOf(c) = next.at
  BY <1>1, FreeingIs DEF JoinsAfter
<1>3. m \in Area /\ m.at = c.at /\ m.size = c.size + next.size /\ EndOf(m) = EndOf(next)
  <2> HIDE DEF next
  <2>1. c.size + next.size \in Nat \ {0} /\ m = [at |-> c.at, size |-> c.size + next.size]
    BY <1>0, <1>2 DEF next, q
  <2>2. m \in Area /\ m.at = c.at /\ m.size = c.size + next.size
    BY <1>2, <2>1 DEF Area
  <2> QED BY <1>2, <2>2 DEF EndOf
<1>4. \A f \in F : EndOf(f) # c.at
  BY FreeingIs
<1>5. \A k \in 1..Len(s) : (k < q => s[k].at < m.at) /\ (q < k => m.at < s[k].at)
  <2>1. \A k \in 1..Len(s) : (k <= i => s[k].at < c.at) /\ (k > i => c.at < s[k].at)
    BY DEF Freeing
  <2>2. i \in Nat /\ Len(s) \in Nat
    BY FreeingIs
  <2> QED BY <1>3, <2>1, <2>2
<1> HIDE DEF r, spare, next, q, F, G
<1>6. spare \in Int
  BY <1>1 DEF spare
<1>7. /\ r \in Seq(Area) /\ Sorted(r) /\ Len(r) = Len(s)
      /\ Range(r) = (F \ {next}) \cup {m}
      /\ Available(spare, r) = Available(spare, s) + (spare - spare) + m.size - next.size
      /\ Available(spare, s) \in Int
  <2> DEFINE w == [s EXCEPT ![q] = m]
  <2>1. Changed(s, q, m, w, spare, spare)
    <3>1. FitsAt(s, q, m)
      BY <1>5 DEF FitsAt
    <3> QED BY ONLY <1>1, <1>3, <1>6, <3>1, ListChanged
  <2> HIDE DEF w
  <2>2. r = w
    BY DEF r, w, q
  <2> QED BY <2>1, <2>2 DEF next, F, Changed
<1>8. Available(spare, r) = Available(spare, s) + c.size
  BY <1>2, <1>3, <1>6, <1>7
<1>9. c \notin F
  <2>1. EndOf(c) = next.at
    BY <1>2
  <2> QED BY <1>1, <1>2, <2>1 DEF Merged
<1>10. Tiles(B, (F \ {next}) \cup {m}, off)
  <2>1. c \in G /\ next \in G
    BY <1>2 DEF G
  <2>2. Tiles(B, (G \ {c, next}) \cup {m}, off)
    BY ONLY <1>1, <1>2, <1>3, <2>1, TilesJoined
  <2>3. G \ {c, next} = F \ {next}
    BY <1>9 DEF G
  <2> QED BY <2>2, <2>3
<1>11. Merged((F \ {next}) \cup {m}, off)
  <2>1. \A f \in F \ {next} : EndOf(f) # m.at /\ f.at # EndOf(m)
    BY <1>1, <1>2, <1>3, <1>4 DEF Merged
  <2>2. EndOf(m) # off
    BY <1>1, <1>2, <1>3 DEF Merged
  <2> QED BY <1>1, <1>3, <2>1, <2>2, MergedAfter
<1>12. GivenBack(B, s, c, off, top, r, off)
  BY <1>1, <1>7, <1>8, <1>10, <1>11 DEF GivenBack, spare
<1> QED BY <1>7, <1>12 DEF r, q, m, With

\* It touches the chunk before it, and becomes its end.
LEMMA FreedAfter ==
  ASSUME NEW B, NEW s, NEW c, NEW i, NEW off, NEW top \in Nat, Freeing(B, s, c, i, off),
         JoinsBefore(s, c, i), ~JoinsAfter(s, c, i), EndOf(c) # off
  PROVE  /\ GivenBack(B, s, c, off, top, With(s, i, s[i].at, s[i].size + c.size), off)
         /\ Len(With(s, i, s[i].at, s[i].size + c.size)) = Len(s)
<1> DEFINE m == [at |-> s[i].at, size |-> s[i].size + c.size]
           r == [s EXCEPT ![i] = m]
           prev == s[i]
           F == Range(s)
           G == F \cup {c}
           spare == top - off
<1>0. m = [at |-> s[i].at, size |-> s[i].size + c.size]
  OBVIOUS
<1> HIDE DEF m
<1>1. /\ s \in Seq(Area) /\ Sorted(s) /\ c \in Area /\ off \in Nat /\ PoolHdr <= off
      /\ i \in 1..Len(s) /\ F \in SUBSET Area /\ G \in SUBSET Area /\ B \in SUBSET Area
      /\ Tiles(B, G, off) /\ Merged(F, off)
  BY FreeingIs DEF Freeing
<1>2. /\ c.at \in Nat /\ c.size \in Nat \ {0} /\ EndOf(c) = c.at + c.size
      /\ prev \in F /\ prev \in Area /\ prev.at \in Nat /\ prev.size \in Nat \ {0}
      /\ EndOf(prev) = prev.at + prev.size /\ EndOf(prev) = c.at
  BY <1>1, FreeingIs DEF JoinsBefore
<1>3. m \in Area /\ m.at = prev.at /\ m.size = prev.size + c.size /\ EndOf(m) = EndOf(c)
  <2> HIDE DEF prev
  <2>1. prev.size + c.size \in Nat \ {0} /\ m = [at |-> prev.at, size |-> prev.size + c.size]
    BY <1>0, <1>2 DEF prev
  <2>2. m \in Area /\ m.at = prev.at /\ m.size = prev.size + c.size
    BY <1>2, <2>1 DEF Area
  <2> QED BY <1>2, <2>2 DEF EndOf
<1>4. \A f \in F : f.at # EndOf(c)
  BY FreeingIs
<1>5. \A k \in 1..Len(s) : (k < i => s[k].at < m.at) /\ (i < k => m.at < s[k].at)
  <2>1. \A j, k \in 1..Len(s) : j < k => s[j].at < s[k].at
    BY <1>1, ListOf DEF Sorted
  <2> QED BY <1>1, <1>3, <2>1
<1> HIDE DEF r, spare, prev, F, G
<1>6. spare \in Int
  BY <1>1 DEF spare
<1>7. /\ r \in Seq(Area) /\ Sorted(r) /\ Len(r) = Len(s)
      /\ Range(r) = (F \ {prev}) \cup {m}
      /\ Available(spare, r) = Available(spare, s) + (spare - spare) + m.size - prev.size
      /\ Available(spare, s) \in Int
  <2> DEFINE w == [s EXCEPT ![i] = m]
  <2>1. Changed(s, i, m, w, spare, spare)
    <3>1. FitsAt(s, i, m)
      BY <1>5 DEF FitsAt
    <3> QED BY ONLY <1>1, <1>3, <1>6, <3>1, ListChanged
  <2> HIDE DEF w
  <2>2. r = w
    BY DEF r, w
  <2> QED BY <2>1, <2>2 DEF prev, F, Changed
<1>8. Available(spare, r) = Available(spare, s) + c.size
  BY <1>2, <1>3, <1>6, <1>7
<1>9. c \notin F
  <2>1. EndOf(prev) = c.at
    BY <1>2
  <2> QED BY <1>1, <1>2, <2>1 DEF Merged
<1>10. Tiles(B, (F \ {prev}) \cup {m}, off)
  <2>1. c \in G /\ prev \in G
    BY <1>2 DEF G
  <2>2. Tiles(B, (G \ {prev, c}) \cup {m}, off)
    BY ONLY <1>1, <1>2, <1>3, <2>1, TilesJoined
  <2>3. G \ {prev, c} = F \ {prev}
    BY <1>9 DEF G
  <2> QED BY <2>2, <2>3
<1>11. Merged((F \ {prev}) \cup {m}, off)
  <2>1. \A f \in F \ {prev} : EndOf(f) # m.at /\ f.at # EndOf(m)
    BY <1>1, <1>2, <1>3, <1>4 DEF Merged
  <2>2. EndOf(m) # off
    BY <1>3
  <2> QED BY <1>1, <1>3, <2>1, <2>2, MergedAfter
<1>12. GivenBack(B, s, c, off, top, r, off)
  BY <1>1, <1>7, <1>8, <1>10, <1>11 DEF GivenBack, spare
<1> QED BY <1>7, <1>12 DEF r, m, With

\* It touches the last chunk of the list and the spare area.
LEMMA FreedLast ==
  ASSUME NEW B, NEW s, NEW c, NEW i, NEW off, NEW top \in Nat, Freeing(B, s, c, i, off),
         JoinsBefore(s, c, i), ~JoinsAfter(s, c, i), EndOf(c) = off
  PROVE  /\ GivenBack(B, s, c, off, top, RemoveAt(s, i), off - (c.size + s[i].size))
         /\ Len(RemoveAt(s, i)) = Len(s) - 1
<1> DEFINE r == RemoveAt(s, i)
           prev == s[i]
           m == [at |-> prev.at, size |-> prev.size + c.size]
           F == Range(s)
           G == F \cup {c}
           spare == top - off
           spare2 == top - prev.at
<1>1. /\ s \in Seq(Area) /\ Sorted(s) /\ c \in Area /\ off \in Nat /\ PoolHdr \in Nat
      /\ i \in 1..Len(s) /\ F \in SUBSET Area /\ G \in SUBSET Area /\ B \in SUBSET Area
      /\ Tiles(B, G, off) /\ Merged(F, off)
  BY ZenonT(30), FreeingIs DEF Freeing
<1>2. /\ c.at \in Nat /\ c.size \in Nat \ {0} /\ EndOf(c) = c.at + c.size
      /\ prev \in F /\ prev \in Area /\ prev.at \in Nat /\ prev.size \in Nat \ {0}
      /\ EndOf(prev) = prev.at + prev.size /\ EndOf(prev) = c.at
  BY <1>1, FreeingIs DEF JoinsBefore
<1>3. m \in Area /\ m.at = prev.at /\ m.size = prev.size + c.size /\ EndOf(m) = EndOf(c)
  <2> HIDE DEF prev
  <2>1. prev.size + c.size \in Nat \ {0}
    BY <1>2
  <2>2. m \in Area /\ m.at = prev.at /\ m.size = prev.size + c.size
    BY <1>2, <2>1 DEF Area
  <2> QED BY <1>2, <2>2 DEF EndOf
<1> HIDE DEF r, spare, spare2, prev, F, G, m
<1>4. spare \in Int /\ spare2 \in Int
  BY <1>1, <1>2 DEF spare, spare2
<1>5. /\ r \in Seq(Area) /\ Sorted(r) /\ Len(r) = Len(s) - 1 /\ Range(r) = F \ {prev}
      /\ Available(spare2, r) = Available(spare, s) + (spare2 - spare) - prev.size
      /\ Available(spare, s) \in Int
  BY <1>1, <1>4, ListDropped DEF r, prev, F
<1>6. off - (c.size + prev.size) = prev.at
  <2>1. EndOf(c) = off
    OBVIOUS
  <2> QED BY <1>2, <2>1
<1>7. Available(spare2, r) = Available(spare, s) + c.size
  <2>1. spare2 - spare = c.size + prev.size
    BY SMTT(60), <1>1, <1>2, <1>6 DEF spare, spare2
  <2> QED BY SMTT(30), <1>2, <1>4, <1>5, <2>1
<1>8. c \notin F
  <2>1. EndOf(prev) = c.at
    BY <1>2
  <2> QED BY <1>1, <1>2, <2>1 DEF Merged
<1>9. Tiles(B, F \ {prev}, prev.at) /\ PoolHdr <= prev.at
  <2> DEFINE G1 == (G \ {prev, c}) \cup {m}
  <2>1. c \in G /\ prev \in G
    BY <1>2 DEF G
  <2>2. Tiles(B, G1, off) /\ m \notin B \cup G
    BY ONLY <1>1, <1>2, <1>3, <2>1, TilesJoined
  <2>3. G1 \ {m} = F \ {prev}
    BY <1>8, <2>2 DEF G
  <2>4. G1 \in SUBSET Area /\ m \in G1 /\ EndOf(m) = off
    BY <1>1, <1>3
  <2> HIDE DEF G1
  <2>5. Tiles(B, G1 \ {m}, m.at) /\ PoolHdr <= m.at
    BY ONLY <1>1, <2>2, <2>4, TilesShrunk
  <2> QED BY <1>3, <2>3, <2>5
<1>10. Merged(F \ {prev}, prev.at)
  BY <1>1, <1>2 DEF Merged
<1>11. prev.at \in Nat /\ prev.at <= off
  BY <1>1, <1>2, <1>6
<1>12. GivenBack(B, s, c, off, top, r, prev.at)
  BY <1>5, <1>7, <1>9, <1>10, <1>11 DEF GivenBack, spare, spare2
<1> QED BY <1>5, <1>6, <1>12 DEF r, prev

\* It fills the gap between two chunks, which become one.
LEMMA FreedBetween ==
  ASSUME NEW B, NEW s, NEW c, NEW i, NEW off, NEW top \in Nat, Freeing(B, s, c, i, off),
         JoinsBefore(s, c, i), JoinsAfter(s, c, i)
  PROVE  /\ GivenBack(B, s, c, off, top, RemoveAt(With(s, i, s[i].at, s[i].size + c.size + s[i + 1].size), i + 1), off)
         /\ Len(RemoveAt(With(s, i, s[i].at, s[i].size + c.size + s[i + 1].size), i + 1)) = Len(s) - 1
<1> DEFINE m == [at |-> s[i].at, size |-> s[i].size + c.size + s[i + 1].size]
           w == [s EXCEPT ![i] = m]
           q == i + 1
           r == RemoveAt(w, q)
           prev == s[i]
           next == s[q]
           m1 == [at |-> prev.at, size |-> prev.size + c.size]
           F == Range(s)
           G == F \cup {c}
           spare == top - off
<1>0. m = [at |-> s[i].at, size |-> s[i].size + c.size + s[i + 1].size]
  OBVIOUS
<1> HIDE DEF m
<1>1. /\ s \in Seq(Area) /\ Sorted(s) /\ c \in Area /\ off \in Nat /\ PoolHdr <= off
      /\ i \in 1..Len(s) /\ q \in 1..Len(s) /\ q # i
      /\ F \in SUBSET Area /\ G \in SUBSET Area /\ B \in SUBSET Area
      /\ Tiles(B, G, off) /\ Merged(F, off)
  <2>1. i \in 1..Len(s) /\ q \in 1..Len(s) /\ F \in SUBSET Area /\ G \in SUBSET Area
    BY FreeingIs
  <2>2. q # i
    BY <2>1
  <2> HIDE DEF q
  <2> QED BY <2>1, <2>2 DEF Freeing
<1>2. /\ c.at \in Nat /\ c.size \in Nat \ {0} /\ EndOf(c) = c.at + c.size
      /\ prev \in F /\ prev \in Area /\ prev.at \in Nat /\ prev.size \in Nat \ {0}
      /\ EndOf(prev) = prev.at + prev.size /\ EndOf(prev) = c.at
  BY <1>1, FreeingIs DEF JoinsBefore
<1>3. /\ next \in F /\ next \in Area /\ next.at \in Nat /\ next.size \in Nat \ {0}
      /\ EndOf(next) = next.at + next.size /\ EndOf(c) = next.at
  BY <1>1, FreeingIs DEF JoinsAfter
<1>4. m1 \in Area /\ m1.at = prev.at /\ m1.size = prev.size + c.size /\ EndOf(m1) = EndOf(c)
  <2> HIDE DEF prev
  <2>1. prev.size + c.size \in Nat \ {0}
    BY <1>2
  <2>2. m1 \in Area /\ m1.at = prev.at /\ m1.size = prev.size + c.size
    BY <1>2, <2>1 DEF Area
  <2> QED BY <1>2, <2>2 DEF EndOf
<1>5. m \in Area /\ m.at = prev.at /\ m.size = prev.size + c.size + next.size /\ EndOf(m) = EndOf(next)
  <2> HIDE DEF prev, next
  <2>1. prev.size + c.size + next.size \in Nat \ {0}
    BY <1>2, <1>3
  <2>2. m = [at |-> prev.at, size |-> prev.size + c.size + next.size]
    BY <1>0 DEF prev, next, q
  <2>3. m \in Area /\ m.at = prev.at /\ m.size = prev.size + c.size + next.size
    BY <1>2, <2>1, <2>2 DEF Area
  <2> QED BY <1>2, <1>3, <2>3 DEF EndOf
<1>6. FitsAt(s, i, m)
  <2>1. \A j, k \in 1..Len(s) : j < k => s[j].at < s[k].at
    BY <1>1, ListOf DEF Sorted
  <2> QED BY <1>1, <1>5, <2>1 DEF FitsAt
<1> HIDE DEF w, r, spare, prev, next, q, F, G, m1
<1>7. spare \in Int
  BY <1>1 DEF spare
<1>8. /\ w \in Seq(Area) /\ Sorted(w) /\ Len(w) = Len(s) /\ w[q] = next
      /\ Range(w) = (F \ {prev}) \cup {m}
      /\ Available(spare, w) = Available(spare, s) + (spare - spare) + m.size - prev.size
      /\ Available(spare, s) \in Int
  <2>1. Changed(s, i, m, [s EXCEPT ![i] = m], spare, spare)
    BY ONLY <1>1, <1>5, <1>6, <1>7, ListChanged
  <2>2. Changed(s, i, m, w, spare, spare)
    BY <2>1 DEF w
  <2> QED BY <1>1, <2>2 DEF Changed, F, prev, next
<1>9. /\ r \in Seq(Area) /\ Sorted(r) /\ Len(r) = Len(w) - 1 /\ Range(r) = Range(w) \ {next}
      /\ Available(spare, r) = Available(spare, w) + (spare - spare) - next.size
      /\ Available(spare, w) \in Int
  <2>1. q \in 1..Len(w)
    BY <1>1, <1>8
  <2>2. /\ r \in Seq(Area) /\ Sorted(r) /\ Len(r) = Len(w) - 1 /\ Range(r) = Range(w) \ {w[q]}
        /\ Available(spare, r) = Available(spare, w) + (spare - spare) - w[q].size
        /\ Available(spare, w) \in Int
    BY ZenonT(30), <1>7, <1>8, <2>1, ListDropped DEF r
  <2> QED BY <1>8, <2>2
<1>10. Available(spare, r) = Available(spare, s) + c.size
  <2>1. Available(spare, w) = Available(spare, s) + c.size + next.size
    <3>1. m.size = prev.size + c.size + next.size
      BY <1>5
    <3>2. Available(spare, w) = Available(spare, s) + (spare - spare) + m.size - prev.size
      BY <1>8
    <3>3. c.size \in Int /\ prev.size \in Int /\ next.size \in Int /\ Available(spare, s) \in Int
      BY <1>2, <1>3, <1>8
    <3> QED BY ONLY <1>7, <3>1, <3>2, <3>3
  <2>2. Available(spare, r) = Available(spare, w) - next.size
    BY <1>3, <1>7, <1>9
  <2> QED BY SMTT(30), <1>2, <1>3, <1>8, <2>1, <2>2
<1>11. c \notin F
  <2>1. EndOf(prev) = c.at
    BY <1>2
  <2> QED BY <1>1, <1>2, <2>1 DEF Merged
<1>12. Range(r) = (F \ {prev, next}) \cup {m}
  <2>1. m.at < next.at
    BY <1>2, <1>3, <1>5
  <2>2. m # next
    BY <1>3, <2>1
  <2> QED BY <1>8, <1>9, <2>2
<1>13. Tiles(B, (F \ {prev, next}) \cup {m}, off)
  <2> DEFINE G1 == (G \ {prev, c}) \cup {m1}
  <2>1. c \in G /\ prev \in G
    BY <1>2 DEF G
  <2>2. Tiles(B, G1, off) /\ m1 \notin B \cup G
    BY ONLY <1>1, <1>2, <1>4, <2>1, TilesJoined
  <2>3. next # prev /\ next # c
    <3>1. prev.at < next.at /\ c.at < next.at
      BY <1>2, <1>3
    <3> QED BY <1>2, <1>3, <3>1
  <2>4. G1 \in SUBSET Area /\ m1 \in G1 /\ next \in G1
    BY <1>1, <1>3, <1>4, <2>3 DEF G
  <2>5. G1 \ {m1, next} = F \ {prev, next}
    BY <1>11, <2>2 DEF G
  <2> HIDE DEF G1
  <2>6. Tiles(B, (G1 \ {m1, next}) \cup {m}, off)
    BY ONLY <1>1, <1>3, <1>4, <1>5, <2>2, <2>4, TilesJoined
  <2> QED BY <2>5, <2>6
<1>14. Merged((F \ {prev, next}) \cup {m}, off)
  <2>1. \A f \in F \ {prev, next} : EndOf(f) # m.at /\ f.at # EndOf(m)
    BY <1>1, <1>2, <1>3, <1>5 DEF Merged
  <2>2. EndOf(m) # off
    BY <1>1, <1>3, <1>5 DEF Merged
  <2> QED BY <1>1, <1>5, <2>1, <2>2, MergedAfter
<1>15. GivenBack(B, s, c, off, top, r, off)
  <2>1. off <= off /\ off \in Nat /\ PoolHdr <= off /\ r \in Seq(Area) /\ Sorted(r)
    BY <1>1, <1>9
  <2>2. Tiles(B, Range(r), off) /\ Merged(Range(r), off)
    BY ONLY <1>12, <1>13, <1>14
  <2>3. Available(top - off, r) = Available(top - off, s) + c.size
    BY ONLY <1>10 DEF spare
  <2> QED BY <2>1, <2>2, <2>3 DEF GivenBack
<1> QED BY <1>8, <1>9, <1>15 DEF r, w, q, m, With

LEMMA SizePut ==
  ASSUME NEW s \in Seq(Area), NEW q \in 1..Len(s), NEW x \in Nat \ {0}
  PROVE  [s EXCEPT ![q].size = x] = [s EXCEPT ![q] = [at |-> s[q].at, size |-> x]]
<1>1. s[q] \in Area /\ DOMAIN s = 1..Len(s)
  BY ListOf
<1>2. [s[q] EXCEPT !.size = x] = [at |-> s[q].at, size |-> x]
  BY <1>1, SizeSet
<1>3. [s EXCEPT ![q].size = x] = [s EXCEPT ![q] = [s[q] EXCEPT !.size = x]]
  OBVIOUS
<1> QED BY <1>2, <1>3

\* What mm_insert_chunk must leave.
Inserted(a) ==
    /\ GivenBack(AllocatedAreas \ {ChunkAt(a)}, freeChunks, ChunkAt(a), mpOffset, mpSize,
                 freeChunks', mpOffset')
    /\ freeCount' = Len(freeChunks')

\* A block that is freed goes back to the list or to the spare area whole.
LEMMA InsertChunk ==
  ASSUME MmAssumption, MmTypes, PoolTiled, mmGlobal, NEW a \in DOMAIN chunks,
         mm_insert_chunk(ChunkAt(a))
  PROVE  Inserted(a)
<1> DEFINE c == ChunkAt(a)
           s == freeChunks
           i == PlaceOf(c.at)
           A == AllocatedAreas
           B == AllocatedAreas \ {c}
           F == FreeAreas
           prev == s[i]
           next == s[i + 1]
<1>1. /\ PoolHdr \in Nat /\ mpSize \in Nat /\ mpOffset \in Nat /\ PoolHdr <= mpOffset
      /\ mpOffset <= mpSize /\ Tiles(A, F, mpOffset) /\ Merged(F, mpOffset)
      /\ s \in Seq(Area) /\ Sorted(s) /\ freeCount = Len(s)
  BY DEF MmAssumption, MmTypes, PoolTiled, FreeCountRight
<1>2. c \in A /\ c \in Area /\ c.at = a /\ A \in SUBSET Area /\ F \in SUBSET Area
  <2>1. a \in Nat /\ chunks[a].size \in Nat \ {0}
    BY DEF MmTypes, Block
  <2>2. c \in Area /\ c.at = a /\ c \in A
    BY <2>1 DEF Area, ChunkAt, AllocatedAreas
  <2>3. A \in SUBSET Area
    BY DEF AllocatedAreas, ChunkAt, Area, MmTypes, Block
  <2>4. F \in SUBSET Area
    BY <1>1, ListOf DEF FreeAreas
  <2> QED BY <2>2, <2>3, <2>4
<1>3. Freeing(B, s, c, i, mpOffset)
  <2>1. /\ i \in 0..Len(s)
        /\ \A k \in 1..Len(s) : (k <= i => s[k].at < c.at) /\ (k > i => c.at < s[k].at)
        /\ \A k \in 1..Len(s) : EndOf(s[k]) = c.at => k = i
        /\ \A k \in 1..Len(s) : s[k].at = EndOf(c) => k = i + 1
    BY <1>1, <1>2, NeighboursTouch
  <2> HIDE DEF i, s, c, A, F
  <2>2. Tiles(B, F \cup {c}, mpOffset) /\ B \in SUBSET Area
    BY <1>1, <1>2, TilesFreed DEF A
  <2> QED BY <1>1, <1>2, <2>1, <2>2 DEF Freeing, F, FreeAreas, s
<1>4. mm_insert_chunk(c)
  OBVIOUS
<1> HIDE DEF c
<1>5. /\ JoinsBefore(s, c, i) <=> i > 0 /\ EndOf(prev) = c.at
      /\ JoinsAfter(s, c, i) <=> i < Len(s) /\ EndOf(c) = next.at
      /\ JoinsSpare(c) <=> EndOf(c) = mpOffset
  BY DEF JoinsBefore, JoinsAfter, JoinsSpare
<1> DEFINE n == Len(s)
<1>a. /\ n \in Nat /\ mpSize \in Nat /\ freeCount = n /\ c.size \in Nat \ {0} /\ s \in Seq(Area)
      /\ JoinsBefore(s, c, i) => i \in 1..n /\ prev.size \in Nat \ {0}
      /\ JoinsAfter(s, c, i) => i + 1 \in 1..n /\ next.size \in Nat \ {0}
  BY SMTT(60), <1>1, <1>3, FreeingIs
<1>b. ASSUME GivenBack(B, s, c, mpOffset, mpSize, freeChunks', mpOffset'), freeCount' = Len(freeChunks')
      PROVE  Inserted(a)
  BY <1>b DEF Inserted, c
<1> HIDE DEF i, B, s
<1>6. CASE JoinsBefore(s, c, i) /\ JoinsAfter(s, c, i)
  <2>1. /\ freeChunks' = RemoveAt([s EXCEPT ![i].size = @ + c.size + next.size], i + 1)
        /\ freeCount' = freeCount - 1 /\ mpOffset' = mpOffset
    BY <1>4, <1>5, <1>6 DEF mm_insert_chunk, PlaceOf, i, s
  <2> DEFINE r == RemoveAt(With(s, i, prev.at, prev.size + c.size + next.size), i + 1)
  <2>2. prev.size + c.size + next.size \in Nat \ {0} /\ i \in 1..n
    <3>1. /\ prev.size \in Nat \ {0} /\ next.size \in Nat \ {0} /\ c.size \in Nat \ {0}
          /\ i \in 1..n
      BY <1>6, <1>a
    <3> HIDE DEF prev, next, n
    <3> QED BY <3>1
  <2>3. freeChunks' = r
    BY <2>1, <2>2, <1>a, SizePut DEF With
  <2>4. GivenBack(B, s, c, mpOffset, mpSize, r, mpOffset) /\ Len(r) = n - 1
    BY ONLY SMTT(60), <1>3, <1>6, <1>a, FreedBetween
  <2> HIDE DEF r
  <2>5. freeCount' = Len(freeChunks')
    BY <1>a, <2>1, <2>3, <2>4
  <2> QED BY <1>b, <2>1, <2>3, <2>4, <2>5
<1>7. CASE JoinsBefore(s, c, i) /\ ~JoinsAfter(s, c, i) /\ EndOf(c) = mpOffset
  <2>1. /\ freeChunks' = RemoveAt(s, i) /\ mpOffset' = mpOffset - (c.size + prev.size)
        /\ freeCount' = freeCount - 1
    BY <1>4, <1>5, <1>7 DEF mm_insert_chunk, PlaceOf, i, s
  <2>2. /\ GivenBack(B, s, c, mpOffset, mpSize, RemoveAt(s, i), mpOffset - (c.size + prev.size))
        /\ Len(RemoveAt(s, i)) = n - 1
    BY <1>3, <1>7, <1>a, FreedLast
  <2>3. freeCount' = Len(freeChunks')
    BY <1>a, <2>1, <2>2
  <2> QED BY SMTT(60), <1>b, <2>1, <2>2, <2>3
<1>8. CASE JoinsBefore(s, c, i) /\ ~JoinsAfter(s, c, i) /\ EndOf(c) # mpOffset
  <2>1. /\ freeChunks' = [s EXCEPT ![i].size = @ + c.size]
        /\ freeCount' = freeCount /\ mpOffset' = mpOffset
    BY <1>4, <1>5, <1>8 DEF mm_insert_chunk, PlaceOf, i, s
  <2> DEFINE r == With(s, i, prev.at, prev.size + c.size)
  <2>2. prev.size + c.size \in Nat \ {0} /\ i \in 1..n
    BY SMTT(60), <1>8, <1>a
  <2>3. freeChunks' = r
    BY <2>1, <2>2, <1>a, SizePut DEF With
  <2>4. GivenBack(B, s, c, mpOffset, mpSize, r, mpOffset) /\ Len(r) = n
    BY ONLY <1>3, <1>8, <1>a, FreedAfter
  <2> HIDE DEF r
  <2>5. freeCount' = Len(freeChunks')
    BY <1>a, <2>1, <2>3, <2>4
  <2> QED BY <1>b, <2>1, <2>3, <2>4, <2>5
<1>9. CASE ~JoinsBefore(s, c, i) /\ JoinsAfter(s, c, i)
  <2>1. /\ freeChunks' = [s EXCEPT ![i + 1] = [at |-> c.at, size |-> c.size + next.size]]
        /\ freeCount' = freeCount /\ mpOffset' = mpOffset
    BY <1>4, <1>5, <1>9 DEF mm_insert_chunk, PlaceOf, i, s
  <2> DEFINE r == With(s, i + 1, c.at, c.size + next.size)
  <2>2. freeChunks' = r
    BY <2>1 DEF With
  <2>3. GivenBack(B, s, c, mpOffset, mpSize, r, mpOffset) /\ Len(r) = n
    BY ONLY <1>3, <1>9, <1>a, FreedBefore
  <2> HIDE DEF r
  <2>4. freeCount' = Len(freeChunks')
    BY <1>a, <2>1, <2>2, <2>3
  <2> QED BY <1>b, <2>1, <2>2, <2>3, <2>4
<1>10. CASE ~JoinsBefore(s, c, i) /\ ~JoinsAfter(s, c, i) /\ EndOf(c) = mpOffset
  <2>1. freeChunks' = s /\ mpOffset' = mpOffset - c.size /\ freeCount' = freeCount
    BY <1>4, <1>5, <1>10 DEF mm_insert_chunk, PlaceOf, i, s
  <2>2. GivenBack(B, s, c, mpOffset, mpSize, s, mpOffset - c.size)
    BY <1>3, <1>10, <1>a, FreedAtSpare
  <2>3. freeCount' = Len(freeChunks')
    BY <1>a, <2>1
  <2> QED BY SMTT(60), <1>b, <2>1, <2>2, <2>3
<1>11. CASE ~JoinsBefore(s, c, i) /\ ~JoinsAfter(s, c, i) /\ EndOf(c) # mpOffset
  <2>1. /\ freeChunks' = InsertAt(s, i + 1, c)
        /\ freeCount' = freeCount + 1 /\ mpOffset' = mpOffset
    BY <1>4, <1>5, <1>11 DEF mm_insert_chunk, PlaceOf, i, s
  <2>2. GivenBack(B, s, c, mpOffset, mpSize, InsertAt(s, i + 1, c), mpOffset) /\ Len(InsertAt(s, i + 1, c)) = n + 1
    BY <1>3, <1>11, <1>a, FreedApart
  <2>3. freeCount' = Len(freeChunks')
    BY <1>a, <2>1, <2>2
  <2> QED BY SMTT(60), <1>b, <2>1, <2>2, <2>3
<1> QED BY <1>6, <1>7, <1>8, <1>9, <1>10, <1>11

------------------------------------------------------------------------------
(* The mm allocator: the allocated chunks *)

SizeAt(ch, a) == IF a \in DOMAIN ch THEN ch[a].size ELSE 0
AllocatedOf(ch, top) == AddUp(0, [a \in 1..top |-> SizeAt(ch, a)], top)

\* Sizes that differ at one address at most.
SizesDiffer(ch, ch2, q) ==
    \A a \in Nat : SizeAt(ch, a) \in Nat /\ SizeAt(ch2, a) \in Nat /\ (a # q => SizeAt(ch2, a) = SizeAt(ch, a))
TakenDiffers(ch, ch2, q, top) ==
    /\ AllocatedOf(ch, top) \in Int
    /\ AllocatedOf(ch2, top) = AllocatedOf(ch, top)
                               + (IF q \in 1..top THEN SizeAt(ch2, q) - SizeAt(ch, q) ELSE 0)

LEMMA AllocatedChanged ==
  ASSUME NEW ch, NEW ch2, NEW q \in Nat, NEW top \in Nat, SizesDiffer(ch, ch2, q)
  PROVE  TakenDiffers(ch, ch2, q, top)
<1> DEFINE f == [a \in 1..top |-> SizeAt(ch, a)]
           g == [a \in 1..top |-> SizeAt(ch2, a)]
<1>1. \A a \in 1..top : f[a] = SizeAt(ch, a) /\ g[a] = SizeAt(ch2, a) /\ a \in Nat
  OBVIOUS
<1>2. OneDiffers(f, g, top, q)
  <2> HIDE DEF f, g
  <2> QED BY <1>1 DEF OneDiffers, SizesDiffer
<1>3. AllocatedOf(ch, top) = AddUp(0, f, top) /\ AllocatedOf(ch2, top) = AddUp(0, g, top)
  BY DEF AllocatedOf
<1> HIDE DEF f, g
<1>4. SumDiffers(0, 0, f, g, top, q)
  BY <1>2, AddUpChanged
<1>5. /\ AddUp(0, g, top) = AddUp(0, f, top) + (0 - 0) + (IF q \in 1..top THEN g[q] - f[q] ELSE 0)
      /\ AddUp(0, f, top) \in Int
  BY <1>4 DEF SumDiffers
<1>6. CASE q \in 1..top
  <2>1. SizeAt(ch, q) \in Int /\ SizeAt(ch2, q) \in Int
    BY DEF SizesDiffer
  <2> QED BY <1>1, <1>3, <1>5, <1>6, <2>1 DEF TakenDiffers
<1>7. CASE q \notin 1..top
  BY <1>3, <1>5, <1>7 DEF TakenDiffers
<1> QED BY <1>6, <1>7

LEMMA AllocatedIs == AllocatedSize = AllocatedOf(chunks, mpSize)
BY DEF AllocatedSize, AllocatedOf, SizeAt

\* Rounding up to a word.
LEMMA Rounding ==
  ASSUME NEW m \in Nat, NEW w \in Nat \ {0}
  PROVE  m \div w \in Nat /\ m < (1 + (m \div w)) * w
OBVIOUS

\* A chunk holds its header and the user size.
LEMMA ChunkSizeFits ==
  ASSUME MmAssumption, NEW usize \in Nat
  PROVE  ChunkSize(usize) \in Nat \ {0} /\ ChunkHdr + usize <= ChunkSize(usize)
<1> DEFINE m == ChunkHdr + usize - 1
           w == Word
           d == m \div w
<1>1. m \in Nat /\ w \in Nat \ {0} /\ ChunkHdr + usize = m + 1
  BY DEF MmAssumption
<1>2. ChunkSize(usize) = (1 + d) * w
  BY DEF ChunkSize, mm_core_align2word
<1> HIDE DEF m, w
<1>3. d \in Nat /\ m < (1 + d) * w
  BY <1>1, Rounding
<1> HIDE DEF d
<1>4. (1 + d) * w \in Nat
  BY <1>1, <1>3
<1> QED BY <1>1, <1>2, <1>3, <1>4

\* A process gets a chunk.
LEMMA Obtained ==
  ASSUME MmTypes, ChunksOwned, BlocksHold, NEW p \in MmProcs, NEW at \in Nat \ {0}, at \notin DOMAIN chunks,
         NEW size \in Nat \ {0}, NEW usize \in Nat, ChunkHdr + usize <= size, ChunkHdr \in Nat,
         Obtain(p, at, size, usize), mpSize' = mpSize, at \in 1..mpSize
  PROVE  /\ \A a \in DOMAIN chunks' : a \in Nat \ {0} /\ chunks'[a] \in Block
         /\ mmOwns' \in [MmProcs -> SUBSET Nat]
         /\ \A a \in DOMAIN chunks' : \E q \in MmProcs : a \in mmOwns'[q]
         /\ \A q \in MmProcs : mmOwns[q] \subseteq mmOwns'[q] /\ mmOwns'[q] \subseteq DOMAIN chunks'
         /\ BlocksHold'
         /\ AllocatedAreas' = AllocatedAreas \cup {[at |-> at, size |-> size]}
         /\ AllocatedSize' = AllocatedSize + size /\ AllocatedSize \in Int
<1> DEFINE e == [size |-> size, usize |-> usize]
<1>1. /\ chunks' = [a \in DOMAIN chunks \cup {at} |-> IF a = at THEN e ELSE chunks[a]]
      /\ mmOwns' = [mmOwns EXCEPT ![p] = @ \cup {at}]
  BY DEF Obtain
<1>2. /\ \A a \in DOMAIN chunks : a \in Nat \ {0} /\ chunks[a] \in Block
      /\ mmOwns \in [MmProcs -> SUBSET Nat]
  BY DEF MmTypes
<1>3. /\ DOMAIN chunks' = DOMAIN chunks \cup {at}
      /\ \A a \in DOMAIN chunks' : chunks'[a] = IF a = at THEN e ELSE chunks[a]
  BY <1>1
<1>4. e \in Block /\ e.size = size /\ e.usize = usize
  BY DEF Block
<1>5. /\ mmOwns' \in [MmProcs -> SUBSET Nat]
      /\ \A q \in MmProcs : mmOwns'[q] = IF q = p THEN mmOwns[q] \cup {at} ELSE mmOwns[q]
  BY <1>1, <1>2
<1> HIDE DEF e
<1>6. \A a \in DOMAIN chunks' : a \in Nat \ {0} /\ chunks'[a] \in Block
  BY <1>2, <1>3, <1>4
<1>7. \A a \in DOMAIN chunks' : \E q \in MmProcs : a \in mmOwns'[q]
  BY <1>3, <1>5 DEF ChunksOwned
<1>8. \A q \in MmProcs : mmOwns[q] \subseteq mmOwns'[q] /\ mmOwns'[q] \subseteq DOMAIN chunks'
  BY <1>3, <1>5 DEF ChunksOwned
<1>9. BlocksHold'
  <2>1. ASSUME NEW q \in MmProcs, NEW a \in mmOwns'[q]
        PROVE  ChunkHdr + chunks'[a].usize <= chunks'[a].size
    <3>1. CASE a = at
      BY <1>3, <1>4, <3>1
    <3>2. CASE a # at
      <4>1. a \in mmOwns[q] /\ a \in DOMAIN chunks
        BY <1>5, <2>1, <3>2 DEF ChunksOwned
      <4>2. ChunkHdr + chunks[a].usize <= chunks[a].size
        BY <4>1 DEF BlocksHold
      <4>3. chunks'[a] = chunks[a]
        BY <1>3, <3>2, <4>1
      <4> QED BY <4>2, <4>3
    <3> QED BY <3>1, <3>2
  <2>2. ASSUME NEW q \in MmProcs, NEW r \in MmProcs, q # r PROVE mmOwns'[q] \cap mmOwns'[r] = {}
    <3>1. mmOwns[q] \cap mmOwns[r] = {} /\ at \notin mmOwns[q] /\ at \notin mmOwns[r]
      BY <2>2 DEF BlocksHold, ChunksOwned
    <3> QED BY <1>5, <2>2, <3>1
  <2> QED BY <2>1, <2>2 DEF BlocksHold
<1>10. AllocatedAreas' = AllocatedAreas \cup {[at |-> at, size |-> size]}
  <2>1. AllocatedAreas' = {[at |-> a, size |-> chunks'[a].size] : a \in DOMAIN chunks'}
    BY DEF AllocatedAreas, ChunkAt
  <2>2. AllocatedAreas = {[at |-> a, size |-> chunks[a].size] : a \in DOMAIN chunks}
    BY DEF AllocatedAreas, ChunkAt
  <2>3. \A a \in DOMAIN chunks : chunks'[a] = chunks[a] /\ a \in DOMAIN chunks'
    BY <1>3
  <2>4. at \in DOMAIN chunks' /\ chunks'[at].size = size
    BY <1>3, <1>4
  <2> QED BY <1>3, <2>1, <2>2, <2>3, <2>4
<1>11. AllocatedSize' = AllocatedSize + size /\ AllocatedSize \in Int
  <2>1. SizeAt(chunks, at) = 0 /\ SizeAt(chunks', at) = size
    BY <1>3, <1>4 DEF SizeAt
  <2>2. SizesDiffer(chunks, chunks', at)
    <3> SUFFICES ASSUME NEW a \in Nat
                 PROVE  /\ SizeAt(chunks, a) \in Nat /\ SizeAt(chunks', a) \in Nat
                        /\ a # at => SizeAt(chunks', a) = SizeAt(chunks, a)
      BY DEF SizesDiffer
    <3>1. (a \in DOMAIN chunks => chunks[a].size \in Nat) /\ (a \in DOMAIN chunks' => chunks'[a].size \in Nat)
      BY <1>2, <1>6 DEF Block
    <3> QED BY <1>3, <3>1 DEF SizeAt
  <2>3. TakenDiffers(chunks, chunks', at, mpSize)
    BY <2>2, AllocatedChanged DEF MmTypes
  <2>4. AllocatedSize = AllocatedOf(chunks, mpSize) /\ AllocatedSize' = AllocatedOf(chunks', mpSize)
    BY AllocatedIs DEF AllocatedSize, AllocatedOf, SizeAt
  <2> QED BY <2>1, <2>3, <2>4 DEF TakenDiffers
<1> QED BY <1>5, <1>6, <1>7, <1>8, <1>9, <1>10, <1>11

\* A process gives one back.
LEMMA GaveUp ==
  ASSUME MmTypes, ChunksOwned, BlocksHold, NEW p \in MmProcs, NEW a \in mmOwns[p],
         chunks' = Restrict(chunks, DOMAIN chunks \ {a}), mmOwns' = [mmOwns EXCEPT ![p] = @ \ {a}],
         mpSize' = mpSize, a \in 1..mpSize
  PROVE  /\ \A b \in DOMAIN chunks' : b \in Nat \ {0} /\ chunks'[b] \in Block
         /\ mmOwns' \in [MmProcs -> SUBSET Nat]
         /\ \A b \in DOMAIN chunks' : \E q \in MmProcs : b \in mmOwns'[q]
         /\ \A q \in MmProcs : /\ mmOwns'[q] \subseteq DOMAIN chunks'
                               /\ q # p => mmOwns'[q] = mmOwns[q]
         /\ mmOwns'[p] = mmOwns[p] \ {a}
         /\ BlocksHold'
         /\ AllocatedAreas' = AllocatedAreas \ {ChunkAt(a)}
         /\ AllocatedSize' = AllocatedSize - chunks[a].size /\ AllocatedSize \in Int
<1>1. /\ DOMAIN chunks' = DOMAIN chunks \ {a}
      /\ \A b \in DOMAIN chunks' : chunks'[b] = chunks[b]
  BY DEF Restrict
<1>2. /\ \A b \in DOMAIN chunks : b \in Nat \ {0} /\ chunks[b] \in Block
      /\ mmOwns \in [MmProcs -> SUBSET Nat]
  BY DEF MmTypes
<1>3. /\ mmOwns' \in [MmProcs -> SUBSET Nat]
      /\ \A q \in MmProcs : mmOwns'[q] = IF q = p THEN mmOwns[q] \ {a} ELSE mmOwns[q]
  BY <1>2
<1>4. \A q \in MmProcs : q # p => a \notin mmOwns[q]
  BY DEF BlocksHold
<1>5. \A b \in DOMAIN chunks' : b \in Nat \ {0} /\ chunks'[b] \in Block
  BY <1>1, <1>2
<1>6. \A b \in DOMAIN chunks' : \E q \in MmProcs : b \in mmOwns'[q]
  BY <1>1, <1>3 DEF ChunksOwned
<1>7. \A q \in MmProcs : mmOwns'[q] \subseteq DOMAIN chunks'
  BY <1>1, <1>3, <1>4 DEF ChunksOwned
<1>8. BlocksHold'
  <2>1. \A q \in MmProcs : mmOwns'[q] \subseteq mmOwns[q]
    BY <1>3
  <2>2. ASSUME NEW q \in MmProcs, NEW b \in mmOwns'[q]
        PROVE  ChunkHdr + chunks'[b].usize <= chunks'[b].size
    <3>1. b \in DOMAIN chunks' /\ b \in mmOwns[q] /\ chunks'[b] = chunks[b]
      BY <1>1, <1>7, <2>1
    <3>2. ChunkHdr + chunks[b].usize <= chunks[b].size
      BY <3>1 DEF BlocksHold
    <3> QED BY <3>1, <3>2
  <2>3. \A q, r \in MmProcs : q # r => mmOwns'[q] \cap mmOwns'[r] = {}
    BY <2>1 DEF BlocksHold
  <2> QED BY <2>2, <2>3 DEF BlocksHold
<1>9. a \in DOMAIN chunks
  BY DEF ChunksOwned
<1>10. AllocatedAreas' = AllocatedAreas \ {ChunkAt(a)}
  <2>1. AllocatedAreas' = {[at |-> b, size |-> chunks'[b].size] : b \in DOMAIN chunks'}
    BY DEF AllocatedAreas, ChunkAt
  <2>2. AllocatedAreas = {[at |-> b, size |-> chunks[b].size] : b \in DOMAIN chunks}
    BY DEF AllocatedAreas, ChunkAt
  <2>3. \A b \in DOMAIN chunks : b # a => [at |-> b, size |-> chunks[b].size] # ChunkAt(a)
    BY DEF ChunkAt
  <2>4. ChunkAt(a) = [at |-> a, size |-> chunks[a].size]
    BY DEF ChunkAt
  <2> QED BY ZenonT(30), <1>1, <2>1, <2>2, <2>3, <2>4
<1>11. AllocatedSize' = AllocatedSize - chunks[a].size /\ AllocatedSize \in Int
  <2>1. SizeAt(chunks, a) = chunks[a].size /\ SizeAt(chunks', a) = 0 /\ chunks[a].size \in Nat
    BY <1>1, <1>2, <1>9 DEF SizeAt, Block
  <2>2. SizesDiffer(chunks, chunks', a)
    <3> SUFFICES ASSUME NEW b \in Nat
                 PROVE  /\ SizeAt(chunks, b) \in Nat /\ SizeAt(chunks', b) \in Nat
                        /\ b # a => SizeAt(chunks', b) = SizeAt(chunks, b)
      BY DEF SizesDiffer
    <3>1. (b \in DOMAIN chunks => chunks[b].size \in Nat) /\ (b \in DOMAIN chunks' => chunks'[b].size \in Nat)
      BY <1>2, <1>5 DEF Block
    <3> QED BY <1>1, <3>1 DEF SizeAt
  <2>3. TakenDiffers(chunks, chunks', a, mpSize)
    BY <1>2, <1>9, <2>2, AllocatedChanged DEF MmTypes
  <2>4. AllocatedSize = AllocatedOf(chunks, mpSize) /\ AllocatedSize' = AllocatedOf(chunks', mpSize)
    BY AllocatedIs DEF AllocatedSize, AllocatedOf, SizeAt
  <2> QED BY <2>1, <2>3, <2>4 DEF TakenDiffers
<1> QED BY <1>3, <1>5, <1>6, <1>7, <1>8, <1>10, <1>11

------------------------------------------------------------------------------
(* The mm allocator: the steps *)

\* Nothing is there at the start.
LEMMA MmStarts == MmInit => MmInv
<1> SUFFICES ASSUME MmInit PROVE MmInv
  OBVIOUS
<1>1. /\ mmGlobal = FALSE /\ mpSize = 0 /\ mpOffset = 0 /\ freeChunks = <<>> /\ freeCount = 0
      /\ chunks = <<>> /\ coreHas = {} /\ mmOwns = [p \in MmProcs |-> {}]
      /\ mmPc = [p \in MmProcs |-> "idle"] /\ mmWant = [p \in MmProcs |-> 0]
      /\ mmReplaces = [p \in MmProcs |-> 0]
  BY DEF MmInit
<1>2. DOMAIN chunks = {} /\ freeChunks \in Seq(Area) /\ Len(freeChunks) = 0 /\ DOMAIN freeChunks = {}
  BY <1>1
<1>3. MmTypes
  <2>1. Sorted(freeChunks) /\ FreeCountRight
    BY <1>1, <1>2 DEF Sorted, FreeCountRight
  <2> QED BY <1>1, <1>2, <2>1 DEF MmTypes
<1>4. ChunksOwned /\ BlocksHold
  BY <1>1, <1>2 DEF ChunksOwned, BlocksHold
<1>5. PoolTiled /\ NoPool /\ FailedCreateLeavesNothing
  BY <1>1, <1>2 DEF PoolTiled, NoPool, FailedCreateLeavesNothing
<1> QED BY <1>3, <1>4, <1>5 DEF MmInv

\* Nothing of a failed mm_core_create is left.
LEMMA CleanedUp ==
  ASSUME NEW k
  PROVE  CleanUp(AcquiredBefore(k)) = {}
BY DEF CleanUp, AcquiredBefore

\* MM_create makes an empty pool, or fails and gives everything back.
LEMMA CreateKeeps ==
  ASSUME MmAssumption, MmInv, NEW n \in PoolSizes, MM_create(n)
  PROVE  MmInv'
<1>1. /\ ~mmGlobal /\ UNCHANGED <<freeChunks, freeCount, chunks, mmOwns, mmPc, mmWant, mmReplaces>>
  BY DEF MM_create
<1>2. DOMAIN chunks = {} /\ freeChunks = <<>> /\ \A p \in MmProcs : mmPc[p] = "idle"
  BY <1>1 DEF MmInv, NoPool
<1>3. ASSUME mpSize' \in Nat, mpOffset' \in Nat, mmGlobal' \in BOOLEAN
      PROVE  MmTypes' /\ ChunksOwned' /\ BlocksHold'
  <2>1. MmTypes'
    BY <1>1, <1>3 DEF MmInv, MmTypes, FreeCountRight
  <2>2. ChunksOwned' /\ BlocksHold'
    BY <1>1 DEF MmInv, ChunksOwned, BlocksHold
  <2> QED BY <2>1, <2>2
<1>4. CASE /\ mmGlobal' = TRUE /\ mpSize' = Clamped(n) + PoolHdr /\ mpOffset' = PoolHdr
           /\ coreHas' = {"segment", "mapping", "semfd", "semfile"}
  <2>1. Clamped(n) \in Nat /\ PoolHdr \in Nat
    BY DEF Clamped, MmAssumption
  <2>2. mpSize' \in Nat /\ mpOffset' = PoolHdr /\ PoolHdr <= mpOffset' /\ mpOffset' <= mpSize'
    BY <1>4, <2>1
  <2>3. AllocatedAreas' = {} /\ FreeAreas' = {}
    BY <1>1, <1>2 DEF AllocatedAreas, FreeAreas, Range
  <2>4. Tiles({}, {}, PoolHdr) /\ Merged({}, PoolHdr)
    BY <2>1 DEF Tiles, Merged
  <2>5. mm_available' = Clamped(n)
    <3> DEFINE f == [i \in DOMAIN freeChunks' |-> freeChunks'[i].size]
    <3>1. mm_available' = AddUp(mpSize' - mpOffset', f, Len(freeChunks'))
      BY DEF mm_available
    <3>2. Len(freeChunks') = 0 /\ mpSize' - mpOffset' = Clamped(n) /\ Clamped(n) \in Int
      BY <1>1, <1>2, <1>4, <2>1
    <3> HIDE DEF f
    <3>3. AddUp(Clamped(n), f, 0) = Clamped(n)
      BY <3>2, AddUpZero
    <3> QED BY <3>1, <3>2, <3>3
  <2>6. AllocatedSize' = 0
    <3> DEFINE f == [a \in 1..mpSize' |-> IF a \in DOMAIN chunks' THEN chunks'[a].size ELSE 0]
    <3>1. AllocatedSize' = AddUp(0, f, mpSize')
      BY DEF AllocatedSize
    <3>2. \A k \in 1..mpSize' : f[k] = 0
      BY <1>1, <1>2
    <3> HIDE DEF f
    <3> QED BY <2>2, <3>1, <3>2, AddUpZero
  <2>7. mm_available' = mpSize' - PoolHdr - AllocatedSize'
    BY <1>4, <2>1, <2>5, <2>6
  <2>8. PoolTiled' /\ NoPool' /\ FailedCreateLeavesNothing'
    BY <1>4, <2>2, <2>3, <2>4, <2>7 DEF PoolTiled, NoPool, FailedCreateLeavesNothing
  <2> QED BY <1>3, <1>4, <2>2, <2>8 DEF MmInv, MmTypes
<1>5. CASE \E k \in DOMAIN Stages : /\ coreHas' = CleanUp(AcquiredBefore(k))
                                    /\ UNCHANGED <<mmGlobal, mpSize, mpOffset>>
  <2>1. coreHas' = {} /\ UNCHANGED <<mmGlobal, mpSize, mpOffset>>
    BY <1>5, CleanedUp
  <2>2. mpSize' \in Nat /\ mpOffset' \in Nat /\ mmGlobal' \in BOOLEAN
    BY <2>1 DEF MmInv, MmTypes
  <2>3. PoolTiled' /\ NoPool' /\ FailedCreateLeavesNothing'
    BY <1>1, <1>2, <2>1 DEF PoolTiled, NoPool, FailedCreateLeavesNothing
  <2> QED BY <1>3, <2>2, <2>3 DEF MmInv
<1> QED BY <1>4, <1>5 DEF MM_create

\* MM_destroy gives the pool back.
LEMMA DestroyKeeps ==
  ASSUME MmInv, MM_destroy
  PROVE  MmInv'
<1>1. /\ \A p \in MmProcs : mmPc[p] = "idle" /\ mmOwns[p] = {}
      /\ mmGlobal' = FALSE /\ mpSize' = 0 /\ mpOffset' = 0 /\ freeChunks' = <<>> /\ freeCount' = 0
      /\ coreHas' = {} /\ UNCHANGED <<chunks, mmOwns, mmPc, mmWant, mmReplaces>>
  BY DEF MM_destroy
<1>2. DOMAIN chunks = {}
  BY <1>1 DEF MmInv, ChunksOwned
<1>3. MmTypes'
  <2>1. freeChunks' \in Seq(Area) /\ Len(freeChunks') = 0 /\ DOMAIN freeChunks' = {}
    BY <1>1
  <2>2. Sorted(freeChunks)' /\ FreeCountRight'
    BY <1>1, <2>1 DEF Sorted, FreeCountRight
  <2> QED BY <1>1, <2>1, <2>2 DEF MmInv, MmTypes
<1>4. ChunksOwned' /\ BlocksHold'
  BY <1>1 DEF MmInv, ChunksOwned, BlocksHold
<1>5. PoolTiled' /\ NoPool' /\ FailedCreateLeavesNothing'
  BY <1>1, <1>2 DEF PoolTiled, NoPool, FailedCreateLeavesNothing
<1> QED BY <1>3, <1>4, <1>5 DEF MmInv

\* A chunk of the pool is not one that is being given out.
LEMMA FreeIsNotOwned ==
  ASSUME MmTypes, NEW f \in Area, f.at # 0, NEW A, NEW F, NEW off \in Nat, Tiles(A, F, off),
         AllocatedAreas \subseteq A, f \in F \/ f.at >= off
  PROVE  f.at \notin DOMAIN chunks
<1> SUFFICES ASSUME f.at \in DOMAIN chunks PROVE FALSE
  OBVIOUS
<1> DEFINE c == ChunkAt(f.at)
<1>1. c \in Area /\ c.at = f.at /\ c \in A
  BY DEF MmTypes, Block, ChunkAt, Area, AllocatedAreas
<1> HIDE DEF c
<1>2. c.at < EndOf(c) /\ EndOf(c) \in Nat /\ f.at \in Nat /\ EndOf(f) \in Nat /\ f.at < EndOf(f)
  BY <1>1, AreaIs
<1>3. CASE f \in F
  <2>1. c # f
    BY <1>1, <1>3 DEF Tiles
  <2>2. EndOf(c) <= f.at \/ EndOf(f) <= c.at
    BY <1>1, <1>3, <2>1 DEF Tiles
  <2> QED BY <1>1, <1>2, <2>2
<1>4. CASE f.at >= off
  <2>1. EndOf(c) <= off
    BY <1>1 DEF Tiles
  <2> QED BY <1>1, <1>2, <1>4, <2>1
<1> QED BY <1>3, <1>4

\* What giving a free chunk out leaves: its head, of the size asked for, or all of it.
TakenFrom(A, F, r, u, off, spare) ==
    /\ r.list \in Seq(Area) /\ Sorted(r.list) /\ r.count = Len(r.list)
    /\ u \in Area /\ r.chunk = u /\ PoolHdr <= u.at /\ EndOf(u) <= off
    /\ \E f \in F : f.at = u.at
    /\ Tiles(A \cup {u}, Range(r.list), off) /\ Merged(Range(r.list), off)
    /\ Available(spare, r.list) = Available(spare, freeChunks) - u.size
    /\ Available(spare, freeChunks) \in Int

\* A chunk that is much too large is cut.
LEMMA RetrieveSplits ==
  ASSUME MmAssumption, MmTypes, NEW A \in SUBSET Area, Tiles(A, FreeAreas, mpOffset),
         Merged(FreeAreas, mpOffset), NEW i \in 1..Len(freeChunks), NEW size \in Nat \ {0},
         NEW spare \in Int, freeChunks[i].size >= size + Min({2 * size, SplitCap})
  PROVE  /\ TakenFrom(A, FreeAreas, Retrieved(i, size), Retrieved(i, size).chunk, mpOffset, spare)
         /\ size <= Retrieved(i, size).chunk.size
<1> DEFINE s == freeChunks
           c == s[i]
           u == [at |-> c.at, size |-> size]
           v == Rest(c, size)
           r == [s EXCEPT ![i] = v]
           F == FreeAreas
<1>1. /\ s \in Seq(Area) /\ Sorted(s) /\ freeCount = Len(s) /\ PoolHdr \in Nat /\ mpOffset \in Nat
      /\ c \in Area /\ c.at \in Nat /\ c.size \in Nat \ {0} /\ EndOf(c) = c.at + c.size
      /\ c \in F /\ F \in SUBSET Area /\ Len(s) \in Nat
  <2>1. s \in Seq(Area) /\ Sorted(s) /\ freeCount = Len(s) /\ PoolHdr \in Nat /\ mpOffset \in Nat
    BY DEF MmTypes, MmAssumption, FreeCountRight
  <2>2. c \in Area /\ c \in F /\ F \in SUBSET Area /\ Len(s) \in Nat
    BY <2>1, ListOf DEF FreeAreas
  <2> HIDE DEF c
  <2> QED BY <2>1, <2>2, AreaIs
<1>2. c.size > size
  <2>1. {2 * size, SplitCap} \in SUBSET Nat /\ 2 * size >= 1 /\ SplitCap >= 1
    BY DEF MmAssumption
  <2>2. Min({2 * size, SplitCap}) \in {2 * size, SplitCap}
    BY <2>1, Smallest
  <2>3. Min({2 * size, SplitCap}) >= 1 /\ Min({2 * size, SplitCap}) \in Nat
    BY <2>1, <2>2
  <2> HIDE DEF c
  <2> QED BY SMTT(30), <1>1, <2>3 DEF c
<1>3. Retrieved(i, size) = [chunk |-> u, count |-> freeCount, list |-> r]
  BY DEF Retrieved
<1> HIDE DEF c, F, s
<1>4. /\ u \in Area /\ u.at = c.at /\ u.size = size /\ EndOf(u) = c.at + size
      /\ v \in Area /\ v.at = c.at + size /\ v.size = c.size - size /\ EndOf(v) = EndOf(c)
  <2>1. c.at + size \in Nat /\ c.size - size \in Nat \ {0} /\ c.at \in Nat
    BY SMTT(60), <1>1, <1>2
  <2>2. u \in Area /\ u.at = c.at /\ u.size = size
    BY <2>1 DEF Area
  <2>3. v \in Area /\ v.at = c.at + size /\ v.size = c.size - size
    BY <2>1 DEF Area, Rest
  <2> HIDE DEF u, v
  <2>4. EndOf(u) = u.at + u.size /\ EndOf(v) = v.at + v.size
    BY DEF EndOf
  <2>5. EndOf(u) = c.at + size /\ EndOf(v) = c.at + c.size
    <3>1. c.at \in Int /\ c.size \in Int /\ size \in Int
      BY <1>1
    <3> QED BY ONLY <2>2, <2>3, <2>4, <3>1
  <2> QED BY <1>1, <2>2, <2>3, <2>5
<1> HIDE DEF u, v, r
<1>5. /\ Tiles(A, (F \ {c}) \cup {u, v}, mpOffset)
      /\ v \notin A \cup F /\ u \notin F \ {c} /\ u # v
  <2>1. u.at = c.at /\ EndOf(u) = v.at /\ EndOf(v) = EndOf(c)
    BY <1>4
  <2>2. Tiles(A, F, mpOffset) /\ A \in SUBSET Area
    BY DEF F
  <2>3. CutInto(A, F, mpOffset, c, u, v)
    BY ONLY <1>1, <1>4, <2>1, <2>2, TilesSplit
  <2> QED BY <2>3 DEF CutInto
<1>6. Tiles(A \cup {u}, (F \ {c}) \cup {v}, mpOffset)
  <2>1. Tiles(A \cup {u}, ((F \ {c}) \cup {u, v}) \ {u}, mpOffset)
    BY <1>5, TilesTaken
  <2>2. ((F \ {c}) \cup {u, v}) \ {u} = (F \ {c}) \cup {v}
    BY <1>5
  <2> QED BY <2>1, <2>2
<1>7. \A f \in F \ {c} : /\ f.at \in Nat /\ EndOf(f) \in Nat /\ f.at < EndOf(f)
                         /\ EndOf(f) <= c.at \/ EndOf(c) <= f.at
  BY <1>1, AreaIs DEF Tiles, F
<1>8. Merged((F \ {c}) \cup {v}, mpOffset)
  <2>1. Merged(F, mpOffset)
    BY DEF F
  <2>2. \A f \in F \ {c} : EndOf(f) # v.at /\ f.at # EndOf(v)
    <3> SUFFICES ASSUME NEW f \in F \ {c} PROVE EndOf(f) # v.at /\ f.at # EndOf(v)
      OBVIOUS
    <3>1. EndOf(c) # f.at
      BY <1>1, <2>1 DEF Merged
    <3>2. /\ f.at \in Nat /\ EndOf(f) \in Nat /\ f.at < EndOf(f)
          /\ EndOf(f) <= c.at \/ EndOf(c) <= f.at
      BY <1>7
    <3>3. c.at < v.at /\ v.at < EndOf(c) /\ c.at \in Nat /\ v.at \in Nat /\ EndOf(c) \in Nat
      <4>1. /\ c.at \in Nat /\ c.size \in Nat /\ EndOf(c) = c.at + c.size /\ v.at = c.at + size
            /\ c.size > size
        BY <1>1, <1>2, <1>4
      <4> HIDE DEF c
      <4> QED BY SMTT(60), <4>1
    <3> QED BY SMTT(60), <1>4, <3>1, <3>2, <3>3
  <2>3. EndOf(v) # mpOffset
    BY <1>1, <1>4, <2>1 DEF Merged
  <2> QED BY <1>1, <1>4, <2>1, <2>2, <2>3, MergedAfter
<1>9. FitsAt(s, i, v)
  <2>1. \A j, k \in 1..Len(s) : j < k => s[j].at < s[k].at
    BY <1>1, ListOf DEF Sorted
  <2>2. \A k \in 1..Len(s) : s[k] \in F /\ s[k].at \in Nat
    BY SMTT(30), <1>1, ListOf DEF FreeAreas, F, s
  <2>3. ASSUME NEW k \in 1..Len(s), k < i PROVE s[k].at < v.at
    <3>1. s[k].at < c.at /\ s[k].at \in Nat
      BY <2>1, <2>2, <2>3 DEF c, s
    <3> QED BY SMTT(60), <1>1, <1>4, <3>1
  <2>4. ASSUME NEW k \in 1..Len(s), i < k PROVE v.at < s[k].at
    <3>1. c.at < s[k].at /\ s[k].at \in Nat /\ s[k] \in F
      BY <2>1, <2>2, <2>4 DEF c, s
    <3>2. s[k] # c
      BY SMTT(30), <1>1, <3>1
    <3>3. EndOf(c) <= s[k].at
      BY SMTT(60), <1>1, <1>7, <3>1, <3>2
    <3>4. v.at < EndOf(c)
      <4>1. /\ c.at \in Nat /\ c.size \in Nat /\ EndOf(c) = c.at + c.size /\ v.at = c.at + size
            /\ c.size > size
        BY <1>1, <1>2, <1>4
      <4> QED BY SMTT(30), <4>1
    <3>5. v.at \in Nat /\ EndOf(c) \in Nat
      BY <1>4, AreaIs, <1>1
    <3> QED BY SMTT(30), <3>1, <3>3, <3>4, <3>5
  <2> QED BY <2>3, <2>4 DEF FitsAt
<1>10. Changed(s, i, v, r, spare, spare)
  BY <1>1, <1>4, <1>9, ListChanged DEF r, s
<1>11. /\ r \in Seq(Area) /\ Sorted(r) /\ Len(r) = Len(s) /\ Range(r) = (F \ {c}) \cup {v}
       /\ Available(spare, r) = Available(spare, s) + (spare - spare) + v.size - c.size
       /\ Available(spare, s) \in Int
  BY <1>10 DEF Changed, F, FreeAreas, c, s
<1>12. Available(spare, r) = Available(spare, s) - u.size
  BY SMTT(30), <1>1, <1>4, <1>11
<1>13. PoolHdr <= u.at /\ EndOf(u) <= mpOffset
  BY <1>6 DEF Tiles
<1>14. TakenFrom(A, F, Retrieved(i, size), u, mpOffset, spare)
  <2>1. Retrieved(i, size).list = r /\ Retrieved(i, size).count = Len(r) /\ Retrieved(i, size).chunk = u
    BY <1>1, <1>3, <1>11
  <2>2. /\ Tiles(A \cup {u}, Range(r), mpOffset) /\ Merged(Range(r), mpOffset)
    BY ONLY <1>6, <1>8, <1>11
  <2>3. \E f \in F : f.at = u.at
    BY <1>1, <1>4
  <2> QED BY <1>4, <1>11, <1>12, <1>13, <2>1, <2>2, <2>3 DEF TakenFrom, s
<1>15. Retrieved(i, size).chunk = u
  BY <1>3
<1> QED BY <1>4, <1>14, <1>15 DEF F

\* Any other is given out as it is.
LEMMA RetrieveWhole ==
  ASSUME MmAssumption, MmTypes, NEW A \in SUBSET Area, Tiles(A, FreeAreas, mpOffset),
         Merged(FreeAreas, mpOffset), NEW i \in 1..Len(freeChunks), NEW size \in Nat \ {0},
         NEW spare \in Int, freeChunks[i].size >= size,
         ~(freeChunks[i].size >= size + Min({2 * size, SplitCap}))
  PROVE  /\ TakenFrom(A, FreeAreas, Retrieved(i, size), Retrieved(i, size).chunk, mpOffset, spare)
         /\ size <= Retrieved(i, size).chunk.size
<1> DEFINE s == freeChunks
           c == s[i]
           r == RemoveAt(s, i)
           F == FreeAreas
<1>1. /\ s \in Seq(Area) /\ Sorted(s) /\ freeCount = Len(s) /\ PoolHdr \in Nat /\ mpOffset \in Nat
      /\ c \in Area /\ c.size \in Nat \ {0}
      /\ c \in F /\ F \in SUBSET Area /\ Len(s) \in Nat
  <2>1. s \in Seq(Area) /\ Sorted(s) /\ freeCount = Len(s) /\ PoolHdr \in Nat /\ mpOffset \in Nat
    BY DEF MmTypes, MmAssumption, FreeCountRight
  <2>2. c \in Area /\ c \in F /\ F \in SUBSET Area /\ Len(s) \in Nat
    BY <2>1, ListOf DEF FreeAreas
  <2> HIDE DEF c
  <2> QED BY <2>1, <2>2, AreaIs
<1>2. Retrieved(i, size) = [chunk |-> c, count |-> freeCount - 1, list |-> r]
  BY DEF Retrieved
<1>3. size <= c.size
  BY <1>1
<1> HIDE DEF c, F, s, r
<1>4. /\ r \in Seq(Area) /\ Sorted(r) /\ Len(r) = Len(s) - 1 /\ Range(r) = F \ {c}
      /\ Available(spare, r) = Available(spare, s) + (spare - spare) - c.size
      /\ Available(spare, s) \in Int
  BY <1>1, ListDropped DEF r, c, F, FreeAreas, s
<1>5. Tiles(A \cup {c}, F \ {c}, mpOffset)
  BY <1>1, TilesTaken DEF F
<1>6. Merged(F \ {c}, mpOffset)
  BY DEF F, Merged
<1>7. PoolHdr <= c.at /\ EndOf(c) <= mpOffset
  BY <1>5 DEF Tiles
<1>8. Available(spare, r) = Available(spare, s) - c.size
  BY SMTT(30), <1>1, <1>4
<1>9. TakenFrom(A, F, Retrieved(i, size), c, mpOffset, spare)
  <2>1. Retrieved(i, size).list = r /\ Retrieved(i, size).count = Len(r) /\ Retrieved(i, size).chunk = c
    BY <1>1, <1>2, <1>4
  <2>2. /\ Tiles(A \cup {c}, Range(r), mpOffset) /\ Merged(Range(r), mpOffset)
    BY ONLY <1>4, <1>5, <1>6
  <2>3. \E f \in F : f.at = c.at
    BY <1>1
  <2> QED BY <1>1, <1>4, <1>7, <1>8, <2>1, <2>2, <2>3 DEF TakenFrom, s
<1>10. Retrieved(i, size).chunk = c
  BY <1>2
<1> QED BY <1>3, <1>9, <1>10 DEF F

\* A chunk u goes to process p.
LEMMA ObtainKeeps ==
  ASSUME MmAssumption, MmInv, mmGlobal, NEW p \in MmProcs, NEW u \in Area, NEW usize \in Nat,
         ChunkHdr + usize <= u.size, Obtain(p, u.at, u.size, usize), u.at \notin DOMAIN chunks,
         UNCHANGED <<mpSize, mmGlobal, coreHas>>,
         PoolHdr <= u.at, EndOf(u) <= mpOffset', mpOffset' \in Nat, mpOffset' <= mpSize,
         freeChunks' \in Seq(Area), Sorted(freeChunks'), freeCount' = Len(freeChunks'),
         Tiles(AllocatedAreas \cup {u}, Range(freeChunks'), mpOffset'),
         Merged(Range(freeChunks'), mpOffset'),
         Available(mpSize - mpOffset', freeChunks') = mm_available - u.size, mm_available \in Int,
         mmPc' \in [MmProcs -> {"idle", "spare"}], mmWant' \in [MmProcs -> Nat],
         mmReplaces' \in [MmProcs -> Nat],
         \A q \in MmProcs : mmReplaces'[q] # 0 => mmReplaces'[q] \in mmOwns[q]
  PROVE  MmInv'
<1>1. /\ MmTypes /\ ChunksOwned /\ BlocksHold /\ PoolTiled /\ mpSize \in Nat
      /\ PoolHdr \in Nat \ {0} /\ ChunkHdr \in Nat
  BY DEF MmInv, MmTypes, MmAssumption
<1>2. u.at \in Nat \ {0} /\ u.size \in Nat \ {0} /\ u.at \in 1..mpSize /\ u = [at |-> u.at, size |-> u.size]
  BY SMTT(60), <1>1, AreaIs
<1>3. /\ \A a \in DOMAIN chunks' : a \in Nat \ {0} /\ chunks'[a] \in Block
      /\ mmOwns' \in [MmProcs -> SUBSET Nat]
      /\ \A a \in DOMAIN chunks' : \E q \in MmProcs : a \in mmOwns'[q]
      /\ \A q \in MmProcs : mmOwns[q] \subseteq mmOwns'[q] /\ mmOwns'[q] \subseteq DOMAIN chunks'
      /\ BlocksHold'
      /\ AllocatedAreas' = AllocatedAreas \cup {[at |-> u.at, size |-> u.size]}
      /\ AllocatedSize' = AllocatedSize + u.size /\ AllocatedSize \in Int
  BY ONLY <1>1, <1>2, Obtained, p \in MmProcs, usize \in Nat, ChunkHdr + usize <= u.size,
          Obtain(p, u.at, u.size, usize), u.at \notin DOMAIN chunks, mpSize' = mpSize
<1>4. MmTypes'
  BY <1>1, <1>3 DEF MmTypes, MmInv, FreeCountRight
<1>5. ChunksOwned'
  BY <1>3 DEF ChunksOwned
<1>6. PoolTiled'
  <2>1. AllocatedAreas' = AllocatedAreas \cup {u}
    BY <1>2, <1>3
  <2>2. Tiles(AllocatedAreas', FreeAreas', mpOffset') /\ Merged(FreeAreas', mpOffset')
    BY <2>1 DEF FreeAreas
  <2>3. mm_available' = Available(mpSize - mpOffset', freeChunks')
    BY DEF mm_available, Available, SizesOf
  <2>4. mm_available = mpSize - PoolHdr - AllocatedSize
    BY <1>1 DEF PoolTiled
  <2>5. mm_available' = mm_available - u.size /\ u.size \in Nat /\ mpSize' = mpSize
    BY <1>2, <2>3
  <2>6. mm_available' = mpSize' - PoolHdr - AllocatedSize'
    <3>1. AllocatedSize' = AllocatedSize + u.size /\ AllocatedSize \in Int
      BY <1>3
    <3>2. mpSize \in Nat /\ PoolHdr \in Nat
      BY <1>1
    <3> QED BY ONLY <2>4, <2>5, <3>1, <3>2
  <2>7. PoolHdr <= mpOffset'
    BY SMTT(60), <1>1, <1>2, AreaIs
  <2> QED BY <2>2, <2>6, <2>7 DEF PoolTiled
<1>7. NoPool' /\ FailedCreateLeavesNothing'
  BY DEF NoPool, FailedCreateLeavesNothing
<1> QED BY <1>3, <1>4, <1>5, <1>6, <1>7 DEF MmInv

\* What a call leaves of the pool if it touches neither it nor the chunks.
LEMMA PoolUntouched ==
  ASSUME MmInv, UNCHANGED <<mmGlobal, mpSize, mpOffset, freeChunks, freeCount, chunks, mmOwns, coreHas>>,
         mmPc' \in [MmProcs -> {"idle", "spare"}], mmWant' \in [MmProcs -> Nat],
         mmReplaces' \in [MmProcs -> Nat], mmGlobal \/ mmPc' = mmPc,
         \A q \in MmProcs : mmReplaces'[q] # 0 => mmReplaces'[q] \in mmOwns[q]
  PROVE  MmInv'
<1>1. MmTypes' /\ ChunksOwned' /\ BlocksHold' /\ FailedCreateLeavesNothing'
  BY DEF MmInv, MmTypes, ChunksOwned, BlocksHold, FailedCreateLeavesNothing, FreeCountRight
<1>2. PoolTiled'
  <2>1. AllocatedAreas' = AllocatedAreas /\ FreeAreas' = FreeAreas
    BY DEF AllocatedAreas, ChunkAt, FreeAreas
  <2>2. mm_available' = mm_available /\ AllocatedSize' = AllocatedSize
    BY DEF mm_available, AllocatedSize
  <2> QED BY <2>1, <2>2 DEF MmInv, PoolTiled
<1>3. NoPool'
  BY DEF MmInv, NoPool
<1> QED BY <1>1, <1>2, <1>3 DEF MmInv

\* What the invariant says of a pool that is there.
LEMMA PoolIs ==
  ASSUME MmAssumption, MmInv, mmGlobal
  PROVE  /\ mpSize \in Nat /\ mpOffset \in Nat /\ PoolHdr \in Nat \ {0} /\ PoolHdr <= mpOffset
         /\ mpOffset <= mpSize /\ freeChunks \in Seq(Area) /\ Sorted(freeChunks)
         /\ freeCount = Len(freeChunks) /\ Len(freeChunks) \in Nat
         /\ AllocatedAreas \in SUBSET Area /\ FreeAreas \in SUBSET Area
         /\ Tiles(AllocatedAreas, FreeAreas, mpOffset) /\ Merged(FreeAreas, mpOffset)
         /\ mm_available = Available(mpSize - mpOffset, freeChunks) /\ mm_available \in Int
<1>1. /\ mpSize \in Nat /\ mpOffset \in Nat /\ PoolHdr \in Nat \ {0} /\ PoolHdr <= mpOffset
      /\ mpOffset <= mpSize /\ freeChunks \in Seq(Area) /\ Sorted(freeChunks)
      /\ freeCount = Len(freeChunks)
      /\ Tiles(AllocatedAreas, FreeAreas, mpOffset) /\ Merged(FreeAreas, mpOffset)
  BY DEF MmInv, MmTypes, PoolTiled, MmAssumption, FreeCountRight
<1>2. AllocatedAreas \in SUBSET Area
  BY DEF MmInv, AllocatedAreas, ChunkAt, Area, MmTypes, Block
<1>3. FreeAreas \in SUBSET Area /\ Len(freeChunks) \in Nat
  BY <1>1, ListOf DEF FreeAreas
<1>4. mpSize - mpOffset \in Int
  BY <1>1
<1>5. mm_available = Available(mpSize - mpOffset, freeChunks) /\ mm_available \in Int
  BY <1>1, <1>4, SpareMoved DEF mm_available, Available, SizesOf
<1> QED BY <1>1, <1>2, <1>3, <1>5

\* The chunk comes from the free list, or the call goes on to the spare area.
LEMMA MallocKeeps ==
  ASSUME MmAssumption, MmInv, NEW p \in MmProcs, NEW usize \in MmSizes,
         NEW replaces \in mmOwns[p] \cup {0}, Malloc(p, usize, replaces)
  PROVE  MmInv'
<1> DEFINE size == ChunkSize(usize)
           i == Min(BestFits(size))
           r == Retrieved(i, size)
<1>1. /\ mmGlobal /\ mmPc[p] = "idle" /\ usize > 0
      /\ mmReplaces' = [mmReplaces EXCEPT ![p] = replaces]
      /\ UNCHANGED <<mmGlobal, mpSize, mpOffset, coreHas>>
  BY DEF Malloc
<1>2. /\ mmReplaces' \in [MmProcs -> Nat] /\ usize \in Nat
      /\ \A q \in MmProcs : mmReplaces'[q] # 0 => mmReplaces'[q] \in mmOwns[q]
  BY SMTT(30), <1>1 DEF MmInv, MmTypes, ChunksOwned, MmAssumption
<1>3. CASE freeCount = 0 \/ BestFits(size) = {}
  <2>1. /\ mmPc' = [mmPc EXCEPT ![p] = "spare"] /\ mmWant' = [mmWant EXCEPT ![p] = usize]
        /\ UNCHANGED <<freeChunks, freeCount, chunks, mmOwns>>
    BY <1>3 DEF Malloc
  <2>2. mmPc' \in [MmProcs -> {"idle", "spare"}] /\ mmWant' \in [MmProcs -> Nat]
    BY <1>2, <2>1 DEF MmInv, MmTypes
  <2> QED BY <1>1, <1>2, <2>1, <2>2, PoolUntouched
<1>4. CASE ~(freeCount = 0 \/ BestFits(size) = {})
  <2>1. /\ freeChunks' = r.list /\ freeCount' = r.count
        /\ Obtain(p, r.chunk.at, r.chunk.size, usize)
        /\ UNCHANGED <<mmPc, mmWant>>
    BY <1>4 DEF Malloc
  <2>2. size \in Nat \ {0} /\ ChunkHdr + usize <= size /\ ChunkHdr \in Nat
    BY <1>2, ChunkSizeFits DEF MmAssumption
  <2> HIDE DEF size
  <2>3. i \in 1..Len(freeChunks) /\ freeChunks[i].size >= size
    <3>1. BestFits(size) \in SUBSET Nat /\ BestFits(size) # {}
      BY SMTT(30), <1>1, <1>4, PoolIs DEF BestFits
    <3>2. i \in BestFits(size)
      BY <3>1, Smallest
    <3> HIDE DEF i
    <3> QED BY <1>1, <3>2, PoolIs DEF BestFits
  <2> HIDE DEF i
  <2> DEFINE A == AllocatedAreas
             u == r.chunk
             spare == mpSize - mpOffset
  <2>4. spare \in Int
    BY <1>1, PoolIs
  <2>5. TakenFrom(A, FreeAreas, r, u, mpOffset, spare) /\ size <= u.size
    <3>1. /\ A \in SUBSET Area /\ Tiles(A, FreeAreas, mpOffset) /\ Merged(FreeAreas, mpOffset)
          /\ MmTypes
      BY <1>1, PoolIs DEF MmInv
    <3> HIDE DEF A, spare
    <3>2. CASE freeChunks[i].size >= size + Min({2 * size, SplitCap})
      BY <2>2, <2>3, <2>4, <3>1, <3>2, RetrieveSplits
    <3>3. CASE ~(freeChunks[i].size >= size + Min({2 * size, SplitCap}))
      BY <2>2, <2>3, <2>4, <3>1, <3>3, RetrieveWhole
    <3> QED BY <3>2, <3>3
  <2> HIDE DEF u, r
  <2>6. /\ freeChunks' \in Seq(Area) /\ Sorted(freeChunks') /\ freeCount' = Len(freeChunks')
        /\ u \in Area /\ PoolHdr <= u.at /\ EndOf(u) <= mpOffset
        /\ Tiles(A \cup {u}, Range(freeChunks'), mpOffset) /\ Merged(Range(freeChunks'), mpOffset)
        /\ Available(spare, freeChunks') = Available(spare, freeChunks) - u.size
        /\ \E f \in FreeAreas : f.at = u.at
    BY <2>1, <2>5 DEF TakenFrom
  <2>7. u.at \notin DOMAIN chunks
    <3>1. PICK f \in FreeAreas : f.at = u.at
      BY <2>6
    <3>2. f \in Area /\ f.at # 0
      BY <1>1, <2>6, <3>1, AreaIs, PoolIs
    <3>3. f.at \notin DOMAIN chunks
      BY <1>1, <3>2, PoolIs, FreeIsNotOwned DEF MmInv
    <3> QED BY <3>1, <3>3
  <2>8. Obtain(p, u.at, u.size, usize) /\ ChunkHdr + usize <= u.size
    <3>1. Obtain(p, u.at, u.size, usize)
      BY <2>1 DEF u
    <3>2. size <= u.size /\ u.size \in Nat
      BY <2>5, <2>6, AreaIs
    <3> QED BY <1>2, <2>2, <3>1, <3>2
  <2>9. /\ mmPc' \in [MmProcs -> {"idle", "spare"}] /\ mmWant' \in [MmProcs -> Nat]
    BY <2>1 DEF MmInv, MmTypes
  <2>10. /\ EndOf(u) <= mpOffset' /\ mpOffset' \in Nat /\ mpOffset' <= mpSize
         /\ Tiles(AllocatedAreas \cup {u}, Range(freeChunks'), mpOffset')
         /\ Merged(Range(freeChunks'), mpOffset')
         /\ Available(mpSize - mpOffset', freeChunks') = mm_available - u.size
         /\ mm_available \in Int
    BY <1>1, <2>6, PoolIs
  <2> HIDE DEF A, spare
  <2> QED BY <1>1, <1>2, <2>6, <2>7, <2>8, <2>9, <2>10, ObtainKeeps
<1> QED BY <1>3, <1>4

\* The chunk comes from the spare area.
LEMMA MallocSpareKeeps ==
  ASSUME MmAssumption, MmInv, NEW p \in MmProcs, MallocSpare(p)
  PROVE  MmInv'
<1> DEFINE usize == mmWant[p]
           size == ChunkSize(usize)
           u == [at |-> mpOffset, size |-> size]
           spare == mpSize - mpOffset
<1>1. /\ mmPc[p] = "spare" /\ mmPc' = [mmPc EXCEPT ![p] = "idle"] /\ mmWant' = [mmWant EXCEPT ![p] = 0]
      /\ UNCHANGED <<mmGlobal, mpSize, freeChunks, freeCount, coreHas>>
  BY DEF MallocSpare
<1>2. mmGlobal /\ usize \in Nat
  BY <1>1 DEF MmInv, NoPool, MmTypes
<1>3. mmPc' \in [MmProcs -> {"idle", "spare"}] /\ mmWant' \in [MmProcs -> Nat]
  BY <1>1 DEF MmInv, MmTypes
<1>4. /\ mmReplaces \in [MmProcs -> Nat]
      /\ \A q \in MmProcs : mmReplaces[q] # 0 => mmReplaces[q] \in mmOwns[q]
  BY DEF MmInv, MmTypes, ChunksOwned
<1>5. CASE spare < size
  <2>1. /\ mmReplaces' = [mmReplaces EXCEPT ![p] = 0] /\ UNCHANGED <<mpOffset, chunks, mmOwns>>
    BY <1>5 DEF MallocSpare
  <2>2. /\ mmReplaces' \in [MmProcs -> Nat]
        /\ \A q \in MmProcs : mmReplaces'[q] # 0 => mmReplaces'[q] \in mmOwns[q]
    BY <1>4, <2>1
  <2> QED BY <1>1, <1>2, <1>3, <2>1, <2>2, PoolUntouched
<1>6. CASE ~(spare < size)
  <2>1. /\ Obtain(p, mpOffset, size, usize) /\ mpOffset' = mpOffset + size /\ UNCHANGED mmReplaces
    BY <1>6 DEF MallocSpare
  <2>2. size \in Nat \ {0} /\ ChunkHdr + usize <= size /\ ChunkHdr \in Nat
    BY <1>2, ChunkSizeFits DEF MmAssumption
  <2> HIDE DEF size, usize
  <2>3. /\ mpSize \in Nat /\ mpOffset \in Nat /\ PoolHdr \in Nat \ {0} /\ PoolHdr <= mpOffset
        /\ freeChunks \in Seq(Area) /\ Sorted(freeChunks) /\ freeCount = Len(freeChunks)
        /\ AllocatedAreas \in SUBSET Area /\ FreeAreas \in SUBSET Area
        /\ Tiles(AllocatedAreas, FreeAreas, mpOffset) /\ Merged(FreeAreas, mpOffset)
        /\ mm_available = Available(spare, freeChunks) /\ mm_available \in Int
    BY <1>2, PoolIs
  <2>4. u \in Area /\ u.at = mpOffset /\ u.size = size
    BY <2>2, <2>3 DEF Area
  <2> HIDE DEF u
  <2>5. EndOf(u) = mpOffset'
    BY <2>1, <2>4 DEF EndOf
  <2>6. mpOffset' \in Nat /\ mpOffset' <= mpSize /\ mpOffset < mpOffset'
    BY <1>6, <2>1, <2>2, <2>3
  <2>7. Tiles(AllocatedAreas \cup {u}, Range(freeChunks'), mpOffset')
    <3>1. Tiles(AllocatedAreas \cup {u}, FreeAreas, EndOf(u))
      BY <2>3, <2>4, TilesGrown
    <3> QED BY <1>1, <2>5, <3>1 DEF FreeAreas
  <2>8. Merged(Range(freeChunks'), mpOffset')
    <3>1. \A f \in FreeAreas : EndOf(f) <= mpOffset /\ EndOf(f) \in Nat
      BY <2>3, AreaIs DEF Tiles
    <3>2. Merged(FreeAreas, mpOffset')
      BY <2>3, <2>6, <3>1 DEF Merged
    <3> QED BY <1>1, <3>2 DEF FreeAreas
  <2>9. Available(mpSize - mpOffset', freeChunks') = mm_available - u.size
    <3>1. spare \in Int /\ mpSize - mpOffset' \in Int /\ (mpSize - mpOffset') - spare = 0 - size
      BY <2>1, <2>2, <2>3
    <3> HIDE DEF spare
    <3>2. Available(mpSize - mpOffset', freeChunks)
            = Available(spare, freeChunks) + ((mpSize - mpOffset') - spare)
      BY <2>3, <3>1, SpareMoved
    <3> QED BY <1>1, <2>2, <2>3, <2>4, <3>1, <3>2
  <2>10. u.at \notin DOMAIN chunks
    BY <2>3, <2>4, FreeIsNotOwned DEF MmInv
  <2>11. Obtain(p, u.at, u.size, usize) /\ ChunkHdr + usize <= u.size /\ usize \in Nat
    BY <1>2, <2>1, <2>2, <2>4 DEF usize
  <2>12. /\ freeChunks' \in Seq(Area) /\ Sorted(freeChunks') /\ freeCount' = Len(freeChunks')
         /\ PoolHdr <= u.at /\ EndOf(u) <= mpOffset'
    BY <1>1, <2>3, <2>4, <2>5, <2>6
  <2>13. /\ mmReplaces' \in [MmProcs -> Nat]
         /\ \A q \in MmProcs : mmReplaces'[q] # 0 => mmReplaces'[q] \in mmOwns[q]
    BY <1>4, <2>1
  <2> HIDE DEF spare
  <2> QED BY <1>1, <1>2, <1>3, <2>3, <2>4, <2>6, <2>7, <2>8, <2>9, <2>10, <2>11, <2>12, <2>13, ObtainKeeps
<1> QED BY <1>5, <1>6

\* The user size of a block changes within its chunk.
LEMMA ReallocInPlaceKeeps ==
  ASSUME MmAssumption, MmInv, NEW p \in MmProcs, NEW a \in mmOwns[p], NEW usize \in MmSizes,
         ReallocInPlace(p, a, usize)
  PROVE  MmInv'
<1>1. /\ chunks' = [chunks EXCEPT ![a].usize = usize]
      /\ usize <= chunks[a].usize \/ ChunkSize(usize) <= chunks[a].size
      /\ UNCHANGED <<mmGlobal, mpSize, mpOffset, freeChunks, freeCount, mmOwns, mmPc, mmWant,
                     mmReplaces, coreHas>>
  BY DEF ReallocInPlace
<1>2. /\ \A b \in DOMAIN chunks : b \in Nat \ {0} /\ chunks[b] \in Block
      /\ a \in DOMAIN chunks /\ usize \in Nat /\ ChunkHdr \in Nat
  BY DEF MmInv, MmTypes, ChunksOwned, MmAssumption
<1>3. /\ DOMAIN chunks' = DOMAIN chunks
      /\ \A b \in DOMAIN chunks' : chunks'[b].size = chunks[b].size /\ chunks'[b] \in Block
      /\ \A b \in DOMAIN chunks' : b # a => chunks'[b] = chunks[b]
      /\ chunks'[a].usize = usize
  BY <1>1, <1>2 DEF Block
<1>4. MmTypes'
  BY <1>1, <1>2, <1>3 DEF MmInv, MmTypes, FreeCountRight
<1>5. ChunksOwned' /\ NoPool' /\ FailedCreateLeavesNothing'
  BY <1>1, <1>3 DEF MmInv, ChunksOwned, NoPool, FailedCreateLeavesNothing
<1>6. BlocksHold'
  <2>1. ChunkHdr + usize <= chunks[a].size
    <3>1. chunks[a].size \in Nat /\ chunks[a].usize \in Nat
      BY <1>2 DEF Block
    <3>2. ChunkHdr + chunks[a].usize <= chunks[a].size
      BY DEF MmInv, BlocksHold
    <3>3. ChunkSize(usize) \in Nat /\ ChunkHdr + usize <= ChunkSize(usize)
      BY <1>2, ChunkSizeFits
    <3> QED BY <1>1, <1>2, <3>1, <3>2, <3>3
  <2>2. \A q \in MmProcs : mmOwns[q] \subseteq DOMAIN chunks
    BY DEF MmInv, ChunksOwned
  <2>3. ASSUME NEW q \in MmProcs, NEW b \in mmOwns[q]
        PROVE  ChunkHdr + chunks'[b].usize <= chunks'[b].size
    <3>1. b \in DOMAIN chunks /\ chunks'[b].size = chunks[b].size
      BY <1>3, <2>2, <2>3
    <3>2. ChunkHdr + chunks[b].usize <= chunks[b].size
      BY <2>3 DEF MmInv, BlocksHold
    <3>3. CASE b = a
      BY <1>3, <2>1, <3>1, <3>3
    <3>4. CASE b # a
      BY <1>3, <3>1, <3>2, <3>4
    <3> QED BY <3>3, <3>4
  <2> QED BY <1>1, <2>3 DEF MmInv, BlocksHold
<1>7. PoolTiled'
  <2>1. AllocatedAreas' = AllocatedAreas /\ FreeAreas' = FreeAreas
    BY <1>1, <1>3 DEF AllocatedAreas, ChunkAt, FreeAreas
  <2>2. mm_available' = mm_available
    BY <1>1 DEF mm_available
  <2>3. AllocatedSize' = AllocatedSize
    <3>1. [b \in 1..mpSize |-> IF b \in DOMAIN chunks' THEN chunks'[b].size ELSE 0]
            = [b \in 1..mpSize |-> IF b \in DOMAIN chunks THEN chunks[b].size ELSE 0]
      BY <1>3
    <3> QED BY <1>1, <3>1 DEF AllocatedSize
  <2> QED BY <1>1, <2>1, <2>2, <2>3 DEF MmInv, PoolTiled
<1> QED BY <1>4, <1>5, <1>6, <1>7 DEF MmInv

\* A chunk goes back to the pool.
LEMMA FreeKeeps ==
  ASSUME MmAssumption, MmInv, mmGlobal, NEW p \in MmProcs, NEW a \in mmOwns[p], FreeBlock(p, a),
         mmReplaces' \in [MmProcs -> Nat], mmReplaces'[p] = 0,
         \A q \in MmProcs : q # p => mmReplaces'[q] = mmReplaces[q]
  PROVE  MmInv'
<1> DEFINE c == ChunkAt(a)
           A == AllocatedAreas
<1>1. /\ mm_insert_chunk(c) /\ chunks' = Restrict(chunks, DOMAIN chunks \ {a})
      /\ mmOwns' = [mmOwns EXCEPT ![p] = @ \ {a}]
      /\ UNCHANGED <<mmGlobal, mpSize, mmPc, mmWant, coreHas>>
  BY DEF FreeBlock, ChunkAt
<1>2. /\ MmTypes /\ ChunksOwned /\ BlocksHold /\ PoolTiled
      /\ a \in DOMAIN chunks /\ c \in A /\ c.at = a /\ c.size = chunks[a].size
  BY DEF MmInv, ChunksOwned, AllocatedAreas, ChunkAt
<1> HIDE DEF c, A
<1>3. /\ c \in Area /\ mpSize \in Nat /\ mpOffset \in Nat /\ PoolHdr \in Nat \ {0} /\ mpOffset <= mpSize
      /\ mm_available = Available(mpSize - mpOffset, freeChunks) /\ mm_available \in Int
      /\ Tiles(A, FreeAreas, mpOffset)
  BY <1>2, PoolIs DEF A
<1>4. a \in 1..mpSize
  <2>1. PoolHdr <= c.at /\ EndOf(c) <= mpOffset
    BY <1>2, <1>3 DEF Tiles
  <2>2. c.at \in Nat /\ EndOf(c) \in Nat /\ c.at < EndOf(c)
    BY <1>3, AreaIs
  <2> QED BY <1>2, <1>3, <2>1, <2>2
<1>5. Inserted(a)
  BY <1>1, <1>2, InsertChunk DEF c
<1>6. /\ \A b \in DOMAIN chunks' : b \in Nat \ {0} /\ chunks'[b] \in Block
      /\ mmOwns' \in [MmProcs -> SUBSET Nat]
      /\ \A b \in DOMAIN chunks' : \E q \in MmProcs : b \in mmOwns'[q]
      /\ \A q \in MmProcs : /\ mmOwns'[q] \subseteq DOMAIN chunks'
                            /\ q # p => mmOwns'[q] = mmOwns[q]
      /\ mmOwns'[p] = mmOwns[p] \ {a}
      /\ BlocksHold'
      /\ AllocatedAreas' = A \ {c}
      /\ AllocatedSize' = AllocatedSize - c.size /\ AllocatedSize \in Int
  BY ZenonT(30), <1>1, <1>2, <1>4, GaveUp DEF A, c
<1>7. /\ freeChunks' \in Seq(Area) /\ Sorted(freeChunks') /\ freeCount' = Len(freeChunks')
      /\ mpOffset' \in Nat /\ PoolHdr <= mpOffset' /\ mpOffset' <= mpOffset
      /\ Tiles(A \ {c}, Range(freeChunks'), mpOffset') /\ Merged(Range(freeChunks'), mpOffset')
      /\ Available(mpSize - mpOffset', freeChunks') = Available(mpSize - mpOffset, freeChunks) + c.size
  BY <1>5 DEF Inserted, GivenBack, A, c
<1>8. MmTypes'
  BY <1>1, <1>2, <1>6, <1>7 DEF MmTypes, FreeCountRight
<1>9. ChunksOwned'
  <2>1. \A q \in MmProcs : mmReplaces'[q] # 0 => mmReplaces'[q] \in mmOwns'[q]
    BY <1>2, <1>6 DEF ChunksOwned
  <2> QED BY <1>6, <2>1 DEF ChunksOwned
<1>10. PoolTiled'
  <2>1. Tiles(AllocatedAreas', FreeAreas', mpOffset') /\ Merged(FreeAreas', mpOffset')
    BY <1>6, <1>7 DEF FreeAreas
  <2>2. mm_available' = Available(mpSize - mpOffset', freeChunks')
    BY <1>1 DEF mm_available, Available, SizesOf
  <2>3. mm_available' = mm_available + c.size /\ c.size \in Nat
    BY <1>3, <1>7, <2>2, AreaIs
  <2>4. mm_available' = mpSize' - PoolHdr - AllocatedSize'
    <3>1. mm_available = mpSize - PoolHdr - AllocatedSize
      BY <1>2 DEF PoolTiled
    <3>2. AllocatedSize' = AllocatedSize - c.size /\ AllocatedSize \in Int /\ mpSize' = mpSize
      BY <1>1, <1>6
    <3>3. mpSize \in Nat /\ PoolHdr \in Nat
      BY <1>3
    <3> QED BY ONLY <2>3, <3>1, <3>2, <3>3
  <2>5. PoolHdr <= mpOffset' /\ mpOffset' <= mpSize'
    BY <1>1, <1>3, <1>7
  <2> QED BY <2>1, <2>4, <2>5 DEF PoolTiled
<1>11. NoPool' /\ FailedCreateLeavesNothing'
  BY <1>1 DEF NoPool, FailedCreateLeavesNothing
<1> QED BY <1>6, <1>8, <1>9, <1>10, <1>11 DEF MmInv

\* Every step.
LEMMA MmNextKeeps ==
  ASSUME MmAssumption, MmInv, MmNext
  PROVE  MmInv'
<1>1. ASSUME NEW n \in PoolSizes, MM_create(n) PROVE MmInv'
  BY <1>1, CreateKeeps
<1>2. CASE MM_destroy
  BY <1>2, DestroyKeeps
<1>3. ASSUME NEW p \in MmProcs, NEW n \in MmSizes, MM_malloc(p, n) PROVE MmInv'
  BY <1>3, MallocKeeps DEF MM_malloc
<1>4. ASSUME NEW p \in MmProcs, NEW n \in MmSizes, NEW a \in mmOwns[p], ReallocInPlace(p, a, n)
      PROVE  MmInv'
  BY <1>4, ReallocInPlaceKeeps
<1>5. ASSUME NEW p \in MmProcs, NEW n \in MmSizes, NEW a \in mmOwns[p], ReallocMoves(p, a, n)
      PROVE  MmInv'
  <2>1. Malloc(p, n, a) /\ a \in mmOwns[p] \cup {0}
    BY <1>5 DEF ReallocMoves
  <2> QED BY <2>1, MallocKeeps
<1>6. ASSUME NEW p \in MmProcs, MallocSpare(p) PROVE MmInv'
  BY <1>6, MallocSpareKeeps
<1>7. ASSUME NEW p \in MmProcs, ReallocFrees(p) PROVE MmInv'
  <2>1. /\ FreeBlock(p, mmReplaces[p]) /\ mmReplaces[p] \in mmOwns[p]
        /\ mmReplaces' = [mmReplaces EXCEPT ![p] = 0] /\ mmReplaces \in [MmProcs -> Nat]
    BY <1>7 DEF ReallocFrees, MmInv, ChunksOwned, MmTypes
  <2>2. mmGlobal
    BY <2>1 DEF MmInv, NoPool, ChunksOwned
  <2>3. /\ mmReplaces' \in [MmProcs -> Nat] /\ mmReplaces'[p] = 0
        /\ \A q \in MmProcs : q # p => mmReplaces'[q] = mmReplaces[q]
    BY <2>1
  <2> QED BY <2>1, <2>2, <2>3, FreeKeeps
<1>8. ASSUME NEW p \in MmProcs, NEW a \in mmOwns[p], MM_free(p, a) PROVE MmInv'
  <2>1. FreeBlock(p, a) /\ mmReplaces[p] = 0 /\ mmReplaces' = mmReplaces
    BY <1>8 DEF MM_free
  <2>2. mmGlobal /\ mmReplaces \in [MmProcs -> Nat]
    BY DEF MmInv, NoPool, ChunksOwned, MmTypes
  <2> QED BY <2>1, <2>2, FreeKeeps
<1> QED BY <1>1, <1>2, <1>3, <1>4, <1>5, <1>6, <1>7, <1>8 DEF MmNext

\* The covering areas of an address of the pool, of which there is one.
LEMMA OneCovers ==
  ASSUME MmAssumption, MmInv, mmGlobal, NEW b \in PoolHdr .. mpSize - 1
  PROVE  Cardinality({r \in Areas : r.at <= b /\ b < EndOf(r)}) = 1
<1> DEFINE A == AllocatedAreas
           F == FreeAreas
           spare == [at |-> mpOffset, size |-> mpSize - mpOffset]
           here == {r \in Areas : r.at <= b /\ b < EndOf(r)}
<1>1. /\ mpSize \in Nat /\ mpOffset \in Nat /\ PoolHdr \in Nat /\ mpOffset <= mpSize
      /\ A \in SUBSET Area /\ F \in SUBSET Area /\ Tiles(A, F, mpOffset) /\ b \in Nat
  BY PoolIs
<1>2. Areas = A \cup F \cup {spare} /\ EndOf(spare) = mpSize /\ spare.at = mpOffset
  <2>1. Areas = A \cup F \cup {spare}
    BY DEF Areas, AllocatedAreas, FreeAreas, ChunkAt
  <2>2. EndOf(spare) = mpOffset + (mpSize - mpOffset) /\ spare.at = mpOffset
    BY DEF EndOf
  <2> QED BY <1>1, <2>1, <2>2
<1> HIDE DEF A, F, spare
<1>3. \A r \in A \cup F : r.at \in Nat /\ EndOf(r) \in Nat /\ EndOf(r) <= mpOffset
  BY <1>1, AreaIs DEF Tiles
<1>4. CASE b < mpOffset
  <2>1. PICK r \in A \cup F : Covers(r, b)
    BY <1>1, <1>4 DEF Tiles
  <2>2. \A s \in A \cup F : s.at <= b /\ b < EndOf(s) => s = r
    BY <1>1, <1>3, <2>1 DEF Tiles, Covers
  <2>3. here = {r}
    BY <1>1, <1>2, <1>4, <2>1, <2>2 DEF Covers
  <2> HIDE DEF here
  <2> QED BY <2>3, FS_Singleton DEF here
<1>5. CASE mpOffset <= b
  <2>1. here = {spare}
    BY <1>1, <1>2, <1>3, <1>5
  <2> HIDE DEF here
  <2> QED BY <2>1, FS_Singleton DEF here
<1> QED BY <1>1, <1>4, <1>5

\* What the allocator promises, whatever the processes that share it do: every byte
\* behind the pool's header belongs to one chunk, allocated or free, or to the spare
\* area, mm_available counts the ones that are not given out, neighbouring free
\* chunks are merged, the list's head counts it, a block holds what was asked for
\* and is one process's, and a pool that is not there keeps nothing of the system.
\* The split of mm_retrieve_chunk, the six ways mm_insert_chunk joins a chunk and
\* the second lock of mm_malloc are what could break it.
THEOREM PoolStaysSound == MmSpec => []PoolSound
<1>1. MmInit => MmInv
  BY MmStarts
<1>2. MmInv /\ [MmNext]_mmVars => MmInv'
  <2> SUFFICES ASSUME MmInv, [MmNext]_mmVars PROVE MmInv'
    OBVIOUS
  <2>1. CASE MmNext
    BY <2>1, MmNextKeeps, MmAssumption
  <2>2. CASE UNCHANGED mmVars
    <3>1. UNCHANGED <<mmGlobal, mpSize, mpOffset, freeChunks, freeCount, chunks, mmOwns, coreHas>>
      BY <2>2 DEF mmVars
    <3>2. /\ mmPc' \in [MmProcs -> {"idle", "spare"}] /\ mmWant' \in [MmProcs -> Nat]
          /\ mmReplaces' \in [MmProcs -> Nat] /\ mmPc' = mmPc
          /\ \A q \in MmProcs : mmReplaces'[q] # 0 => mmReplaces'[q] \in mmOwns[q]
      BY <2>2 DEF mmVars, MmInv, MmTypes, ChunksOwned
    <3> QED BY <3>1, <3>2, PoolUntouched
  <2> QED BY <2>1, <2>2
<1>3. MmInv => PoolSound
  <2> SUFFICES ASSUME MmInv PROVE PoolSound
    OBVIOUS
  <2>1. ChunksTile
    BY OneCovers, MmAssumption DEF ChunksTile, MmInv, PoolTiled
  <2>2. FullyMerged
    <3>1. CASE mmGlobal
      BY <3>1 DEF FullyMerged, MmInv, PoolTiled, Merged, FreeAreas
    <3>2. CASE ~mmGlobal
      <4>1. Range(freeChunks) = {}
        BY <3>2 DEF MmInv, NoPool, Range
      <4> QED BY <4>1 DEF FullyMerged
    <3> QED BY <3>1, <3>2
  <2> QED BY <2>1, <2>2 DEF PoolSound, MmInv, MmTypes
<1> QED BY <1>1, <1>2, <1>3, PTL DEF MmSpec

==============================================================================
