--------------------------- MODULE DhsPartsProofs ---------------------------
(***************************************************************************)
(* Theorems about the smaller parts of the DHS, each for itself:           *)
(* CollectorLoop, for any number of clients and of child processes, any    *)
(* room in the process table, and every failure of accept, fork and read;  *)
(* ProtoTransfer, for any number of senders, sizes of a block, of the      *)
(* server's buffer and of the disks, and every failure of a write;         *)
(* NoaoUpload, for any exposures, copies of the program and uploads;       *)
(* DhsTcl, for any scripts and whatever fails under them.                  *)
(***************************************************************************)
EXTENDS CollectorLoop, ProtoTransfer, NoaoUpload, DhsTcl, FiniteSetTheorems,
        SequenceTheorems, TLAPS

------------------------------------------------------------------------------
(* The Collector *)

\* The states of the parent and of its children, and what they hold.
ColTypeOK ==
  /\ knocking \in SUBSET ColClients
  /\ kidState \in [ColKids -> {"none", "forked", "loop", "zombie"}]
  /\ colFds \in [ColProcs -> SUBSET (ColClients \cup {Listen})]
  /\ servedBy \in [ColProcs -> SUBSET ColClients]
  /\ parentState \in {"accept", "fork", "exited"}

\* Between two accepts the parent holds its listening socket alone, and after
\* one the connection with it; it reads no messages.
ParentHolds ==
  /\ parentState = "accept" => colFds[ColParent] = {Listen}
  /\ parentState = "fork" => \E c \in ColClients : colFds[ColParent] = {Listen, c}
  /\ parentState = "exited" => colFds[ColParent] = {}
  /\ servedBy[ColParent] = {}

\* A child has the two sockets of its parent until it closes the listening one,
\* and then the connection it read from; a dead one has neither.
ChildHolds ==
  \A k \in ColKids :
    /\ kidState[k] \in {"none", "zombie"} => colFds[k] = {}
    /\ kidState[k] \in {"none", "forked"} => servedBy[k] = {}
    /\ kidState[k] = "forked" => \E c \in ColClients : colFds[k] = {Listen, c}
    /\ kidState[k] = "loop" => \E c \in ColClients : colFds[k] = {c} /\ servedBy[k] = {c}
    /\ kidState[k] = "zombie" => \E c \in ColClients : servedBy[k] \subseteq {c}

\* What a process knows of clients: those it is connected to and those it read.
Knows(p) == ClientOf(p) \cup servedBy[p]

\* A client is waiting, or one process knows it, or neither.
OnePlace ==
  /\ \A p \in ColProcs : knocking \cap Knows(p) = {}
  /\ \A p, q \in ColProcs : p # q => Knows(p) \cap Knows(q) = {}

CollectorInv == ColTypeOK /\ ParentHolds /\ ChildHolds /\ OnePlace

\* The invariant holds when the Collector starts.
LEMMA InitCollectorInv == ColInit => CollectorInv
  BY CollectorAssumption
  DEF ColInit, CollectorInv, ColTypeOK, ParentHolds, ChildHolds, OnePlace, Knows,
      ClientOf, ColProcs, ColParent, Listen

\* Every step of the Collector, its children and its clients keeps it.
LEMMA NextCollectorInv == CollectorInv /\ [ColNext]_colVars => CollectorInv'
<1> SUFFICES ASSUME CollectorInv, [ColNext]_colVars PROVE CollectorInv'
  OBVIOUS
<1> USE CollectorAssumption DEF CollectorInv, ColProcs
<1>1. CASE UNCHANGED colVars
  BY <1>1 DEF colVars, ColTypeOK, ParentHolds, ChildHolds, OnePlace, Knows, ClientOf
<1>2. CASE ParentAccepts
  <2>1. PICK c \in knocking : /\ knocking' = knocking \ {c}
                              /\ colFds' = [colFds EXCEPT ![ColParent] = @ \cup {c}]
    BY <1>2 DEF ParentAccepts
  <2>2. c \in ColClients /\ colFds[ColParent] = {Listen} /\ colFds'[ColParent] = {Listen, c}
    BY <1>2, <2>1 DEF ParentAccepts, ColTypeOK, ParentHolds
  <2>3. \A k \in ColKids : colFds'[k] = colFds[k]
    BY <2>1 DEF ColTypeOK, ColParent
  <2>4. ColTypeOK'
    BY <1>2, <2>1, <2>2 DEF ParentAccepts, ColTypeOK
  <2>5. ParentHolds' /\ ChildHolds'
    BY <1>2, <2>2, <2>3 DEF ParentAccepts, ParentHolds, ChildHolds
  <2>6. OnePlace'
    BY <1>2, <2>1, <2>2, <2>3 DEF ParentAccepts, OnePlace, Knows, ClientOf, ParentHolds
  <2> QED BY <2>4, <2>5, <2>6
<1>3. CASE ParentAcceptFails
  BY <1>3 DEF ParentAcceptFails, ColTypeOK, ParentHolds, ChildHolds, OnePlace, Knows, ClientOf,
              ColParent
<1>4. CASE ParentForks
  <2>0. PICK c \in ColClients : colFds[ColParent] = {Listen, c}
    BY <1>4 DEF ParentForks, ParentHolds
  <2>1. ParentCloses(colFds[ColParent]) = {Listen}
    BY <2>0 DEF ParentCloses
  <2>2. CASE colFds' = [colFds EXCEPT ![ColParent] = ParentCloses(@)] /\ UNCHANGED kidState
    <3>1. ColTypeOK'
      BY <1>4, <2>1, <2>2 DEF ParentForks, ColTypeOK
    <3>2. \A k \in ColKids : colFds'[k] = colFds[k]
      BY <2>2 DEF ColTypeOK, ColParent
    <3>3. colFds'[ColParent] = {Listen}
      BY <2>1, <2>2 DEF ColTypeOK
    <3> QED BY <1>4, <2>2, <3>1, <3>2, <3>3
            DEF ParentForks, ParentHolds, ChildHolds, OnePlace, Knows, ClientOf
  <2>3. ASSUME NEW k \in ColKids \ InTable,
               kidState' = [kidState EXCEPT ![k] = "forked"],
               colFds' = [colFds EXCEPT ![k] = colFds[ColParent],
                                        ![ColParent] = ParentCloses(@)]
        PROVE  CollectorInv'
    <3>1. kidState[k] = "none" /\ servedBy[k] = {} /\ k # ColParent
      BY <2>3 DEF InTable, ChildHolds
    <3>2. ColTypeOK'
      BY <1>4, <2>1, <2>3 DEF ParentForks, ColTypeOK
    <3>3. /\ colFds'[k] = {Listen, c} /\ colFds'[ColParent] = {Listen}
          /\ \A p \in ColKids \ {k} : colFds'[p] = colFds[p]
      BY <2>0, <2>1, <2>3, <3>1 DEF ColTypeOK
    <3>4. ParentHolds' /\ ChildHolds'
      BY <1>4, <2>3, <3>1, <3>3 DEF ParentForks, ParentHolds, ChildHolds, ColTypeOK
    <3>5. /\ Knows(k)' = Knows(ColParent) /\ Knows(ColParent)' = {}
          /\ \A p \in ColKids \ {k} : Knows(p)' = Knows(p)
      BY <1>4, <2>0, <3>1, <3>3 DEF ParentForks, Knows, ClientOf, ParentHolds
    <3>6. OnePlace'
      BY <1>4, <3>1, <3>5 DEF ParentForks, OnePlace
    <3> QED BY <3>2, <3>4, <3>6
  <2> QED BY <1>4, <2>2, <2>3 DEF ParentForks
<1>5. ASSUME NEW k \in ColKids, processMessages(k) PROVE CollectorInv'
  <2>0. PICK c \in ColClients : colFds[k] = {Listen, c} /\ servedBy[k] = {} /\ k # ColParent
    BY <1>5 DEF processMessages, ChildHolds
  <2>1. CASE kidState'[k] = "loop"
    <3>1. colFds'[k] = {c} /\ servedBy'[k] = {c}
      BY <1>5, <2>0, <2>1 DEF processMessages, ColTypeOK, ChildCloses, ClientOf
    <3>2. ColTypeOK'
      BY <1>5, <2>0, <2>1 DEF processMessages, ColTypeOK, ChildCloses, ClientOf
    <3>3. \A p \in ColProcs \ {k} : colFds'[p] = colFds[p] /\ servedBy'[p] = servedBy[p]
      BY <1>5, <2>1 DEF processMessages, ColTypeOK
    <3>4. ParentHolds' /\ ChildHolds'
      BY <1>5, <2>0, <2>1, <3>1, <3>3 DEF processMessages, ParentHolds, ChildHolds, ColTypeOK
    <3>5. Knows(k)' = Knows(k) /\ \A p \in ColProcs \ {k} : Knows(p)' = Knows(p)
      BY <2>0, <3>1, <3>3 DEF Knows, ClientOf
    <3>6. OnePlace'
      BY <1>5, <3>5 DEF processMessages, OnePlace
    <3> QED BY <3>2, <3>4, <3>6
  <2>2. CASE kidState'[k] = "zombie"
    BY <1>5, <2>0, <2>2
    DEF processMessages, ColTypeOK, ParentHolds, ChildHolds, OnePlace, Knows, ClientOf
  <2> QED BY <1>5, <2>1, <2>2 DEF processMessages, ColTypeOK
<1>6. ASSUME NEW k \in ColKids, ChildLoops(k) PROVE CollectorInv'
  <2>0. PICK c \in ColClients : colFds[k] = {c} /\ servedBy[k] = {c} /\ k # ColParent
    BY <1>6 DEF ChildLoops, ChildHolds
  <2>1. Listen \notin colFds[k]
    BY <2>0
  <2>2. /\ kidState' = [kidState EXCEPT ![k] = "zombie"] /\ knocking' = knocking
        /\ colFds' = [colFds EXCEPT ![k] = {}]
    <3>1. PICK d \in knocking \cup {"none"} :
            /\ d # "none" <=> Listen \in colFds[k]
            /\ knocking' = knocking \ {d}
            /\ kidState' = [kidState EXCEPT ![k] = IF d = "none" THEN "zombie" ELSE "forked"]
            /\ colFds' = [colFds EXCEPT ![k] = IF d = "none" THEN {} ELSE {Listen, d}]
      BY <1>6 DEF ChildLoops
    <3>2. d = "none" /\ "none" \notin knocking
      BY <2>1, <3>1 DEF ColTypeOK
    <3> QED BY <3>1, <3>2
  <2> QED
    BY <1>6, <2>0, <2>2
    DEF ChildLoops, ColTypeOK, ParentHolds, ChildHolds, OnePlace, Knows, ClientOf
<1>7. ASSUME NEW c \in ColClients, Knocks(c) PROVE CollectorInv'
  BY <1>7 DEF Knocks, ColTypeOK, ParentHolds, ChildHolds, OnePlace, Knows, ClientOf
<1> QED
  BY <1>1, <1>2, <1>3, <1>4, <1>5, <1>6, <1>7 DEF ColNext, execute

\* The inductive invariant holds in every reachable state.
LEMMA CollectorInvHolds == ColSpec => []CollectorInv
  BY InitCollectorInv, NextCollectorInv, PTL DEF ColSpec

\* No child reads messages of two clients, no client is read by two children,
\* and while the Collector waits only a live child holds a client's connection:
\* one child per connection, from its accept to its end.
THEOREM OneChildPerConnection == ColSpec => []ChildPerConnection
<1>1. CollectorInv => OneClientPerChild
  <2> SUFFICES ASSUME CollectorInv PROVE OneClientPerChild
    OBVIOUS
  <2>1. ASSUME NEW p \in ColProcs PROVE Cardinality(servedBy[p]) <= 1
    <3>1. servedBy[p] = {} \/ \E c : servedBy[p] = {c}
      BY <2>1 DEF CollectorInv, ColTypeOK, ParentHolds, ChildHolds, ColProcs
    <3>2. Cardinality(servedBy[p]) = 0 \/ Cardinality(servedBy[p]) = 1
      BY <3>1, FS_EmptySet, FS_Singleton
    <3> QED BY <3>2
  <2>2. \A p, q \in ColProcs : p # q => servedBy[p] \cap servedBy[q] = {}
    BY DEF CollectorInv, OnePlace, Knows
  <2> QED BY <2>1, <2>2 DEF OneClientPerChild
<1>2. CollectorInv => EndsWithItsChild
  BY CollectorAssumption
  DEF CollectorInv, EndsWithItsChild, ParentHolds, ChildHolds, ColTypeOK, ColProcs
<1> QED BY <1>1, <1>2, CollectorInvHolds, PTL DEF ChildPerConnection

------------------------------------------------------------------------------
(* The transfer prototype: the invariant *)

Chunk == [from : PtSenders, send : Nat, part : {"header", "data"}, short : BOOLEAN]
SendSteps ==
  {PtIdle, PtGone} \cup [at : {"header", "data"}, file : FileNames, send : Nat]
                   \cup [at : {"pipe"}, conn : Nat]
Connection == [from : PtSenders, left : 0..BlkSize, closed : BOOLEAN]
Unit == Nat \X Nat

SenderTypes ==
  /\ sendStatus \in [PtSenders -> {-1, 0, 1}] /\ sendStep \in [PtSenders -> SendSteps]
  /\ expFiles \in [FileNames -> Seq(Chunk)] /\ diskRoom \in Nat /\ noSends \in Nat
NetTypes ==
  /\ conns \in Seq(Connection)
  /\ accepted \in Nat /\ accepted <= Len(conns) /\ server \in {"accept", "read", "dead"}
  /\ server = "read" => accepted > 0
  /\ mmTest \in Seq(Unit) /\ srvRoom \in Nat
TransferTypes == SenderTypes /\ NetTypes

\* A sender inside a call has not failed before.
OnlyGoodSend ==
  \A s \in PtSenders : sendStep[s].at \in {"header", "data", "pipe"} => sendStatus[s] >= 0

OneWriter(ch) == \A i, j \in DOMAIN ch : ch[i].from = ch[j].from

\* Chunk i of a file: what it is, what it follows, and that it is the last one
\* when it was cut short.
ChunkFits(ch, i) ==
  /\ ch[i].part = (IF i % 2 = 1 THEN "header" ELSE "data")
  /\ ch[i].part = "data" => ch[i].send = ch[i - 1].send
  /\ ch[i].short => i = Len(ch)

\* A header at the end of file f waits for its block, or its sender has failed.
HeaderLast(f) ==
  Len(expFiles[f]) % 2 = 1 =>
    LET h == expFiles[f][Len(expFiles[f])] IN
      \/ sendStatus[h.from] < 0
      \/ sendStep[h.from] = [at |-> "data", file |-> f, send |-> h.send]

FileFits(f) ==
  OneWriter(expFiles[f]) =>
    /\ \A i \in DOMAIN expFiles[f] : /\ ChunkFits(expFiles[f], i)
                                     /\ expFiles[f][i].short => diskRoom = 0
    /\ HeaderLast(f)

\* A sender about to write a block has its header in the file, and at its end
\* unless somebody else wrote there.
HeaderWritten(s) ==
  sendStep[s].at = "data" =>
    LET ch == expFiles[sendStep[s].file] IN
      /\ \E i \in DOMAIN ch : ch[i].from = s
      /\ OneWriter(ch) => Len(ch) % 2 = 1 /\ ch[Len(ch)].send = sendStep[s].send

WriterInv ==
  /\ TransferTypes /\ OnlyGoodSend
  /\ \A f \in FileNames : FileFits(f)
  /\ \A s \in PtSenders : HeaderWritten(s)

\* What the server has read of a connection.
ReadOf(c) == IF conns[c].closed THEN BlkSize - conns[c].left ELSE 0

\* A connection has nothing to read before its sender wrote the block and closed
\* it, and all of it before it is accepted.
Connections ==
  /\ \A s \in PtSenders : sendStep[s].at = "pipe" =>
       /\ sendStep[s].conn \in DOMAIN conns
       /\ conns[sendStep[s].conn] = [from |-> s, left |-> 0, closed |-> FALSE]
  /\ \A c \in DOMAIN conns : /\ ~conns[c].closed => conns[c].left = 0
                             /\ accepted < c => ReadOf(c) = 0

\* mm_test ends with what was read of the latest connection that had anything.
EndOfFile ==
  srvRoom > 0 =>
    IF accepted > 0 /\ ReadOf(accepted) > 0
    THEN mmTest # << >> /\ mmTest[Len(mmTest)] = <<accepted, ReadOf(accepted)>>
    ELSE mmTest # << >> => mmTest[Len(mmTest)][1] < accepted

UnitsStored ==
  srvRoom > 0 =>
    \A c \in 1..accepted : \A u \in 1..ReadOf(c) : \E i \in DOMAIN mmTest : mmTest[i] = <<c, u>>

Served ==
  \A c \in 1..accepted :
    (c # accepted \/ server = "accept") /\ c \notin cutOff => conns[c].closed /\ conns[c].left = 0

ServerInv == TransferTypes /\ Connections /\ EndOfFile /\ UnitsStored /\ Served /\ BlocksContiguous

------------------------------------------------------------------------------
(* The transfer prototype: the senders *)

\* The smaller of two naturals.
LEMMA MinOfTwo ==
  ASSUME NEW a \in Nat, NEW b \in Nat
  PROVE  /\ Min({a, b}) \in Nat /\ Min({a, b}) <= a /\ Min({a, b}) <= b
         /\ Min({a, b}) = a \/ Min({a, b}) = b
<1>1. \E x \in {a, b} : \A y \in {a, b} : x <= y
  OBVIOUS
<1> QED BY <1>1 DEF Min

\* Parity, as a file alternates between headers and blocks.
LEMMA OddIsPositive == \A n \in Nat : n % 2 = 1 => n # 0
  OBVIOUS

LEMMA EvenAfterOdd ==
  \A n \in Nat : /\ n % 2 = 0 => (n + 1) % 2 = 1
                /\ n % 2 = 1 => (n + 1) % 2 = 0
  OBVIOUS

\* What appending an element leaves and adds.
LEMMA AppendIs ==
  ASSUME NEW S, NEW s \in Seq(S), NEW x \in S
  PROVE  /\ Append(s, x) \in Seq(S) /\ Len(s) \in Nat /\ Len(Append(s, x)) = Len(s) + 1
         /\ DOMAIN s = 1..Len(s) /\ DOMAIN Append(s, x) = 1..(Len(s) + 1)
         /\ Append(s, x)[Len(s) + 1] = x
         /\ \A i \in 1..Len(s) : Append(s, x)[i] = s[i] /\ s[i] \in S
OBVIOUS

\* What a call inside the file senders knows.
LEMMA InsideFile ==
  ASSUME TransferTypes, NEW s \in PtSenders
  PROVE  /\ sendStep[s].at \in {"header", "data"} =>
              sendStep[s].file \in FileNames /\ sendStep[s].send \in Nat
         /\ sendStep[s].at = "pipe" => sendStep[s].conn \in Nat
         /\ sendStatus[s] \in {-1, 0, 1}
  BY DEF TransferTypes, SenderTypes, NetTypes, SendSteps, PtIdle, PtGone

\* The chunk that a write appends, when it does; a whole one takes room, and one
\* cut short takes all there is.
LEMMA ChunkAppended ==
  ASSUME TransferTypes, NEW s \in PtSenders, sendStep[s].at \in {"header", "data"},
         NEW part \in {"header", "data"}, NEW len \in Nat \ {0}, AppendChunk(s, part, len)
  PROVE  /\ diskRoom > 0 /\ diskRoom' \in Nat
         /\ \E x \in Chunk :
              /\ x.from = s /\ x.send = sendStep[s].send /\ x.part = part
              /\ x.short => diskRoom' = 0 /\ len > 1
              /\ expFiles' = [expFiles EXCEPT ![sendStep[s].file] = Append(@, x)]
<1> DEFINE k == Min({len, diskRoom})
           x == [from |-> s, send |-> sendStep[s].send, part |-> part, short |-> k < len]
<1>1. k \in Nat /\ k <= len /\ k <= diskRoom /\ (k = len \/ k = diskRoom) /\ diskRoom \in Nat
  BY MinOfTwo DEF TransferTypes, SenderTypes, NetTypes
<1>2. /\ diskRoom > 0 /\ diskRoom' = diskRoom - k
      /\ expFiles' = [expFiles EXCEPT ![sendStep[s].file] = Append(@, x)]
  BY DEF AppendChunk
<1> HIDE DEF k
<1>3. x \in Chunk /\ x.from = s /\ x.send = sendStep[s].send /\ x.part = part
  BY InsideFile DEF Chunk
<1>4. x.short => diskRoom' = 0 /\ len > 1
  <2>1. x.short <=> k < len
    OBVIOUS
  <2>2. k < len => diskRoom' = 0 /\ len > 1
    BY <1>1, <1>2
  <2> QED BY <2>1, <2>2
<1>5. diskRoom' \in Nat
  BY <1>1, <1>2
<1> HIDE DEF x
<1> QED BY <1>2, <1>3, <1>4, <1>5

\* A file that is not written to stays as it was, whatever a sender does that is
\* not about to write its block there.
LEMMA FileKept ==
  ASSUME WriterInv, NEW s \in PtSenders, NEW f \in FileNames, expFiles'[f] = expFiles[f],
         \A t \in PtSenders \ {s} : sendStatus'[t] = sendStatus[t] /\ sendStep'[t] = sendStep[t],
         diskRoom' = diskRoom \/ diskRoom > 0,
         \/ sendStatus[s] >= 0 /\ (sendStep[s].at = "data" => sendStep[s].file # f)
         \/ sendStatus'[s] = sendStatus[s] /\ sendStep'[s] = sendStep[s]
         \/ sendStatus'[s] < 0
  PROVE  FileFits(f)'
<1> DEFINE ch == expFiles[f]
<1>1. ch \in Seq(Chunk) /\ Len(ch) \in Nat /\ DOMAIN ch = 1..Len(ch)
  BY DEF WriterInv, TransferTypes, SenderTypes, NetTypes
<1>2. SUFFICES ASSUME OneWriter(ch)
               PROVE  /\ \A i \in DOMAIN ch : ChunkFits(ch, i) /\ (ch[i].short => diskRoom' = 0)
                      /\ HeaderLast(f)'
  BY DEF FileFits
<1>3. /\ \A i \in DOMAIN ch : ChunkFits(ch, i) /\ (ch[i].short => diskRoom = 0)
      /\ HeaderLast(f)
  BY <1>2 DEF WriterInv, FileFits
<1>4. ASSUME NEW i \in DOMAIN ch PROVE ChunkFits(ch, i) /\ (ch[i].short => diskRoom' = 0)
  BY <1>3
<1>5. HeaderLast(f)'
  <2> SUFFICES ASSUME Len(ch) % 2 = 1
               PROVE  \/ sendStatus'[ch[Len(ch)].from] < 0
                      \/ sendStep'[ch[Len(ch)].from]
                           = [at |-> "data", file |-> f, send |-> ch[Len(ch)].send]
    BY DEF HeaderLast
  <2>1. Len(ch) # 0
    BY OddIsPositive, <1>1
  <2>2. ch[Len(ch)].from \in PtSenders
    <3> HIDE DEF ch
    <3>1. ch[Len(ch)] \in Chunk
      BY <1>1, <2>1
    <3> QED BY <3>1 DEF Chunk
  <2>3. \/ sendStatus[ch[Len(ch)].from] < 0
        \/ sendStep[ch[Len(ch)].from] = [at |-> "data", file |-> f, send |-> ch[Len(ch)].send]
    BY <1>3 DEF HeaderLast
  <2>4. CASE ch[Len(ch)].from # s
    BY <2>2, <2>3, <2>4
  <2>5. CASE ch[Len(ch)].from = s
    <3>1. sendStatus[s] \in {-1, 0, 1}
      BY InsideFile DEF WriterInv
    <3>2. sendStep[s] = [at |-> "data", file |-> f, send |-> ch[Len(ch)].send] =>
            sendStep[s].at = "data" /\ sendStep[s].file = f
      OBVIOUS
    <3> QED BY <2>3, <2>5, <3>1, <3>2
  <2> QED BY <2>4, <2>5
<1> QED BY <1>4, <1>5

\* A chunk that the sender appends where it is in its call fits the file, and
\* every sender's header is still where it was.
LEMMA FileAppended ==
  ASSUME WriterInv, NEW s \in PtSenders, sendStep[s].at \in {"header", "data"},
         NEW f \in FileNames, f = sendStep[s].file, NEW x \in Chunk,
         x.from = s, x.send = sendStep[s].send, x.part = sendStep[s].at,
         x.short => diskRoom' = 0 /\ x.part = "data",
         diskRoom > 0, expFiles' = [expFiles EXCEPT ![f] = Append(@, x)],
         \A t \in PtSenders \ {s} : sendStatus'[t] = sendStatus[t] /\ sendStep'[t] = sendStep[t],
         IF x.part = "header" THEN sendStep'[s] = [at |-> "data", file |-> f, send |-> x.send]
                              ELSE sendStep'[s] = PtIdle
  PROVE  FileFits(f)' /\ \A t \in PtSenders : HeaderWritten(t)'
<1> DEFINE ch == expFiles[f]
           d == Append(ch, x)
<1>1. /\ ch \in Seq(Chunk) /\ Len(ch) \in Nat /\ DOMAIN ch = 1..Len(ch)
      /\ Len(d) = Len(ch) + 1 /\ DOMAIN d = 1..(Len(ch) + 1) /\ d[Len(ch) + 1] = x
      /\ \A i \in 1..Len(ch) : d[i] = ch[i] /\ ch[i] \in Chunk
      /\ expFiles'[f] = d /\ \A g \in FileNames \ {f} : expFiles'[g] = expFiles[g]
  <2>1. ch \in Seq(Chunk) /\ f \in DOMAIN expFiles
    BY DEF WriterInv, TransferTypes, SenderTypes, NetTypes
  <2> HIDE DEF ch
  <2>2. expFiles'[f] = d /\ \A g \in FileNames \ {f} : expFiles'[g] = expFiles[g]
    BY <2>1 DEF WriterInv, TransferTypes, SenderTypes, NetTypes, ch
  <2> QED BY <2>1, <2>2, AppendIs
<1>2. sendStatus[s] >= 0 /\ sendStatus[s] \in {-1, 0, 1}
  BY InsideFile DEF WriterInv, OnlyGoodSend
<1>3. FileFits(f) /\ HeaderWritten(s)
  BY DEF WriterInv
<1> HIDE DEF ch, d
<1>4. OneWriter(d) => OneWriter(ch) /\ \A i \in 1..Len(ch) : ch[i].from = s
  <2> SUFFICES ASSUME OneWriter(d), NEW i \in 1..Len(ch) PROVE ch[i].from = s
    BY <1>1 DEF OneWriter
  <2>1. i \in DOMAIN d /\ Len(ch) + 1 \in DOMAIN d
    BY <1>1
  <2>2. d[i].from = d[Len(ch) + 1].from
    BY <2>1 DEF OneWriter
  <2> QED BY <1>1, <2>2
<1>5. ASSUME OneWriter(d), Len(ch) # 0 PROVE ch[Len(ch)] \in Chunk /\ ch[Len(ch)].from = s
  BY <1>1, <1>4, <1>5
<1>6. ASSUME OneWriter(d) PROVE Len(ch) % 2 = (IF x.part = "header" THEN 0 ELSE 1)
  <2>1. CASE x.part = "header"
    <3>1. CASE Len(ch) % 2 = 1
      <4>1. Len(ch) # 0
        BY <1>1, <3>1, OddIsPositive
      <4>2. ch[Len(ch)].from = s
        BY <1>5, <1>6, <4>1
      <4>3. sendStatus[s] < 0 \/ sendStep[s] = [at |-> "data", file |-> f, send |-> ch[Len(ch)].send]
        BY <1>3, <1>4, <1>6, <3>1, <4>2 DEF FileFits, HeaderLast, ch
      <4>4. sendStep[s].at # "data"
        BY <2>1
      <4> QED BY <1>2, <4>3, <4>4
    <3> QED BY <1>1, <2>1, <3>1
  <2>2. CASE x.part = "data"
    BY <1>3, <1>4, <1>6, <2>2 DEF HeaderWritten, ch
  <2> QED BY <2>1, <2>2 DEF Chunk
<1>7. ASSUME OneWriter(d), NEW i \in DOMAIN d
      PROVE  ChunkFits(d, i) /\ (d[i].short => diskRoom' = 0)
  <2>1. CASE i \in 1..Len(ch)
    <3>1. ChunkFits(ch, i) /\ (ch[i].short => diskRoom = 0)
      BY <1>1, <1>3, <1>4, <1>7, <2>1 DEF FileFits, ch
    <3>2. ~ch[i].short /\ d[i] = ch[i]
      BY <1>1, <2>1, <3>1
    <3>3. d[i].part = "data" => i - 1 \in 1..Len(ch)
      <4>1. i # 1 \/ d[i].part = "header"
        BY <3>1, <3>2 DEF ChunkFits
      <4> QED BY <1>1, <2>1, <4>1
    <3>4. d[i].part = "data" => d[i].send = d[i - 1].send
      BY <1>1, <3>1, <3>2, <3>3 DEF ChunkFits
    <3> QED BY <3>1, <3>2, <3>4 DEF ChunkFits
  <2>2. CASE i = Len(ch) + 1
    <3>1. d[i] = x /\ i = Len(d)
      BY <1>1, <2>2
    <3>2. x.part = (IF i % 2 = 1 THEN "header" ELSE "data")
      <4>1. x.part \in {"header", "data"}
        BY DEF Chunk
      <4>2. i % 2 = (IF x.part = "header" THEN 1 ELSE 0)
        <5>1. /\ x.part = "header" => Len(ch) % 2 = 0
              /\ x.part # "header" => Len(ch) % 2 = 1
          BY <1>6, <1>7
        <5>2. /\ Len(ch) % 2 = 0 => i % 2 = 1
              /\ Len(ch) % 2 = 1 => i % 2 = 0
          BY SMTT(60), <1>1, <2>2, EvenAfterOdd
        <5> QED BY <5>1, <5>2
      <4> QED BY <4>1, <4>2
    <3>3. x.part = "data" => d[i - 1].send = x.send
      <4> SUFFICES ASSUME x.part = "data" PROVE d[i - 1].send = x.send
        OBVIOUS
      <4>1. Len(ch) # 0 /\ i - 1 = Len(ch)
        BY <1>1, <1>6, <1>7, <2>2, OddIsPositive
      <4>2. d[i - 1] = ch[Len(ch)]
        BY <1>1, <4>1
      <4>3. ch[Len(ch)].send = sendStep[s].send
        BY <1>3, <1>4, <1>7 DEF HeaderWritten, ch
      <4> QED BY <4>2, <4>3
    <3> QED BY <3>1, <3>2, <3>3 DEF ChunkFits
  <2> QED BY <1>1, <1>7, <2>1, <2>2
<1>8. OneWriter(d) => HeaderLast(f)'
  <2> SUFFICES ASSUME OneWriter(d), Len(d) % 2 = 1
               PROVE  sendStep'[d[Len(d)].from] = [at |-> "data", file |-> f, send |-> d[Len(d)].send]
    BY <1>1 DEF HeaderLast
  <2>1. d[Len(d)] = x
    BY <1>1
  <2>2. x.part = "header"
    <3>1. Len(ch) % 2 = 0
      BY SMTT(60), <1>1
    <3> QED BY <1>6, <3>1
  <2> QED BY <2>1, <2>2
<1>9. FileFits(f)'
  BY <1>1, <1>7, <1>8 DEF FileFits
<1>10. ASSUME NEW t \in PtSenders, sendStep'[t].at = "data" PROVE HeaderWritten(t)'
  <2>1. CASE t = s
    <3>1. x.part = "header" /\ sendStep'[s].file = f /\ sendStep'[s].send = x.send
      BY <1>10, <2>1 DEF PtIdle
    <3>2. Len(ch) + 1 \in DOMAIN d /\ d[Len(ch) + 1].from = s
      BY <1>1
    <3>3. OneWriter(d) => Len(d) % 2 = 1 /\ d[Len(d)].send = x.send
      <4>1. OneWriter(d) => Len(d) % 2 = 1
        <5> SUFFICES ASSUME OneWriter(d) PROVE Len(d) % 2 = 1
          OBVIOUS
        <5>1. Len(ch) % 2 = 0
          BY <1>6, <3>1
        <5> QED BY SMTT(60), <1>1, <5>1, EvenAfterOdd
      <4> QED BY <1>1, <4>1
    <3> QED BY ZenonT(30), <1>1, <2>1, <3>1, <3>2, <3>3 DEF HeaderWritten
  <2>2. CASE t # s
    <3>1. sendStep'[t] = sendStep[t] /\ HeaderWritten(t) /\ sendStep[t].file \in FileNames
      BY <1>10, <2>2, InsideFile DEF WriterInv
    <3>2. CASE sendStep[t].file # f
      <4>1. expFiles'[sendStep'[t].file] = expFiles[sendStep[t].file]
        BY <1>1, <3>1, <3>2
      <4> QED BY <1>10, <3>1, <4>1 DEF HeaderWritten
    <3>3. CASE sendStep[t].file = f
      <4>1. PICK i \in 1..Len(ch) : ch[i].from = t
        BY <1>1, <1>10, <3>1, <3>3 DEF HeaderWritten, ch
      <4>2. i \in DOMAIN d /\ d[i].from = t
        BY <1>1, <4>1
      <4>3. ~OneWriter(d)
        BY <1>4, <2>2, <4>1
      <4>4. expFiles'[sendStep'[t].file] = d
        BY <1>1, <3>1, <3>3
      <4> QED BY <4>2, <4>3, <4>4 DEF HeaderWritten
    <3> QED BY <3>2, <3>3
  <2> QED BY <2>1, <2>2
<1>11. ASSUME NEW t \in PtSenders PROVE HeaderWritten(t)'
  BY <1>10 DEF HeaderWritten
<1> QED BY <1>9, <1>11

\* Before any sender runs.
LEMMA InitWriterInv == PtInit => WriterInv
<1> SUFFICES ASSUME PtInit PROVE WriterInv
  OBVIOUS
<1>1. TransferTypes
  BY PtAssumption DEF PtInit, TransferTypes, SenderTypes, NetTypes, SendSteps
<1>2. OnlyGoodSend /\ \A s \in PtSenders : HeaderWritten(s)
  BY DEF PtInit, PtIdle, OnlyGoodSend, HeaderWritten
<1>3. ASSUME NEW f \in FileNames PROVE FileFits(f)
  BY DEF PtInit, FileFits, HeaderLast
<1> QED BY <1>1, <1>2, <1>3 DEF WriterInv

\* From the header of a block to the block itself.
LEMMA HeaderStep ==
  ASSUME TransferTypes, NEW s \in PtSenders, sendStep[s].at = "header"
  PROVE  /\ [sendStep[s] EXCEPT !.at = "data"] \in SendSteps
         /\ [sendStep[s] EXCEPT !.at = "data"]
              = [at |-> "data", file |-> sendStep[s].file, send |-> sendStep[s].send]
<1>1. sendStep[s] \in [at : {"header", "data"}, file : FileNames, send : Nat]
  BY DEF TransferTypes, SenderTypes, NetTypes, SendSteps, PtIdle, PtGone
<1>2. ASSUME NEW x \in [at : {"header", "data"}, file : FileNames, send : Nat]
      PROVE  /\ [x EXCEPT !.at = "data"] \in [at : {"header", "data"}, file : FileNames, send : Nat]
             /\ [x EXCEPT !.at = "data"] = [at |-> "data", file |-> x.file, send |-> x.send]
  OBVIOUS
<1> QED BY <1>1, <1>2 DEF SendSteps

\* Two sequences one after the other.
LEMMA ConcatIs ==
  ASSUME NEW S, NEW s \in Seq(S), NEW t \in Seq(S)
  PROVE  /\ s \o t \in Seq(S) /\ Len(s \o t) = Len(s) + Len(t)
         /\ \A i \in 1..Len(s) : (s \o t)[i] = s[i]
         /\ \A i \in 1..Len(t) : (s \o t)[Len(s) + i] = t[i]
<1>1. /\ s \o t \in Seq(S) /\ Len(s \o t) = Len(s) + Len(t) /\ Len(s) \in Nat /\ Len(t) \in Nat
      /\ \A j \in 1..(Len(s) + Len(t)) : (s \o t)[j] = IF j <= Len(s) THEN s[j] ELSE t[j - Len(s)]
  OBVIOUS
<1>2. ASSUME NEW i \in 1..Len(t) PROVE (s \o t)[Len(s) + i] = t[i]
  <2>1. Len(s) + i \in 1..(Len(s) + Len(t)) /\ ~(Len(s) + i <= Len(s)) /\ (Len(s) + i) - Len(s) = i
    BY <1>1
  <2> QED BY <1>1, <2>1
<1>3. ASSUME NEW i \in 1..Len(s) PROVE (s \o t)[i] = s[i]
  BY <1>1
<1> QED BY <1>1, <1>2, <1>3

\* A sequence with one element replaced.
LEMMA ChangeOne ==
  ASSUME NEW S, NEW s \in Seq(S), NEW i, NEW x, i \in DOMAIN s => x \in S
  PROVE  /\ [s EXCEPT ![i] = x] \in Seq(S) /\ Len([s EXCEPT ![i] = x]) = Len(s)
         /\ DOMAIN [s EXCEPT ![i] = x] = DOMAIN s
         /\ i \in DOMAIN s => [s EXCEPT ![i] = x][i] = x
         /\ \A j \in DOMAIN s : j # i => [s EXCEPT ![i] = x][j] = s[j]
<1> DEFINE t == [s EXCEPT ![i] = x]
<1>1. s = [j \in 1..Len(s) |-> s[j]] /\ Len(s) \in Nat /\ DOMAIN s = 1..Len(s)
  OBVIOUS
<1>2. /\ DOMAIN t = 1..Len(s) /\ t = [j \in 1..Len(s) |-> t[j]]
      /\ i \in DOMAIN s => t[i] = x
      /\ \A j \in DOMAIN s : j # i => t[j] = s[j]
  BY <1>1
<1>3. \A j \in 1..Len(s) : t[j] \in S
  BY <1>1, <1>2
<1> HIDE DEF t
<1>4. t \in Seq(S) /\ Len(t) = Len(s)
  BY <1>1, <1>2, <1>3
<1> QED BY <1>1, <1>2, <1>4 DEF t

\* What one pass of the server's loop does to the file and to the connection.
LEMMA ServerPass ==
  ASSUME TransferTypes, ServerCopies
  PROVE  \E n \in Nat \ {0}, k \in Nat :
           /\ accepted \in DOMAIN conns /\ n <= conns[accepted].left
           /\ conns' \in Seq(Connection) /\ DOMAIN conns' = DOMAIN conns
           /\ Len(conns') = Len(conns)
           /\ conns'[accepted].left = conns[accepted].left - n
           /\ conns'[accepted].closed = conns[accepted].closed
           /\ conns'[accepted].from = conns[accepted].from
           /\ \A c \in DOMAIN conns : c # accepted => conns'[c] = conns[c]
           /\ srvRoom' = srvRoom - k /\ k <= srvRoom
           /\ k = n \/ k = srvRoom
           /\ mmTest' \in Seq(Unit) /\ Len(mmTest') = Len(mmTest) + k
           /\ \A i \in 1..Len(mmTest) : mmTest'[i] = mmTest[i]
           /\ \A i \in 1..k : mmTest'[Len(mmTest) + i]
                                = <<accepted, BlkSize - conns[accepted].left + i>>
<1> DEFINE c == conns[accepted]
           from == BlkSize - c.left
<1>1. PICK n \in 1..Min({SrvBuf, c.left}) :
        LET k == Min({UnitsWritten(n), srvRoom})
        IN  /\ conns' = [conns EXCEPT ![accepted].left = @ - n]
            /\ mmTest' = mmTest \o [i \in 1..k |-> <<accepted, from + i>>]
            /\ srvRoom' = srvRoom - k
  BY DEF ServerCopies
<1> DEFINE k == Min({n, srvRoom})
           d == [c EXCEPT !.left = c.left - n]
           units == [i \in 1..k |-> <<accepted, from + i>>]
<1>2. /\ NetTypes /\ conns \in Seq(Connection) /\ accepted \in DOMAIN conns /\ c \in Connection
      /\ srvRoom \in Nat /\ accepted \in Nat /\ mmTest \in Seq(Unit)
  BY DEF ServerCopies, TransferTypes, NetTypes
<1>3. /\ conns' = [conns EXCEPT ![accepted] = d] /\ mmTest' = mmTest \o units
      /\ srvRoom' = srvRoom - k
  BY <1>1 DEF UnitsWritten
<1>4. c.left \in 0..BlkSize /\ BlkSize \in Nat /\ SrvBuf \in Nat
  BY <1>2, PtAssumption DEF Connection
<1>5. n \in Nat \ {0} /\ n <= c.left
  BY SMTT(30), <1>4, MinOfTwo
<1>6. k \in Nat /\ k <= n /\ k <= srvRoom /\ (k = n \/ k = srvRoom)
  BY <1>2, <1>5, MinOfTwo
<1>7. /\ d \in Connection /\ d.left = c.left - n /\ d.closed = c.closed /\ d.from = c.from
  <2>1. c.left - n \in 0..BlkSize
    BY <1>4, <1>5
  <2> QED BY <1>2, <2>1 DEF Connection
<1>8. /\ conns' \in Seq(Connection) /\ DOMAIN conns' = DOMAIN conns /\ Len(conns') = Len(conns)
      /\ conns'[accepted] = d
      /\ \A e \in DOMAIN conns : e # accepted => conns'[e] = conns[e]
  <2> HIDE DEF d, c
  <2> QED BY <1>2, <1>3, <1>7, ChangeOne
<1>9. units \in Seq(Unit) /\ Len(units) = k /\ \A i \in 1..k : units[i] = <<accepted, from + i>>
  <2>1. from \in Nat
    BY <1>4
  <2> HIDE DEF from, k
  <2>2. \A i \in 1..k : <<accepted, from + i>> \in Unit
    BY <1>2, <1>6, <2>1 DEF Unit
  <2> QED BY <1>6, <2>2
<1>10. /\ mmTest' \in Seq(Unit) /\ Len(mmTest') = Len(mmTest) + k
       /\ \A i \in 1..Len(mmTest) : mmTest'[i] = mmTest[i]
       /\ \A i \in 1..k : mmTest'[Len(mmTest) + i] = <<accepted, from + i>>
  <2>1. Len(mmTest) \in Nat
    BY <1>2
  <2> HIDE DEF units, k, from
  <2>2. /\ mmTest' \in Seq(Unit) /\ Len(mmTest') = Len(mmTest) + k
        /\ \A i \in 1..Len(mmTest) : mmTest'[i] = mmTest[i]
        /\ \A i \in 1..k : mmTest'[Len(mmTest) + i] = units[i]
    <3>1. /\ mmTest \o units \in Seq(Unit) /\ Len(mmTest \o units) = Len(mmTest) + Len(units)
          /\ \A i \in 1..Len(mmTest) : (mmTest \o units)[i] = mmTest[i]
          /\ \A i \in 1..Len(units) : (mmTest \o units)[Len(mmTest) + i] = units[i]
      BY <1>2, <1>9, ConcatIs
    <3> QED BY <1>3, <1>9, <3>1
  <2> QED BY <1>9, <2>2
<1> HIDE DEF d, k, units, from
<1> QED BY <1>2, <1>3, <1>5, <1>6, <1>7, <1>8, <1>10 DEF from

\* Every step of a sender or of the server keeps the types.
LEMMA TransferTypesKept == TransferTypes /\ [PtNext]_ptVars => TransferTypes'
<1> SUFFICES ASSUME TransferTypes, [PtNext]_ptVars PROVE TransferTypes'
  OBVIOUS
<1>0. /\ SenderTypes /\ NetTypes
      /\ conns \in Seq(Connection) /\ Len(conns) \in Nat /\ DOMAIN conns = 1..Len(conns)
      /\ accepted \in Nat /\ accepted <= Len(conns)
  BY DEF TransferTypes, NetTypes
<1>a. UNCHANGED <<expFileVars, noSends, sendStatus, sendStep>> => SenderTypes'
  BY <1>0 DEF SenderTypes, expFileVars
<1>b. UNCHANGED <<conns, srvVars>> => NetTypes'
  BY <1>0 DEF NetTypes, srvVars
<1>1. CASE UNCHANGED ptVars
  BY <1>1, <1>a, <1>b DEF ptVars, TransferTypes, srvVars, expFileVars
<1>2. ASSUME NEW s \in PtSenders, NEW st \in {-1, 1}, SendReturns(s, st)
      PROVE  sendStatus' \in [PtSenders -> {-1, 0, 1}] /\ sendStep' \in [PtSenders -> SendSteps]
  <2>1. PtIdle \in SendSteps
    BY DEF SendSteps
  <2> QED BY <1>0, <1>2, <2>1 DEF SendReturns, SenderTypes
<1>3. ASSUME NEW s \in PtSenders, NEW x \in SendSteps, sendStep' = [sendStep EXCEPT ![s] = x]
      PROVE  sendStep' \in [PtSenders -> SendSteps]
  BY <1>0, <1>3 DEF SenderTypes
<1>4. ASSUME NEW s \in PtSenders, NEW n \in FileNames, OpenExpFile(s, n) PROVE TransferTypes'
  <2>1. noSends' \in Nat /\ UNCHANGED <<expFileVars, conns, srvVars>>
    BY <1>0, <1>4 DEF OpenExpFile, SendCalled, SenderTypes
  <2>2. [at |-> "header", file |-> n, send |-> noSends'] \in SendSteps
    BY <2>1 DEF SendSteps
  <2>3. sendStatus' \in [PtSenders -> {-1, 0, 1}] /\ sendStep' \in [PtSenders -> SendSteps]
    BY <1>0, <1>2, <1>3, <1>4, <2>2 DEF OpenExpFile, SenderTypes
  <2> QED BY <1>0, <1>b, <2>1, <2>3 DEF expFileVars, SenderTypes, TransferTypes
<1>5. ASSUME NEW s \in PtSenders, NEW len \in Nat \ {0}, NEW part \in {"header", "data"},
             sendStep[s].at \in {"header", "data"}, AppendChunk(s, part, len)
      PROVE  expFiles' \in [FileNames -> Seq(Chunk)] /\ diskRoom' \in Nat
  <2>1. sendStep[s].file \in FileNames
    BY <1>5, InsideFile
  <2>2. PICK x \in Chunk : expFiles' = [expFiles EXCEPT ![sendStep[s].file] = Append(@, x)]
    BY <1>5, ChunkAppended
  <2>3. Append(expFiles[sendStep[s].file], x) \in Seq(Chunk)
    BY <1>0, <2>1, AppendIs DEF SenderTypes
  <2>4. diskRoom' \in Nat
    BY <1>5, ChunkAppended
  <2> QED BY <1>0, <2>1, <2>2, <2>3, <2>4 DEF SenderTypes
<1>6. ASSUME NEW s \in PtSenders, WriteHeader(s) PROVE TransferTypes'
  <2>1. [sendStep[s] EXCEPT !.at = "data"] \in SendSteps
    BY <1>6, HeaderStep DEF WriteHeader
  <2>2. UNCHANGED <<conns, srvVars, noSends>>
    BY <1>6 DEF WriteHeader
  <2>3. CASE WriteFailed(s)
    BY <1>0, <1>2, <1>b, <2>2, <2>3 DEF WriteFailed, expFileVars, SenderTypes, TransferTypes
  <2>4. CASE ~WriteFailed(s)
    <3>1. /\ AppendChunk(s, "header", 1) /\ sendStep[s].at = "header"
          /\ sendStep' = [sendStep EXCEPT ![s].at = "data"] /\ UNCHANGED sendStatus
      BY <1>6, <2>4 DEF WriteHeader
    <3>2. expFiles' \in [FileNames -> Seq(Chunk)] /\ diskRoom' \in Nat
      BY <1>5, <3>1 DEF SenderTypes
    <3> QED BY <1>0, <1>3, <1>b, <2>1, <2>2, <3>1, <3>2 DEF SenderTypes, TransferTypes
  <2> QED BY <2>3, <2>4
<1>7. ASSUME NEW s \in PtSenders, WriteData(s) PROVE TransferTypes'
  <2>1. UNCHANGED <<conns, srvVars, noSends>> /\ \E st \in {-1, 1} : SendReturns(s, st)
    BY <1>7 DEF WriteData, WriteFailed
  <2>2. expFiles' \in [FileNames -> Seq(Chunk)] /\ diskRoom' \in Nat
    <3>1. CASE AppendChunk(s, "data", BlkSize)
      BY <1>5, <1>7, <3>1, PtAssumption DEF WriteData
    <3>2. CASE WriteFailed(s)
      BY <1>0, <3>2 DEF WriteFailed, expFileVars, SenderTypes
    <3> QED BY <1>7, <3>1, <3>2 DEF WriteData
  <2> QED BY <1>0, <1>2, <1>b, <2>1, <2>2 DEF SenderTypes, TransferTypes
<1>8. ASSUME NEW s \in PtSenders, PipeConnect(s) PROVE TransferTypes'
  <2>1. [from |-> s, left |-> 0, closed |-> FALSE] \in Connection
    BY PtAssumption DEF Connection
  <2>2. noSends' \in Nat /\ UNCHANGED <<sendStatus, expFileVars, srvVars>>
    BY <1>0, <1>8 DEF PipeConnect, SendCalled, SenderTypes
  <2>3. conns' \in Seq(Connection) /\ Len(conns') \in Nat /\ Len(conns') >= Len(conns)
    BY <1>0, <1>8, <2>1, AppendIs DEF PipeConnect
  <2>4. [at |-> "pipe", conn |-> Len(conns')] \in SendSteps /\ PtGone \in SendSteps
    BY <2>3 DEF SendSteps
  <2>5. sendStep' \in [PtSenders -> SendSteps]
    BY <1>3, <1>8, <2>4 DEF PipeConnect
  <2>6. SenderTypes'
    BY <1>0, <2>2, <2>5 DEF expFileVars, SenderTypes
  <2>7. NetTypes'
    BY <1>0, <2>2, <2>3 DEF srvVars, NetTypes
  <2> QED BY <2>6, <2>7 DEF TransferTypes
<1>9. ASSUME NEW s \in PtSenders, PipeWrite(s) PROVE TransferTypes'
  <2>1. UNCHANGED <<expFileVars, srvVars, noSends>>
    BY <1>9 DEF PipeWrite
  <2>2. sendStatus' \in [PtSenders -> {-1, 0, 1}] /\ sendStep' \in [PtSenders -> SendSteps]
    <3>1. PtGone \in SendSteps
      BY DEF SendSteps
    <3> QED BY <1>0, <1>2, <1>3, <1>9, <3>1 DEF PipeWrite, SenderTypes
  <2>3. conns' \in Seq(Connection) /\ Len(conns') = Len(conns)
    <3>1. ASSUME NEW r \in Connection
          PROVE  [r EXCEPT !.left = BlkSize, !.closed = TRUE] \in Connection
      <4>1. BlkSize \in 0..BlkSize
        BY PtAssumption
      <4> QED BY <4>1 DEF Connection
    <3>2. CASE conns' = [conns EXCEPT ![sendStep[s].conn] = [@ EXCEPT !.left = BlkSize, !.closed = TRUE]]
      <4>1. sendStep[s].conn \in DOMAIN conns =>
              [conns[sendStep[s].conn] EXCEPT !.left = BlkSize, !.closed = TRUE] \in Connection
        <5>1. sendStep[s].conn \in DOMAIN conns => conns[sendStep[s].conn] \in Connection
          BY <1>0
        <5> QED BY <3>1, <5>1
      <4> QED BY SMTT(60), <1>0, <3>2, <4>1, ChangeOne
    <3> QED BY <1>0, <1>9, <3>2 DEF PipeWrite
  <2>4. SenderTypes'
    BY <1>0, <2>1, <2>2 DEF expFileVars, SenderTypes
  <2>5. NetTypes'
    BY <1>0, <2>1, <2>3 DEF srvVars, NetTypes
  <2> QED BY <2>4, <2>5 DEF TransferTypes
<1>10. ASSUME NEW s \in PtSenders, SendRefused(s) PROVE TransferTypes'
  BY <1>0, <1>10, <1>b DEF SendRefused, SendCalled, expFileVars, SenderTypes, TransferTypes
<1>11. CASE ServerAccepts
  <2>1. accepted' \in Nat /\ accepted' <= Len(conns) /\ accepted' > 0
    BY <1>0, <1>11 DEF ServerAccepts
  <2>2. NetTypes'
    BY <1>0, <1>11, <2>1 DEF ServerAccepts, NetTypes
  <2> QED BY <1>11, <1>a, <2>2 DEF ServerAccepts, TransferTypes
<1>12. CASE ServerCopies
  <2>1. /\ conns' \in Seq(Connection) /\ Len(conns') = Len(conns)
        /\ mmTest' \in Seq(Unit) /\ srvRoom' \in Nat
    BY <1>0, <1>12, ServerPass DEF NetTypes
  <2>2. /\ accepted > 0 /\ server' \in {"read", "dead"}
        /\ UNCHANGED <<sendStatus, sendStep, expFileVars, accepted, noSends>>
    BY <1>0, <1>12 DEF ServerCopies, NetTypes
  <2>3. NetTypes'
    BY <1>0, <2>1, <2>2 DEF NetTypes
  <2> QED BY <1>a, <2>2, <2>3 DEF TransferTypes
<1>13. CASE ServerCloses
  <2>1. NetTypes'
    BY <1>0, <1>13 DEF ServerCloses, NetTypes
  <2> QED BY <1>13, <1>a, <2>1 DEF ServerCloses, TransferTypes
<1> QED
  BY <1>1, <1>4, <1>6, <1>7, <1>8, <1>9, <1>10, <1>11, <1>12, <1>13
  DEF PtNext, dhsSendPixelData, dhsSendMetaData, pipeSendPixelData, proto_server, FileNames

\* Every step of a sender or of the server keeps the senders' side.
LEMMA NextWriterInv == WriterInv /\ [PtNext]_ptVars => WriterInv'
<1> SUFFICES ASSUME WriterInv, [PtNext]_ptVars PROVE WriterInv'
  OBVIOUS
<1>0. /\ TransferTypes /\ TransferTypes' /\ OnlyGoodSend /\ diskRoom \in Nat
      /\ \A s \in PtSenders : sendStatus[s] \in {-1, 0, 1}
      /\ sendStep \in [PtSenders -> SendSteps] /\ DOMAIN sendStatus = PtSenders
  BY TransferTypesKept DEF WriterInv, TransferTypes, SenderTypes
\* A step that touches no file, with at most one sender's status and place.
<1>1. ASSUME NEW s \in PtSenders, UNCHANGED expFileVars,
             \A t \in PtSenders \ {s} : sendStatus'[t] = sendStatus[t] /\ sendStep'[t] = sendStep[t],
             \/ sendStatus'[s] = sendStatus[s] /\ sendStep'[s] = sendStep[s]
             \/ /\ sendStatus'[s] < 0
                /\ sendStep'[s].at \notin {"header", "data", "pipe"}
             \/ /\ sendStatus[s] >= 0 /\ sendStep[s].at # "data" /\ sendStep'[s].at # "data"
                /\ sendStatus'[s] >= 0
      PROVE  WriterInv'
  <2>1. ASSUME NEW f \in FileNames PROVE FileFits(f)'
    BY <1>1, FileKept DEF expFileVars
  <2>2. OnlyGoodSend'
    BY <1>0, <1>1 DEF OnlyGoodSend
  <2>3. ASSUME NEW t \in PtSenders PROVE HeaderWritten(t)'
    <3>1. HeaderWritten(t) /\ expFiles' = expFiles
      BY <1>1 DEF WriterInv, expFileVars
    <3> QED BY <1>1, <3>1 DEF HeaderWritten
  <2> QED BY <1>0, <2>1, <2>2, <2>3 DEF WriterInv
<1>2. ASSUME NEW s \in PtSenders, SendReturns(s, -1), UNCHANGED expFileVars PROVE WriterInv'
  <2>1. /\ sendStatus'[s] = -1 /\ sendStep'[s] = PtIdle
        /\ \A t \in PtSenders \ {s} : sendStatus'[t] = sendStatus[t] /\ sendStep'[t] = sendStep[t]
    BY <1>0, <1>2 DEF SendReturns
  <2> QED BY <1>1, <1>2, <2>1 DEF PtIdle
\* A step of nobody's.
<1>3. ASSUME UNCHANGED <<sendStatus, sendStep, expFileVars>> PROVE WriterInv'
  <2>1. CASE PtSenders = {}
    <3>1. FileNames' = FileNames /\ expFiles' = expFiles
      BY <1>3 DEF FileNames, expFileVars
    <3>2. ASSUME NEW f \in FileNames PROVE FileFits(f)'
      BY <1>3, <3>1 DEF WriterInv, FileFits, HeaderLast, expFileVars
    <3> QED BY <1>0, <2>1, <3>2 DEF WriterInv, OnlyGoodSend
  <2>2. CASE PtSenders # {}
    BY <1>1, <1>3, <2>2
  <2> QED BY <2>1, <2>2
<1>4. ASSUME NEW s \in PtSenders, NEW n \in FileNames, OpenExpFile(s, n) PROVE WriterInv'
  <2>1. CASE SendReturns(s, -1)
    BY <1>2, <1>4, <2>1 DEF OpenExpFile
  <2>2. CASE ~SendReturns(s, -1)
    <3>1. /\ sendStep[s] = PtIdle /\ sendStatus[s] >= 0 /\ UNCHANGED <<sendStatus, expFileVars>>
          /\ sendStep' = [sendStep EXCEPT ![s] = [at |-> "header", file |-> n, send |-> noSends']]
      BY <1>0, <1>4, <2>2 DEF OpenExpFile, SendCalled, UpstreamFailed
    <3>2. /\ sendStep'[s].at = "header" /\ sendStep[s].at = "idle"
          /\ \A t \in PtSenders \ {s} : sendStep'[t] = sendStep[t]
      BY <1>0, <3>1 DEF PtIdle
    <3> QED BY <1>1, <3>1, <3>2
  <2> QED BY <2>1, <2>2
<1>5. ASSUME NEW s \in PtSenders, WriteHeader(s) PROVE WriterInv'
  <2>1. CASE WriteFailed(s)
    BY <1>2, <2>1 DEF WriteFailed
  <2>2. CASE ~WriteFailed(s)
    <3>1. /\ sendStep[s].at = "header" /\ AppendChunk(s, "header", 1) /\ UNCHANGED sendStatus
          /\ sendStep' = [sendStep EXCEPT ![s].at = "data"]
      BY <1>5, <2>2 DEF WriteHeader
    <3>f. PICK f \in FileNames : f = sendStep[s].file
      BY <1>0, <3>1, InsideFile
    <3>2. /\ sendStatus[s] >= 0
          /\ sendStep'[s] = [at |-> "data", file |-> f, send |-> sendStep[s].send]
          /\ \A t \in PtSenders \ {s} : sendStatus'[t] = sendStatus[t] /\ sendStep'[t] = sendStep[t]
      BY <1>0, <3>1, <3>f, HeaderStep DEF OnlyGoodSend
    <3>3. PICK x \in Chunk :
            /\ x.from = s /\ x.send = sendStep[s].send /\ x.part = "header"
            /\ x.short => diskRoom' = 0 /\ 1 > 1
            /\ expFiles' = [expFiles EXCEPT ![f] = Append(@, x)]
      BY <1>0, <3>1, <3>f, ChunkAppended
    <3>4. diskRoom > 0
      BY <1>0, <3>1, ChunkAppended
    <3>5. FileFits(f)' /\ \A t \in PtSenders : HeaderWritten(t)'
      <4>1. ~x.short /\ x.part = sendStep[s].at /\ x.from = s /\ x.send = sendStep[s].send
        BY <3>1, <3>3
      <4>2. sendStep'[s] = [at |-> "data", file |-> f, send |-> x.send]
        BY <3>2, <4>1
      <4>3. expFiles' = [expFiles EXCEPT ![f] = Append(@, x)]
        BY <3>3
      <4>4. x.short => diskRoom' = 0 /\ x.part = "data"
        BY <4>1
      <4>5. IF x.part = "header" THEN sendStep'[s] = [at |-> "data", file |-> f, send |-> x.send]
                                 ELSE sendStep'[s] = PtIdle
        BY <3>1, <4>1, <4>2
      <4> QED BY <3>1, <3>f, <3>2, <3>4, <4>1, <4>3, <4>4, <4>5, FileAppended
    <3>6. ASSUME NEW g \in FileNames, g # f PROVE FileFits(g)'
      <4>1. expFiles'[g] = expFiles[g]
        BY <1>0, <3>3, <3>6 DEF TransferTypes, SenderTypes
      <4> QED BY <3>1, <3>2, <3>4, <4>1, FileKept
    <3>7. OnlyGoodSend'
      BY <1>0, <3>1, <3>2 DEF OnlyGoodSend
    <3> QED BY <1>0, <3>5, <3>6, <3>7 DEF WriterInv
  <2> QED BY <2>1, <2>2
<1>6. ASSUME NEW s \in PtSenders, WriteData(s) PROVE WriterInv'
  <2>1. CASE WriteFailed(s)
    BY <1>2, <2>1 DEF WriteFailed
  <2>2. CASE ~WriteFailed(s)
    <3>1. sendStep[s].at = "data" /\ AppendChunk(s, "data", BlkSize) /\ SendReturns(s, 1)
      BY <1>6, <2>2 DEF WriteData
    <3>f. PICK f \in FileNames : f = sendStep[s].file
      BY <1>0, <3>1, InsideFile
    <3>2. /\ sendStatus[s] >= 0 /\ sendStep'[s] = PtIdle /\ sendStatus'[s] = 1
          /\ \A t \in PtSenders \ {s} : sendStatus'[t] = sendStatus[t] /\ sendStep'[t] = sendStep[t]
      BY <1>0, <3>1 DEF OnlyGoodSend, SendReturns
    <3>3. PICK x \in Chunk :
            /\ x.from = s /\ x.send = sendStep[s].send /\ x.part = "data"
            /\ x.short => diskRoom' = 0 /\ BlkSize > 1
            /\ expFiles' = [expFiles EXCEPT ![f] = Append(@, x)]
      BY <1>0, <3>1, <3>f, ChunkAppended, PtAssumption
    <3>4. diskRoom > 0
      BY <1>0, <3>1, ChunkAppended, PtAssumption
    <3>5. FileFits(f)' /\ \A t \in PtSenders : HeaderWritten(t)'
      BY <3>1, <3>f, <3>2, <3>3, <3>4, FileAppended
    <3>6. ASSUME NEW g \in FileNames, g # f PROVE FileFits(g)'
      <4>1. expFiles'[g] = expFiles[g]
        BY <1>0, <3>3, <3>6 DEF TransferTypes, SenderTypes
      <4> QED BY <3>1, <3>f, <3>2, <3>4, <3>6, <4>1, FileKept
    <3>7. OnlyGoodSend'
      BY <1>0, <3>2 DEF OnlyGoodSend, PtIdle
    <3> QED BY <1>0, <3>5, <3>6, <3>7 DEF WriterInv
  <2> QED BY <2>1, <2>2
<1>7. ASSUME NEW s \in PtSenders, PipeConnect(s) PROVE WriterInv'
  <2>1. /\ sendStep[s] = PtIdle /\ sendStatus[s] >= 0 /\ UNCHANGED <<sendStatus, expFileVars>>
        /\ \E x \in {PtGone, [at |-> "pipe", conn |-> Len(conns')]} :
             sendStep' = [sendStep EXCEPT ![s] = x]
    BY <1>0, <1>7 DEF PipeConnect, SendCalled, UpstreamFailed
  <2>2. /\ sendStep[s].at # "data" /\ sendStep'[s].at # "data"
        /\ \A t \in PtSenders \ {s} : sendStep'[t] = sendStep[t]
    BY <1>0, <2>1 DEF PtIdle, PtGone
  <2> QED BY <1>1, <2>1, <2>2
<1>8. ASSUME NEW s \in PtSenders, PipeWrite(s) PROVE WriterInv'
  <2>1. sendStep[s].at = "pipe" /\ UNCHANGED expFileVars /\ sendStatus[s] >= 0
    BY <1>0, <1>8 DEF PipeWrite, OnlyGoodSend
  <2>2. CASE SendReturns(s, -1)
    BY <1>2, <2>1, <2>2
  <2>3. CASE SendReturns(s, 1)
    <3>1. /\ sendStatus'[s] = 1 /\ sendStep'[s] = PtIdle
          /\ \A t \in PtSenders \ {s} : sendStatus'[t] = sendStatus[t] /\ sendStep'[t] = sendStep[t]
      BY <1>0, <2>3 DEF SendReturns
    <3> QED BY <1>1, <2>1, <3>1 DEF PtIdle
  <2>4. CASE sendStep' = [sendStep EXCEPT ![s] = PtGone] /\ UNCHANGED sendStatus
    <3>1. /\ sendStep'[s] = PtGone
          /\ \A t \in PtSenders \ {s} : sendStatus'[t] = sendStatus[t] /\ sendStep'[t] = sendStep[t]
      BY <1>0, <2>4
    <3> QED BY <1>1, <2>1, <2>4, <3>1 DEF PtGone
  <2> QED BY <1>8, <2>2, <2>3, <2>4 DEF PipeWrite
<1>9. ASSUME NEW s \in PtSenders, SendRefused(s) PROVE WriterInv'
  BY <1>3, <1>9 DEF SendRefused
<1>10. CASE proto_server
  BY <1>3, <1>10 DEF proto_server, ServerAccepts, ServerCopies, ServerCloses
<1>11. CASE UNCHANGED ptVars
  BY <1>3, <1>11 DEF ptVars, expFileVars
<1> QED
  BY <1>4, <1>5, <1>6, <1>7, <1>8, <1>9, <1>10, <1>11
  DEF PtNext, dhsSendPixelData, dhsSendMetaData, pipeSendPixelData, FileNames

\* A file that one sender wrote can be read back, for any number of senders and
\* whatever fails: headers and blocks alternate and belong together, and only the
\* last block can be cut short.
THEOREM OneWritersFilesReadable == PtSpec => []FilesReadable
<1>1. WriterInv => FilesReadable
  BY DEF WriterInv, FileFits, OneWriter, ChunkFits, FilesReadable
<1> QED BY <1>1, InitWriterInv, NextWriterInv, PTL DEF PtSpec

------------------------------------------------------------------------------
(* The transfer prototype: the server *)

\* Before anything is sent.
LEMMA InitServerInv == PtInit => ServerInv
<1> SUFFICES ASSUME PtInit PROVE ServerInv
  OBVIOUS
<1>1. TransferTypes
  BY InitWriterInv DEF WriterInv
<1>2. Connections
  BY DEF PtInit, PtIdle, Connections
<1>3. EndOfFile /\ UnitsStored /\ Served /\ BlocksContiguous
  BY DEF PtInit, EndOfFile, UnitsStored, Served, BlocksContiguous
<1> QED BY <1>1, <1>2, <1>3 DEF ServerInv

\* Types for the arithmetic.
LEMMA NetFacts ==
  ASSUME TransferTypes
  PROVE  /\ BlkSize \in Nat /\ accepted \in Nat /\ Len(conns) \in Nat /\ accepted <= Len(conns)
         /\ DOMAIN conns = 1..Len(conns) /\ conns \in Seq(Connection)
         /\ mmTest \in Seq(Unit) /\ Len(mmTest) \in Nat /\ DOMAIN mmTest = 1..Len(mmTest)
         /\ srvRoom \in Nat /\ server \in {"accept", "read", "dead"}
         /\ server = "read" => accepted \in DOMAIN conns
         /\ \A i \in DOMAIN mmTest : mmTest[i][1] \in Nat /\ mmTest[i][2] \in Nat
         /\ \A c \in DOMAIN conns : /\ conns[c].left \in Nat /\ conns[c].left <= BlkSize
                                    /\ conns[c].closed \in BOOLEAN /\ ReadOf(c) \in Nat
<1>1. /\ BlkSize \in Nat /\ accepted \in Nat /\ Len(conns) \in Nat /\ accepted <= Len(conns)
      /\ DOMAIN conns = 1..Len(conns) /\ conns \in Seq(Connection)
      /\ mmTest \in Seq(Unit) /\ Len(mmTest) \in Nat /\ DOMAIN mmTest = 1..Len(mmTest)
      /\ srvRoom \in Nat /\ server \in {"accept", "read", "dead"}
      /\ server = "read" => accepted \in DOMAIN conns
  BY PtAssumption DEF TransferTypes, NetTypes
<1>2. ASSUME NEW i \in DOMAIN mmTest PROVE mmTest[i][1] \in Nat /\ mmTest[i][2] \in Nat
  <2>1. mmTest[i] \in Unit
    BY <1>1
  <2> QED BY <2>1 DEF Unit
<1>3. ASSUME NEW c \in DOMAIN conns
      PROVE  /\ conns[c].left \in Nat /\ conns[c].left <= BlkSize
             /\ conns[c].closed \in BOOLEAN /\ ReadOf(c) \in Nat
  <2>1. conns[c] \in Connection
    BY <1>1
  <2>2. conns[c].left \in 0..BlkSize /\ conns[c].closed \in BOOLEAN
    BY <2>1 DEF Connection
  <2> QED BY <1>1, <2>2 DEF ReadOf
<1> QED BY <1>1, <1>2, <1>3

\* The server's file means the same as long as the server stands still and what
\* a sender does to the connections it has not closed leaves nothing read.
LEMMA ServerStill ==
  ASSUME ServerInv, UNCHANGED srvVars, TransferTypes',
         \A c \in DOMAIN conns : /\ ReadOf(c)' = ReadOf(c)
                                 /\ conns[c].closed => conns'[c] = conns[c]
  PROVE  EndOfFile' /\ UnitsStored' /\ Served' /\ BlocksContiguous'
<1>1. /\ UNCHANGED <<accepted, server, mmTest, srvRoom, cutOff>>
      /\ 1..accepted \subseteq DOMAIN conns /\ accepted \in Nat
  BY NetFacts DEF ServerInv, srvVars
<1>2. EndOfFile'
  <2>1. accepted > 0 => ReadOf(accepted)' = ReadOf(accepted)
    <3>1. accepted > 0 => accepted \in DOMAIN conns
      BY <1>1
    <3> QED BY <1>1, <3>1 DEF ReadOf
  <2> QED BY <1>1, <2>1 DEF ServerInv, EndOfFile, ReadOf
<1>3. UnitsStored'
  <2> SUFFICES ASSUME srvRoom > 0, NEW c \in 1..accepted, NEW u \in 1..ReadOf(c)'
               PROVE  \E i \in DOMAIN mmTest : mmTest[i] = <<c, u>>
    BY <1>1 DEF UnitsStored, ReadOf
  <2> QED BY <1>1 DEF ServerInv, UnitsStored
<1>4. Served'
  BY <1>1 DEF ServerInv, Served
<1>5. BlocksContiguous'
  BY <1>1 DEF ServerInv, BlocksContiguous
<1> QED BY <1>2, <1>3, <1>4, <1>5

\* Every step of a sender or of the server keeps the server's side.
LEMMA NextServerInv == ServerInv /\ [PtNext]_ptVars => ServerInv'
<1> SUFFICES ASSUME ServerInv, [PtNext]_ptVars PROVE ServerInv'
  OBVIOUS
<1>0. TransferTypes /\ TransferTypes' /\ sendStep \in [PtSenders -> SendSteps]
  BY TransferTypesKept DEF ServerInv, TransferTypes, SenderTypes
\* Steps that touch no connection, and whose sender neither enters nor leaves one.
<1>1. ASSUME UNCHANGED <<conns, srvVars>>,
             \A t \in PtSenders : sendStep'[t].at = "pipe" => sendStep'[t] = sendStep[t]
      PROVE  ServerInv'
  <2>1. EndOfFile' /\ UnitsStored' /\ Served' /\ BlocksContiguous'
    BY <1>0, <1>1, ServerStill DEF ReadOf
  <2>2. Connections'
    BY <1>1 DEF ServerInv, Connections, srvVars, ReadOf
  <2> QED BY <1>0, <2>1, <2>2 DEF ServerInv
<1>2. ASSUME NEW s \in PtSenders, NEW x, x.at # "pipe", UNCHANGED <<conns, srvVars>>,
             sendStep' = [sendStep EXCEPT ![s] = x]
      PROVE  ServerInv'
  BY <1>0, <1>1, <1>2
<1>3. ASSUME NEW s \in PtSenders, NEW n \in FileNames, OpenExpFile(s, n) PROVE ServerInv'
  <2>1. UNCHANGED <<conns, srvVars>> /\ \E x \in {PtIdle, [at |-> "header", file |-> n, send |-> noSends']} :
          sendStep' = [sendStep EXCEPT ![s] = x]
    BY <1>3 DEF OpenExpFile, SendReturns
  <2> QED BY <1>2, <2>1 DEF PtIdle
<1>4. ASSUME NEW s \in PtSenders, WriteHeader(s) \/ WriteData(s) PROVE ServerInv'
  <2>1. UNCHANGED <<conns, srvVars>>
    BY <1>4 DEF WriteHeader, WriteData
  <2>2. CASE sendStep' = [sendStep EXCEPT ![s] = PtIdle]
    BY <1>2, <2>1, <2>2 DEF PtIdle
  <2>3. CASE sendStep' = [sendStep EXCEPT ![s].at = "data"] /\ sendStep[s].at = "header"
    <3>1. [sendStep[s] EXCEPT !.at = "data"].at = "data"
      BY <1>0, <2>3, HeaderStep
    <3> QED BY <1>2, <2>1, <2>3, <3>1
  <2> QED BY <1>4, <2>2, <2>3 DEF WriteHeader, WriteData, WriteFailed, SendReturns
<1>5. ASSUME NEW s \in PtSenders, SendRefused(s) PROVE ServerInv'
  BY <1>1, <1>5 DEF SendRefused
<1>6. ASSUME NEW s \in PtSenders, PipeConnect(s) PROVE ServerInv'
  <2>1. CASE UNCHANGED conns /\ sendStep' = [sendStep EXCEPT ![s] = PtGone]
    BY <1>2, <1>6, <2>1 DEF PtGone, PipeConnect
  <2>2. CASE /\ conns' = Append(conns, [from |-> s, left |-> 0, closed |-> FALSE])
             /\ sendStep' = [sendStep EXCEPT ![s] = [at |-> "pipe", conn |-> Len(conns')]]
    <3> DEFINE new == [from |-> s, left |-> 0, closed |-> FALSE]
    <3>1. UNCHANGED srvVars
      BY <1>6 DEF PipeConnect
    <3>2. new \in Connection
      BY PtAssumption DEF Connection
    <3>3. /\ Len(conns') = Len(conns) + 1 /\ DOMAIN conns' = 1..(Len(conns) + 1)
          /\ DOMAIN conns = 1..Len(conns) /\ Len(conns) \in Nat
          /\ conns'[Len(conns) + 1] = new /\ \A c \in DOMAIN conns : conns'[c] = conns[c]
      BY <1>0, <2>2, <3>2, NetFacts, AppendIs
    <3>4. EndOfFile' /\ UnitsStored' /\ Served' /\ BlocksContiguous'
      BY <1>0, <3>1, <3>3, ServerStill DEF ReadOf
    <3>5. ASSUME NEW t \in PtSenders, sendStep'[t].at = "pipe"
          PROVE  /\ sendStep'[t].conn \in DOMAIN conns'
                 /\ conns'[sendStep'[t].conn] = [from |-> t, left |-> 0, closed |-> FALSE]
      <4>1. CASE t = s
        BY <1>0, <2>2, <3>3, <4>1
      <4>2. CASE t # s
        <5>1. sendStep'[t] = sendStep[t]
          BY <1>0, <2>2, <4>2
        <5> QED BY <3>3, <3>5, <5>1 DEF ServerInv, Connections
      <4> QED BY <4>1, <4>2
    <3>6. ASSUME NEW c \in DOMAIN conns'
          PROVE  (~conns'[c].closed => conns'[c].left = 0) /\ (accepted' < c => ReadOf(c)' = 0)
      <4>1. CASE c \in DOMAIN conns
        BY <3>1, <3>3, <4>1 DEF ServerInv, Connections, ReadOf, srvVars
      <4>2. CASE c = Len(conns) + 1
        BY <3>3, <4>2 DEF ReadOf
      <4> QED BY <3>3, <4>1, <4>2
    <3> QED BY <1>0, <3>4, <3>5, <3>6 DEF ServerInv, Connections
  <2> QED BY <1>6, <2>1, <2>2 DEF PipeConnect
<1>7. ASSUME NEW s \in PtSenders, PipeWrite(s) PROVE ServerInv'
  <2>1. UNCHANGED srvVars /\ sendStep[s].at = "pipe"
    BY <1>7 DEF PipeWrite
  <2>2. CASE UNCHANGED conns
    <3>1. \E x \in {PtIdle, PtGone} : sendStep' = [sendStep EXCEPT ![s] = x]
      BY <1>7 DEF PipeWrite, SendReturns
    <3> QED BY <1>2, <2>1, <2>2, <3>1 DEF PtIdle, PtGone
  <2>3. CASE /\ conns' = [conns EXCEPT ![sendStep[s].conn] = [@ EXCEPT !.left = BlkSize, !.closed = TRUE]]
             /\ sendStep' = [sendStep EXCEPT ![s] = PtIdle]
    <3>1. PICK c \in DOMAIN conns :
            c = sendStep[s].conn /\ conns[c] = [from |-> s, left |-> 0, closed |-> FALSE]
      BY <2>1 DEF ServerInv, Connections
    <3>2. /\ conns'[c].left = BlkSize /\ conns'[c].closed /\ DOMAIN conns' = DOMAIN conns
          /\ \A e \in DOMAIN conns : e # c => conns'[e] = conns[e]
      <4>1. conns'[c] = [conns[c] EXCEPT !.left = BlkSize, !.closed = TRUE]
        BY <2>3, <3>1
      <4>2. conns'[c].left = BlkSize /\ conns'[c].closed
        BY <3>1, <4>1
      <4> QED BY <2>3, <3>1, <4>2
    <3>3. ReadOf(c) = 0 /\ ReadOf(c)' = 0
      BY <3>1, <3>2, PtAssumption DEF ReadOf
    <3>4. EndOfFile' /\ UnitsStored' /\ Served' /\ BlocksContiguous'
      <4>1. ASSUME NEW e \in DOMAIN conns
            PROVE  ReadOf(e)' = ReadOf(e) /\ (conns[e].closed => conns'[e] = conns[e])
        BY <3>1, <3>2, <3>3 DEF ReadOf
      <4> QED BY <1>0, <2>1, <4>1, ServerStill
    <3>5. ASSUME NEW t \in PtSenders, sendStep'[t].at = "pipe"
          PROVE  /\ sendStep'[t].conn \in DOMAIN conns'
                 /\ conns'[sendStep'[t].conn] = [from |-> t, left |-> 0, closed |-> FALSE]
      <4>1. t # s
        BY <1>0, <2>3, <3>5 DEF PtIdle
      <4>2. sendStep'[t] = sendStep[t]
        BY <1>0, <2>3, <4>1
      <4>3. /\ sendStep[t].conn \in DOMAIN conns
            /\ conns[sendStep[t].conn] = [from |-> t, left |-> 0, closed |-> FALSE]
        BY <3>5, <4>2 DEF ServerInv, Connections
      <4>4. sendStep[t].conn # c
        <5>1. conns[sendStep[t].conn].from = t /\ conns[c].from = s
          BY <3>1, <4>3
        <5> QED BY <4>1, <5>1
      <4> QED BY <3>2, <4>2, <4>3, <4>4
    <3>6. ASSUME NEW e \in DOMAIN conns'
          PROVE  (~conns'[e].closed => conns'[e].left = 0) /\ (accepted' < e => ReadOf(e)' = 0)
      <4>1. CASE e = c
        BY <3>2, <3>3, <4>1 DEF ReadOf
      <4>2. CASE e # c
        BY <2>1, <3>2, <4>2 DEF ServerInv, Connections, ReadOf, srvVars
      <4> QED BY <4>1, <4>2
    <3> QED BY <1>0, <3>4, <3>5, <3>6 DEF ServerInv, Connections
  <2>4. \/ UNCHANGED conns
        \/ conns' = [conns EXCEPT ![sendStep[s].conn] = [@ EXCEPT !.left = BlkSize, !.closed = TRUE]]
             /\ SendReturns(s, 1)
    BY <1>7 DEF PipeWrite
  <2> QED BY <2>2, <2>3, <2>4 DEF SendReturns
<1>8. CASE ServerAccepts
  <2>1. /\ accepted' = accepted + 1 /\ accepted < Len(conns) /\ server = "accept"
        /\ server' \in {"read", "dead"}
        /\ UNCHANGED <<sendStep, conns, mmTest, srvRoom, cutOff>>
    BY <1>8 DEF ServerAccepts
  <2>2. /\ accepted \in Nat /\ accepted + 1 \in DOMAIN conns /\ 1..(accepted + 1) = 1..accepted \cup {accepted + 1}
        /\ \A i \in DOMAIN mmTest : mmTest[i][1] \in Nat
        /\ Len(mmTest) \in Nat /\ DOMAIN mmTest = 1..Len(mmTest) /\ mmTest \in Seq(Unit)
    BY <1>0, <2>1, NetFacts
  <2>3. ReadOf(accepted + 1) = 0
    <3>1. accepted < accepted + 1
      BY <2>2
    <3> QED BY <2>2, <3>1 DEF ServerInv, Connections
  <2>4. \A c : ReadOf(c)' = ReadOf(c)
    BY <2>1 DEF ReadOf
  <2>5. Connections'
    <3>1. ASSUME NEW c \in DOMAIN conns, accepted + 1 < c PROVE accepted < c
      BY <2>2, <3>1, NetFacts, <1>0
    <3> QED BY <2>1, <2>4, <3>1 DEF ServerInv, Connections
  <2>6. EndOfFile'
    <3>1. ASSUME srvRoom > 0, mmTest # << >> PROVE mmTest[Len(mmTest)][1] < accepted + 1
      <4>1. Len(mmTest) \in DOMAIN mmTest
        BY <2>2, <3>1
      <4>2. mmTest[Len(mmTest)] = <<accepted, ReadOf(accepted)>> \/ mmTest[Len(mmTest)][1] < accepted
        BY <3>1 DEF ServerInv, EndOfFile
      <4>3. mmTest[Len(mmTest)][1] = accepted \/ mmTest[Len(mmTest)][1] < accepted
        BY <4>2
      <4> QED BY <2>2, <4>1, <4>3
    <3>2. PICK a \in Nat : a = accepted + 1
      BY <2>2
    <3>3. ReadOf(a)' = 0 /\ accepted' = a
      BY <2>1, <2>3, <2>4, <3>2
    <3> QED BY <2>1, <3>1, <3>2, <3>3 DEF EndOfFile, ReadOf
  <2>7. UnitsStored'
    <3> SUFFICES ASSUME srvRoom > 0, NEW c \in 1..(accepted + 1), NEW u \in 1..ReadOf(c)
                 PROVE  \E i \in DOMAIN mmTest : mmTest[i] = <<c, u>>
      BY <2>1, <2>4 DEF UnitsStored
    <3>1. c \in 1..accepted
      BY <2>2, <2>3
    <3> QED BY <3>1 DEF ServerInv, UnitsStored
  <2>8. Served'
    BY <2>1, <2>2 DEF ServerInv, Served
  <2>9. BlocksContiguous'
    BY <2>1 DEF ServerInv, BlocksContiguous
  <2> QED BY <1>0, <2>5, <2>6, <2>7, <2>8, <2>9 DEF ServerInv
<1>9. CASE ServerCopies
  <2>1. PICK n \in Nat \ {0}, k \in Nat :
          /\ accepted \in DOMAIN conns /\ n <= conns[accepted].left
          /\ conns' \in Seq(Connection) /\ DOMAIN conns' = DOMAIN conns
          /\ conns'[accepted].left = conns[accepted].left - n
          /\ conns'[accepted].closed = conns[accepted].closed
          /\ \A c \in DOMAIN conns : c # accepted => conns'[c] = conns[c]
          /\ srvRoom' = srvRoom - k /\ k <= srvRoom
          /\ k = n \/ k = srvRoom
          /\ Len(mmTest') = Len(mmTest) + k
          /\ \A i \in 1..Len(mmTest) : mmTest'[i] = mmTest[i]
          /\ \A i \in 1..k : mmTest'[Len(mmTest) + i]
                               = <<accepted, BlkSize - conns[accepted].left + i>>
    BY <1>0, <1>9, ServerPass
  <2>2. /\ UNCHANGED <<sendStep, accepted, cutOff>> /\ server = "read" /\ server' \in {"read", "dead"}
    BY <1>9 DEF ServerCopies
  <2>3. /\ BlkSize \in Nat /\ accepted \in Nat /\ DOMAIN conns = 1..Len(conns) /\ Len(conns) \in Nat
        /\ Len(mmTest) \in Nat /\ DOMAIN mmTest = 1..Len(mmTest) /\ srvRoom \in Nat
        /\ conns[accepted].left \in Nat /\ conns[accepted].left <= BlkSize
        /\ 1..accepted \subseteq DOMAIN conns /\ mmTest \in Seq(Unit)
    BY <1>0, <2>1, NetFacts
  <2> DEFINE r == ReadOf(accepted)
  <2>4. /\ conns[accepted].closed /\ r = BlkSize - conns[accepted].left /\ r \in Nat
        /\ ReadOf(accepted)' = r + n /\ ReadOf(accepted)' > 0
        /\ \A c \in DOMAIN conns : c = accepted => ReadOf(c)' = r + n
        /\ \A c \in DOMAIN conns : c # accepted => ReadOf(c)' = ReadOf(c)
    <3>1. conns[accepted].left # 0
      BY <2>1, <2>3
    <3>2. conns[accepted].closed
      BY <2>1, <3>1 DEF ServerInv, Connections
    <3>3. r = BlkSize - conns[accepted].left
      BY <3>2 DEF ReadOf
    <3>4. ReadOf(accepted)' = BlkSize - (conns[accepted].left - n)
      BY <2>1, <2>2, <3>2 DEF ReadOf
    <3>5. \A c \in DOMAIN conns : c # accepted => ReadOf(c)' = ReadOf(c)
      BY <2>1 DEF ReadOf
    <3>6. \A c \in DOMAIN conns : c = accepted => ReadOf(c)' = ReadOf(accepted)'
      BY <2>2 DEF ReadOf
    <3> HIDE DEF r
    <3> QED BY SMTT(60), <2>3, <3>2, <3>3, <3>4, <3>5, <3>6
  <2>5. \A i \in 1..k : mmTest'[Len(mmTest) + i] = <<accepted, r + i>>
    BY <2>1, <2>4
  <2>6. DOMAIN mmTest' = 1..(Len(mmTest) + k)
    BY <1>0, <2>1, NetFacts DEF TransferTypes, NetTypes
  <2>7. srvRoom' > 0 => k = n /\ srvRoom > 0
    BY <2>1, <2>3
  <2> HIDE DEF r
  <2>8. Connections'
    <3>1. ASSUME NEW t \in PtSenders, sendStep[t].at = "pipe"
          PROVE  /\ sendStep[t].conn \in DOMAIN conns'
                 /\ conns'[sendStep[t].conn] = [from |-> t, left |-> 0, closed |-> FALSE]
      <4>1. /\ sendStep[t].conn \in DOMAIN conns
            /\ conns[sendStep[t].conn] = [from |-> t, left |-> 0, closed |-> FALSE]
        BY <3>1 DEF ServerInv, Connections
      <4>2. sendStep[t].conn # accepted
        <5>1. ~conns[sendStep[t].conn].closed
          BY <4>1
        <5> QED BY <2>4, <5>1
      <4> QED BY <2>1, <4>1, <4>2
    <3>2. ASSUME NEW c \in DOMAIN conns'
          PROVE  (~conns'[c].closed => conns'[c].left = 0) /\ (accepted < c => ReadOf(c)' = 0)
      <4>1. CASE c = accepted
        <5>1. conns'[c].closed /\ ~(accepted < c)
          <6>1. conns'[c].closed
            BY <2>1, <2>4, <4>1
          <6>2. ~(accepted < c)
            BY <2>3, <4>1
          <6> QED BY <6>1, <6>2
        <5> QED BY <5>1
      <4>2. CASE c # accepted
        BY <2>1, <2>4, <4>2 DEF ServerInv, Connections
      <4> QED BY <4>1, <4>2
    <3> QED BY <2>2, <3>1, <3>2 DEF Connections
  <2>9. EndOfFile'
    <3> SUFFICES ASSUME srvRoom' > 0
                 PROVE  mmTest' # << >> /\ mmTest'[Len(mmTest')] = <<accepted, ReadOf(accepted)'>>
      <4>1. accepted > 0
        BY <2>1, <2>3
      <4> QED BY <2>2, <2>4, <4>1 DEF EndOfFile, ReadOf
    <3>1. k = n /\ k \in 1..k
      BY <2>7
    <3>2. mmTest'[Len(mmTest) + k] = <<accepted, r + k>>
      BY <2>5, <3>1
    <3>3. Len(mmTest') # 0
      BY <2>1, <2>3, <3>1
    <3>4. mmTest' # << >>
      BY <3>3
    <3> QED BY <2>1, <2>4, <3>1, <3>2, <3>4
  <2>10. UnitsStored'
    <3> SUFFICES ASSUME srvRoom' > 0, NEW c \in 1..accepted, NEW u \in 1..ReadOf(c)'
                 PROVE  \E i \in DOMAIN mmTest' : mmTest'[i] = <<c, u>>
      BY <2>2 DEF UnitsStored, ReadOf
    <3>1. CASE u \in 1..ReadOf(c)
      <4>1. PICK i \in 1..Len(mmTest) : mmTest[i] = <<c, u>>
        BY <2>3, <2>7, <3>1 DEF ServerInv, UnitsStored
      <4>2. i \in DOMAIN mmTest'
        BY <2>3, <2>6
      <4>3. mmTest'[i] = mmTest[i]
        BY <2>1
      <4> QED BY <4>1, <4>2, <4>3
    <3>2. CASE u \notin 1..ReadOf(c)
      <4>1. c = accepted
        BY <2>3, <2>4, <3>2
      <4>2. u - r \in 1..k
        <5>1. u \in 1..(r + n) /\ u \notin 1..r
          BY <2>3, <2>4, <3>2, <4>1 DEF r
        <5> QED BY <2>4, <2>7, <5>1
      <4>3. mmTest'[Len(mmTest) + (u - r)] = <<accepted, r + (u - r)>> /\ r + (u - r) = u
        <5>1. u \in 1..(r + n)
          BY <2>3, <2>4, <4>1
        <5>2. r + (u - r) = u
          BY <2>4, <5>1
        <5> QED BY <2>5, <4>2, <5>2
      <4>4. Len(mmTest) + (u - r) \in DOMAIN mmTest'
        BY <2>3, <2>6, <4>2
      <4> QED BY <4>1, <4>3, <4>4
    <3> QED BY <3>1, <3>2
  <2>11. Served'
    <3> SUFFICES ASSUME NEW c \in 1..accepted, c # accepted, c \notin cutOff
                 PROVE  conns'[c].closed /\ conns'[c].left = 0
      BY <2>2 DEF Served
    <3> QED BY <2>1, <2>3 DEF ServerInv, Served
  <2>12. BlocksContiguous'
    <3> SUFFICES ASSUME NEW i \in 1..(Len(mmTest') - 1)
                 PROVE  \/ mmTest'[i + 1] = <<mmTest'[i][1], mmTest'[i][2] + 1>>
                        \/ mmTest'[i + 1][1] > mmTest'[i][1] /\ mmTest'[i + 1][2] = 1
      BY DEF BlocksContiguous
    <3>0. i \in Nat /\ 1 <= i /\ i + 1 <= Len(mmTest) + k /\ k \in Nat
      <4>1. Len(mmTest) + k \in Nat /\ Len(mmTest') = Len(mmTest) + k
        BY <2>1, <2>3
      <4> QED BY <4>1
    <3>1. CASE i < Len(mmTest)
      <4>1. /\ i \in 1..(Len(mmTest) - 1) /\ i \in 1..Len(mmTest) /\ i + 1 \in 1..Len(mmTest)
        BY <2>3, <3>1
      <4>2. mmTest'[i] = mmTest[i] /\ mmTest'[i + 1] = mmTest[i + 1]
        BY <2>1, <4>1
      <4> QED BY <4>1, <4>2 DEF ServerInv, BlocksContiguous
    <3>2. CASE i = Len(mmTest)
      <4>1. 1 \in 1..k /\ i \in 1..Len(mmTest) /\ srvRoom > 0 /\ mmTest # << >>
        BY <2>1, <2>3, <3>2
      <4>2. mmTest'[i + 1] = <<accepted, r + 1>> /\ mmTest'[i] = mmTest[Len(mmTest)]
        BY <2>1, <2>5, <3>2, <4>1
      <4>3. CASE r > 0
        <5>1. accepted > 0
          BY <2>1, <2>3
        <5>2. mmTest[Len(mmTest)] = <<accepted, r>>
          BY <4>1, <4>3, <5>1 DEF ServerInv, EndOfFile, r
        <5> QED BY <4>2, <5>2
      <4>4. CASE ~(r > 0)
        <5>1. r = 0
          BY <2>4, <4>4
        <5>2. mmTest[Len(mmTest)][1] < accepted /\ mmTest[Len(mmTest)][1] \in Nat
          BY <1>0, <2>3, <3>2, <4>1, <4>4, NetFacts DEF ServerInv, EndOfFile, r
        <5> QED BY <2>3, <4>2, <5>1, <5>2
      <4> QED BY <4>3, <4>4
    <3>3. CASE i > Len(mmTest)
      <4>1. PICK j \in Int : j = i - Len(mmTest)
        BY <2>3, <3>0
      <4>2. j \in 1..k /\ j + 1 \in 1..k /\ Len(mmTest) + j = i /\ Len(mmTest) + (j + 1) = i + 1
        BY <2>3, <3>0, <3>3, <4>1
      <4>3. mmTest'[i] = <<accepted, r + j>> /\ mmTest'[i + 1] = <<accepted, r + (j + 1)>>
        BY <2>5, <4>2
      <4>4. r + (j + 1) = (r + j) + 1
        BY SMTT(60), <2>4
      <4> QED BY <4>3, <4>4
    <3>4. i < Len(mmTest) \/ i = Len(mmTest) \/ i > Len(mmTest)
      <4>1. \A a, b \in Int : a < b \/ a = b \/ a > b
        OBVIOUS
      <4>2. i \in Int
        BY <3>0
      <4>3. Len(mmTest) \in Int
        BY <2>3
      <4> QED BY <4>1, <4>2, <4>3
    <3> QED BY <3>1, <3>2, <3>3, <3>4
  <2> QED BY <1>0, <2>8, <2>9, <2>10, <2>11, <2>12 DEF ServerInv
<1>10. CASE ServerCloses
  <2>1. UNCHANGED <<sendStep, conns, accepted, mmTest, srvRoom>> /\ server = "read"
    BY <1>10 DEF ServerCloses
  <2>2. Connections' /\ EndOfFile' /\ UnitsStored' /\ BlocksContiguous'
    BY <2>1 DEF ServerInv, Connections, EndOfFile, UnitsStored, BlocksContiguous, ReadOf
  <2>3. Served'
    BY <1>10, <2>1 DEF ServerInv, Served, ServerCloses, EndOfInput
  <2> QED BY <1>0, <2>2, <2>3 DEF ServerInv
<1>11. CASE UNCHANGED ptVars
  BY <1>1, <1>11 DEF ptVars, srvVars
<1> QED
  BY <1>3, <1>4, <1>5, <1>6, <1>7, <1>8, <1>9, <1>10, <1>11
  DEF PtNext, dhsSendPixelData, dhsSendMetaData, pipeSendPixelData, proto_server, FileNames

\* The server puts the blocks into mm_test one after the other, each in the order
\* it was sent, and leaves a connection only with all that its sender could
\* write, however senders and server interleave and whatever fails.
THEOREM BlocksServedInOnePiece == PtSpec => []ServedInOnePiece
<1>1. ServerInv => ServedInOnePiece
  <2> SUFFICES ASSUME ServerInv, NEW c \in 1..accepted, c # accepted \/ server = "accept",
                      c \notin cutOff, srvRoom > 0
               PROVE  /\ conns[c].closed
                      /\ \A u \in 1..(BlkSize - conns[c].left) : \E i \in DOMAIN mmTest : mmTest[i] = <<c, u>>
    BY DEF ServedInOnePiece, ServedIsStored, ServerInv
  <2>1. conns[c].closed
    BY DEF ServerInv, Served
  <2>2. ReadOf(c) = BlkSize - conns[c].left
    BY <2>1 DEF ReadOf
  <2> QED BY <2>1, <2>2 DEF ServerInv, UnitsStored
<1> QED BY <1>1, InitServerInv, NextServerInv, PTL DEF PtSpec

------------------------------------------------------------------------------
(* The uploads: the invariant *)

Uploading ==
  [file : NoExposures \cup {"image_list"}, at : {"start", "done"}]
    \cup [file : {"image_list"}, at : {"sending"}, data : Seq(NoExposures)]
    \cup [file : NoExposures, at : {"sending"}, data : Nat]

UploadTypes ==
  /\ progAt \in [NoProgs -> {"none", "caller", "upload file", "list", "upload list"}]
  /\ closing \in [NoProgs -> NoExposures] /\ fitsBlocks \in [NoExposures -> Nat]
  /\ imageList \in Seq(NoExposures) /\ closes \in Seq(NoExposures) /\ remoteList \in Seq(NoExposures)
  /\ uploads \in Seq(Uploading) /\ execFailed \in BOOLEAN

\* A copy of image_list, wherever it is, is a beginning of it.
CopiesArePrefixes ==
  /\ IsPrefix(remoteList, imageList)
  /\ \A u \in DOMAIN uploads : uploads[u].file = "image_list" /\ uploads[u].at = "sending" =>
       IsPrefix(uploads[u].data, imageList)

\* As long as execl works there is one program, and an exposure it has yet to
\* write down was closed once more than it is listed.
ClosesCounted ==
  ~execFailed =>
    /\ \A p \in NoProgs : p # FirstProg => progAt[p] = "none"
    /\ \A e \in NoExposures : Cardinality(LinesOf(imageList, e)) <= Cardinality(LinesOf(closes, e))
    /\ progAt[FirstProg] \in {"upload file", "list"} =>
         Cardinality(LinesOf(imageList, closing[FirstProg]))
           < Cardinality(LinesOf(closes, closing[FirstProg]))

UploadInv == UploadTypes /\ CopiesArePrefixes /\ ClosesCounted

------------------------------------------------------------------------------
(* The uploads: the proofs *)

\* What it is for one sequence to be a beginning of another.
LEMMA PrefixIs ==
  ASSUME NEW S, NEW s \in Seq(S), NEW t \in Seq(S)
  PROVE  IsPrefix(s, t) <=> (Len(s) <= Len(t) /\ \A i \in 1..Len(s) : s[i] = t[i])
<1>1. Len(s) \in Nat /\ Len(t) \in Nat /\ SubSeq(s, 1, Len(s)) = s
  <2> DEFINE b == SubSeq(s, 1, Len(s))
  <2>1. Len(s) \in Nat /\ Len(t) \in Nat
    OBVIOUS
  <2>2. b \in Seq(S) /\ Len(b) = Len(s) /\ \A i \in 1..Len(s) : b[i] = s[i]
    BY <2>1
  <2> HIDE DEF b
  <2>3. s = [i \in 1..Len(s) |-> s[i]] /\ b = [i \in 1..Len(s) |-> b[i]]
    BY <2>2
  <2>4. b = s
    BY <2>2, <2>3
  <2> QED BY <2>1, <2>4 DEF b
<1>2. CASE Len(s) <= Len(t)
  <2> DEFINE b == SubSeq(t, 1, Len(s))
  <2>1. /\ b \in Seq(S) /\ Len(b) = Len(s) /\ DOMAIN b = 1..Len(s)
        /\ \A i \in 1..Len(s) : b[i] = t[i]
    BY <1>1, <1>2
  <2>2. s = b <=> \A i \in 1..Len(s) : s[i] = b[i]
    <3> HIDE DEF b
    <3>1. s = [i \in 1..Len(s) |-> s[i]] /\ b = [i \in 1..Len(s) |-> b[i]]
      BY <1>1, <2>1
    <3> QED BY <3>1
  <2> QED BY <1>1, <1>2, <2>1, <2>2 DEF IsPrefix
<1>3. CASE ~(Len(s) <= Len(t))
  BY <1>3 DEF IsPrefix
<1> QED BY <1>2, <1>3

\* A sequence is a beginning of itself, and of itself with more behind it.
LEMMA PrefixKept ==
  ASSUME NEW S, NEW s \in Seq(S), NEW t \in Seq(S), NEW x \in S
  PROVE  IsPrefix(t, t) /\ (IsPrefix(s, t) => IsPrefix(s, Append(t, x)))
<1>1. /\ Append(t, x) \in Seq(S) /\ Len(t) \in Nat /\ Len(Append(t, x)) = Len(t) + 1
      /\ \A i \in 1..Len(t) : Append(t, x)[i] = t[i]
  BY AppendIs
<1>2. IsPrefix(t, t)
  BY <1>1, PrefixIs
<1>3. ASSUME IsPrefix(s, t) PROVE IsPrefix(s, Append(t, x))
  <2>1. Len(s) <= Len(t) /\ Len(s) \in Nat /\ \A i \in 1..Len(s) : s[i] = t[i]
    BY <1>3, PrefixIs
  <2>2. Len(s) <= Len(Append(t, x)) /\ \A i \in 1..Len(s) : s[i] = Append(t, x)[i]
    BY <1>1, <2>1
  <2> QED BY <1>1, <2>2, PrefixIs
<1> QED BY <1>2, <1>3

\* A line more is counted.
LEMMA LineCount ==
  ASSUME NEW S, NEW s \in Seq(S), NEW x \in S, NEW e
  PROVE  /\ Cardinality(LinesOf(s, e)) \in Nat
         /\ x = e => Cardinality(LinesOf(Append(s, x), e)) = Cardinality(LinesOf(s, e)) + 1
         /\ x # e => Cardinality(LinesOf(Append(s, x), e)) = Cardinality(LinesOf(s, e))
<1>1. /\ Len(s) \in Nat /\ DOMAIN s = 1..Len(s) /\ DOMAIN Append(s, x) = 1..(Len(s) + 1)
      /\ Append(s, x)[Len(s) + 1] = x /\ \A i \in 1..Len(s) : Append(s, x)[i] = s[i]
  BY AppendIs
<1> DEFINE L == LinesOf(s, e)
           M == LinesOf(Append(s, x), e)
<1>2. L \subseteq 1..Len(s) /\ IsFiniteSet(L) /\ Len(s) + 1 \notin L
  <2>1. L \subseteq 1..Len(s)
    BY <1>1 DEF LinesOf
  <2>2. IsFiniteSet(1..Len(s))
    <3>1. 1 \in Int /\ Len(s) \in Int
      BY <1>1
    <3> QED BY <3>1, FS_Interval
  <2> QED BY <1>1, <2>1, <2>2, FS_Subset
<1>3. M = IF x = e THEN L \cup {Len(s) + 1} ELSE L
  <2>1. 1..(Len(s) + 1) = 1..Len(s) \cup {Len(s) + 1} /\ Len(s) + 1 \notin 1..Len(s)
    BY <1>1
  <2> QED BY <1>1, <2>1 DEF LinesOf
<1> HIDE DEF L, M
<1>4. Cardinality(L) \in Nat
  BY <1>2, FS_CardinalityType
<1>5. CASE x = e
  <2>1. Cardinality(L \cup {Len(s) + 1}) = Cardinality(L) + 1
    BY <1>2, FS_AddElement
  <2> QED BY <1>3, <1>4, <1>5, <2>1 DEF L, M
<1>6. CASE x # e
  BY <1>3, <1>4, <1>6 DEF L, M
<1> QED BY <1>5, <1>6

\* Elements of sequences, and the sequence without any.
LEMMA ElementOf == ASSUME NEW S, NEW s \in Seq(S), NEW i \in DOMAIN s PROVE s[i] \in S
OBVIOUS

LEMMA NothingIn == \A S : << >> \in Seq(S) /\ Len(<< >>) = 0 /\ DOMAIN << >> = {}
OBVIOUS

\* Before anything is closed.
LEMMA InitUploadInv == UpInit => UploadInv
<1> SUFFICES ASSUME UpInit PROVE UploadInv
  OBVIOUS
<1>0. /\ imageList = << >> /\ uploads = << >> /\ remoteList = << >> /\ closes = << >>
      /\ execFailed = FALSE
      /\ progAt = [p \in NoProgs |-> IF p = FirstProg THEN "caller" ELSE "none"]
      /\ closing = [p \in NoProgs |-> CHOOSE e \in NoExposures : TRUE]
      /\ fitsBlocks = [e \in NoExposures |-> 0]
  BY DEF UpInit
<1>e. \A S : << >> \in Seq(S) /\ Len(<< >>) = 0 /\ DOMAIN << >> = {}
  BY NothingIn
<1>1. UploadTypes
  <2>1. closing \in [NoProgs -> NoExposures]
    <3>1. (CHOOSE e \in NoExposures : TRUE) \in NoExposures
      BY UploadAssumption
    <3> QED BY <1>0, <3>1
  <2>2. progAt \in [NoProgs -> {"none", "caller", "upload file", "list", "upload list"}]
    BY <1>0
  <2>3. fitsBlocks \in [NoExposures -> Nat]
    BY <1>0
  <2> QED BY <1>0, <1>e, <2>1, <2>2, <2>3 DEF UploadTypes
<1>2. CopiesArePrefixes
  <2>1. IsPrefix(remoteList, imageList)
    <3>1. remoteList \in Seq(NoExposures) /\ imageList \in Seq(NoExposures) /\ Len(remoteList) = 0
          /\ Len(imageList) = 0
      BY <1>0, <1>e
    <3>2. IsPrefix(remoteList, imageList) <=>
            (Len(remoteList) <= Len(imageList) /\ \A i \in 1..Len(remoteList) : remoteList[i] = imageList[i])
      BY ZenonT(60), <3>1, PrefixIs
    <3> QED BY <3>1, <3>2
  <2> QED BY <1>0, <1>e, <2>1 DEF CopiesArePrefixes
<1>3. ClosesCounted
  <2>1. \A e : LinesOf(imageList, e) = LinesOf(closes, e)
    BY <1>0
  <2>2. \A e : Cardinality(LinesOf(closes, e)) = 0
    <3> TAKE e
    <3>1. LinesOf(closes, e) = {}
      BY <1>0, <1>e DEF LinesOf
    <3> QED BY <3>1, FS_EmptySet
  <2>3. progAt[FirstProg] = "caller" /\ \A p \in NoProgs : p # FirstProg => progAt[p] = "none"
    BY <1>0, UploadAssumption
  <2> QED BY <2>1, <2>2, <2>3 DEF ClosesCounted
<1> QED BY <1>1, <1>2, <1>3 DEF UploadInv

\* What a fork does: an upload more at most, and as long as execl works nobody
\* moves but the caller.
LEMMA ForkedIs ==
  ASSUME UploadTypes, NEW p \in NoProgs, progAt[p] # "none",
         NEW file \in NoExposures \cup {"image_list"},
         NEW next \in {"list", "caller"}, ForkClient(p, file, next)
  PROVE  /\ progAt' \in [NoProgs -> {"none", "caller", "upload file", "list", "upload list"}]
         /\ closing' \in [NoProgs -> NoExposures]
         /\ uploads' \in Seq(Uploading) /\ execFailed' \in BOOLEAN
         /\ \A u \in DOMAIN uploads' :
              (u \in DOMAIN uploads /\ uploads'[u] = uploads[u]) \/ uploads'[u].at = "start"
         /\ ~execFailed' => /\ ~execFailed /\ progAt'[p] = next /\ closing'[p] = closing[p]
                            /\ \A x \in NoProgs : x # p => progAt'[x] = progAt[x]
<1> DEFINE new == [file |-> file, at |-> "start"]
<1>0. /\ progAt \in [NoProgs -> {"none", "caller", "upload file", "list", "upload list"}]
      /\ closing \in [NoProgs -> NoExposures] /\ uploads \in Seq(Uploading) /\ execFailed \in BOOLEAN
  BY DEF UploadTypes
<1>1. new \in Uploading /\ new.at = "start"
  BY DEF Uploading
<1> HIDE DEF new
<1>2. CASE progAt' = [progAt EXCEPT ![p] = next] /\ UNCHANGED <<uploads, closing, execFailed>>
  BY <1>0, <1>2
<1>3. ASSUME NEW ok \in BOOLEAN, NEW q \in NoProgs, progAt[q] = "none",
             uploads' = IF ok THEN Append(uploads, new) ELSE uploads,
             progAt' = [progAt EXCEPT ![p] = next, ![q] = ChildGoesTo(ok, next)],
             closing' = [closing EXCEPT ![q] = closing[p]],
             execFailed' = (execFailed \/ ~ok)
      PROVE  /\ progAt' \in [NoProgs -> {"none", "caller", "upload file", "list", "upload list"}]
             /\ closing' \in [NoProgs -> NoExposures]
             /\ uploads' \in Seq(Uploading) /\ execFailed' \in BOOLEAN
             /\ \A u \in DOMAIN uploads' :
                  (u \in DOMAIN uploads /\ uploads'[u] = uploads[u]) \/ uploads'[u].at = "start"
             /\ ~execFailed' => /\ ~execFailed /\ progAt'[p] = next /\ closing'[p] = closing[p]
                                /\ \A x \in NoProgs : x # p => progAt'[x] = progAt[x]
  <2>1. ChildGoesTo(ok, next) \in {"none", "list", "caller"} /\ (ok => ChildGoesTo(ok, next) = "none")
    BY DEF ChildGoesTo
  <2>2. p # q
    BY <1>3
  <2>3. /\ progAt' \in [NoProgs -> {"none", "caller", "upload file", "list", "upload list"}]
        /\ closing' \in [NoProgs -> NoExposures] /\ closing'[p] = closing[p]
        /\ progAt'[p] = next /\ progAt'[q] = ChildGoesTo(ok, next)
        /\ \A x \in NoProgs : x # p /\ x # q => progAt'[x] = progAt[x]
    BY <1>0, <1>3, <2>1, <2>2
  <2>4. /\ uploads' \in Seq(Uploading)
        /\ \A u \in DOMAIN uploads' :
             (u \in DOMAIN uploads /\ uploads'[u] = uploads[u]) \/ uploads'[u].at = "start"
    <3>1. CASE ok
      <4>0. uploads' = Append(uploads, new)
        BY <1>3, <3>1
      <4>1. /\ uploads' \in Seq(Uploading) /\ DOMAIN uploads' = 1..(Len(uploads) + 1)
            /\ DOMAIN uploads = 1..Len(uploads) /\ Len(uploads) \in Nat
            /\ uploads'[Len(uploads) + 1] = new /\ \A u \in 1..Len(uploads) : uploads'[u] = uploads[u]
        <5>1. /\ Append(uploads, new) \in Seq(Uploading) /\ Len(uploads) \in Nat
              /\ DOMAIN uploads = 1..Len(uploads) /\ DOMAIN Append(uploads, new) = 1..(Len(uploads) + 1)
              /\ Append(uploads, new)[Len(uploads) + 1] = new
              /\ \A u \in 1..Len(uploads) : Append(uploads, new)[u] = uploads[u]
          <6>1. uploads \in Seq(Uploading)
            BY <1>0
          <6>2. new \in Uploading
            BY <1>1
          <6> QED BY <6>1, <6>2, AppendIs
        <5> QED BY <4>0, <5>1
      <4>2. \A u \in 1..(Len(uploads) + 1) : u \in 1..Len(uploads) \/ u = Len(uploads) + 1
        BY <4>1
      <4> QED BY <1>1, <4>1, <4>2
    <3>2. CASE ~ok
      BY <1>0, <1>3, <3>2
    <3> QED BY <3>1, <3>2
  <2>5. execFailed' \in BOOLEAN /\ (~execFailed' => ok /\ ~execFailed)
    BY <1>0, <1>3
  <2>6. ASSUME ok PROVE \A x \in NoProgs : x # p => progAt'[x] = progAt[x]
    BY <1>3, <2>1, <2>3, <2>6
  <2> QED BY <2>3, <2>4, <2>5, <2>6
<1> QED BY <1>2, <1>3 DEF ForkClient, new

\* Every step of a program or of a client process keeps the invariant.
LEMMA NextUploadInv == UploadInv /\ [UpNext]_upVars => UploadInv'
<1> SUFFICES ASSUME UploadInv, [UpNext]_upVars PROVE UploadInv'
  OBVIOUS
<1>0. /\ UploadTypes /\ FirstProg \in NoProgs
      /\ progAt \in [NoProgs -> {"none", "caller", "upload file", "list", "upload list"}]
      /\ closing \in [NoProgs -> NoExposures] /\ fitsBlocks \in [NoExposures -> Nat]
      /\ imageList \in Seq(NoExposures) /\ closes \in Seq(NoExposures) /\ remoteList \in Seq(NoExposures)
      /\ uploads \in Seq(Uploading) /\ execFailed \in BOOLEAN
  BY UploadAssumption DEF UploadInv, UploadTypes
<1>c. \A e \in NoExposures : /\ Cardinality(LinesOf(imageList, e)) \in Nat
                             /\ Cardinality(LinesOf(closes, e)) \in Nat
  <2> TAKE e \in NoExposures
  <2> QED BY <1>0, LineCount
\* Who is where, and what is listed, stays as it is.
<1>1. ASSUME UNCHANGED <<progAt, closing, imageList, closes, execFailed>> PROVE ClosesCounted'
  BY <1>1 DEF UploadInv, ClosesCounted
\* No copy of the list is taken or delivered, and the list only grows.
<1>2. ASSUME UNCHANGED remoteList, uploads' \in Seq(Uploading),
             \A u \in DOMAIN uploads' :
               (u \in DOMAIN uploads /\ uploads'[u] = uploads[u]) \/ uploads'[u].at = "start",
             imageList' = imageList \/ \E e \in NoExposures : imageList' = Append(imageList, e)
      PROVE  CopiesArePrefixes'
  <2>1. ASSUME NEW s \in Seq(NoExposures), IsPrefix(s, imageList) PROVE IsPrefix(s, imageList')
    BY <1>0, <1>2, <2>1, PrefixKept
  <2>2. IsPrefix(remoteList', imageList')
    BY <1>0, <1>2, <2>1 DEF UploadInv, CopiesArePrefixes
  <2>3. ASSUME NEW u \in DOMAIN uploads', uploads'[u].file = "image_list", uploads'[u].at = "sending"
        PROVE  IsPrefix(uploads'[u].data, imageList')
    <3>1. u \in DOMAIN uploads /\ uploads'[u] = uploads[u]
      BY <1>2, <2>3
    <3>2. uploads[u] \in Uploading
      BY <1>0, <3>1, ElementOf
    <3>3. uploads[u].data \in Seq(NoExposures)
      BY <2>3, <3>1, <3>2, UploadAssumption DEF Uploading
    <3>4. IsPrefix(uploads[u].data, imageList)
      BY <2>3, <3>1 DEF UploadInv, CopiesArePrefixes
    <3> QED BY <2>1, <3>1, <3>3, <3>4
  <2> QED BY <2>2, <2>3 DEF CopiesArePrefixes
<1>3. ASSUME UNCHANGED <<remoteList, uploads, imageList>> PROVE CopiesArePrefixes'
  BY <1>3 DEF UploadInv, CopiesArePrefixes
<1>4. ASSUME NEW p \in NoProgs, NEW e \in NoExposures, UploadPixels(p, e) PROVE UploadInv'
  <2>1. UNCHANGED <<progAt, closing, imageList, uploads, remoteList, closes, execFailed>>
    BY <1>4 DEF UploadPixels, remoteVars
  <2>2. fitsBlocks' \in [NoExposures -> Nat]
    <3>1. fitsBlocks' = [fitsBlocks EXCEPT ![e] = fitsBlocks[e] + 1]
      BY <1>4 DEF UploadPixels
    <3>2. fitsBlocks[e] + 1 \in Nat
      <4> HIDE <1>4
      <4>1. fitsBlocks[e] \in Nat
        BY <1>0
      <4> QED BY <4>1
    <3> HIDE <1>4
    <3> QED BY <1>0, <3>1, <3>2
  <2> QED BY <1>0, <1>1, <1>3, <2>1, <2>2 DEF UploadInv, UploadTypes
<1>5. ASSUME NEW p \in NoProgs, NEW e \in NoExposures, CloseExpCalled(p, e) PROVE UploadInv'
  <2>1. /\ closes' = Append(closes, e) /\ closing' = [closing EXCEPT ![p] = e]
        /\ progAt' = [progAt EXCEPT ![p] = "upload file"] /\ progAt[p] = "caller"
        /\ UNCHANGED <<fitsBlocks, imageList, uploads, remoteList, execFailed>>
    BY <1>5 DEF CloseExpCalled, remoteVars
  <2>2. UploadTypes'
    <3>1. closes' \in Seq(NoExposures)
      BY <1>0, <2>1, AppendIs
    <3>2. /\ progAt' \in [NoProgs -> {"none", "caller", "upload file", "list", "upload list"}]
          /\ closing' \in [NoProgs -> NoExposures]
      BY <1>0, <2>1
    <3> QED BY <1>0, <2>1, <3>1, <3>2 DEF UploadTypes
  <2>3. CopiesArePrefixes'
    BY <1>3, <2>1
  <2>4. ClosesCounted'
    <3> SUFFICES ASSUME ~execFailed PROVE ClosesCounted'
      BY <2>1 DEF ClosesCounted
    <3>1. p = FirstProg /\ \A q \in NoProgs : q # FirstProg => progAt[q] = "none"
      BY <2>1 DEF UploadInv, ClosesCounted
    <3>2. \A q \in NoProgs : q # FirstProg => progAt'[q] = "none"
      BY <1>0, <2>1, <3>1
    <3>3. \A d \in NoExposures :
            /\ Cardinality(LinesOf(imageList, d)) <= Cardinality(LinesOf(closes', d))
            /\ d = e => Cardinality(LinesOf(imageList, d)) < Cardinality(LinesOf(closes', d))
      <4> TAKE d \in NoExposures
      <4>1. Cardinality(LinesOf(imageList, d)) <= Cardinality(LinesOf(closes, d))
        BY <2>1 DEF UploadInv, ClosesCounted
      <4>2. /\ d = e => Cardinality(LinesOf(closes', d)) = Cardinality(LinesOf(closes, d)) + 1
            /\ d # e => Cardinality(LinesOf(closes', d)) = Cardinality(LinesOf(closes, d))
        <5>1. closes' = Append(closes, e)
          BY <2>1
        <5> QED BY <1>0, <5>1, LineCount
      <4> QED BY <1>c, <4>1, <4>2
    <3>4. progAt'[FirstProg] = "upload file" /\ closing'[FirstProg] = e
      BY <1>0, <2>1, <3>1
    <3> QED BY <2>1, <3>2, <3>3, <3>4 DEF ClosesCounted
  <2> QED BY <2>2, <2>3, <2>4 DEF UploadInv
\* A fork in a call of p that goes on at next: only what is counted for p matters.
<1>6. ASSUME NEW p \in NoProgs, progAt[p] # "none", NEW file \in NoExposures \cup {"image_list"},
             NEW next \in {"list", "caller"}, ForkClient(p, file, next),
             UNCHANGED <<fitsBlocks, imageList, remoteVars, closes>>,
             next = "list" => progAt[p] = "upload file"
      PROVE  UploadInv'
  <2>1. /\ progAt' \in [NoProgs -> {"none", "caller", "upload file", "list", "upload list"}]
        /\ closing' \in [NoProgs -> NoExposures]
        /\ uploads' \in Seq(Uploading) /\ execFailed' \in BOOLEAN
        /\ \A u \in DOMAIN uploads' :
             (u \in DOMAIN uploads /\ uploads'[u] = uploads[u]) \/ uploads'[u].at = "start"
        /\ ~execFailed' => /\ ~execFailed /\ progAt'[p] = next /\ closing'[p] = closing[p]
                           /\ \A x \in NoProgs : x # p => progAt'[x] = progAt[x]
    BY <1>0, <1>6, ForkedIs
  <2>2. UploadTypes'
    BY <1>0, <1>6, <2>1 DEF UploadTypes, remoteVars
  <2>3. CopiesArePrefixes'
    BY <1>2, <1>6, <2>1 DEF remoteVars
  <2>4. ClosesCounted'
    <3> SUFFICES ASSUME ~execFailed' PROVE ClosesCounted'
      BY DEF ClosesCounted
    <3>1. p = FirstProg /\ \A q \in NoProgs : q # FirstProg => progAt'[q] = "none"
      BY <1>6, <2>1 DEF UploadInv, ClosesCounted
    <3>2. \A e \in NoExposures : Cardinality(LinesOf(imageList, e)) <= Cardinality(LinesOf(closes, e))
      BY <2>1 DEF UploadInv, ClosesCounted
    <3>3. progAt'[p] \in {"upload file", "list"} => progAt[p] \in {"upload file", "list"}
      BY <1>6, <2>1
    <3>4. closing'[p] = closing[p]
      BY <2>1
    <3>5. progAt[p] \in {"upload file", "list"} =>
            Cardinality(LinesOf(imageList, closing[p])) < Cardinality(LinesOf(closes, closing[p]))
      BY <2>1, <3>1 DEF UploadInv, ClosesCounted
    <3>6. UNCHANGED <<imageList, closes>>
      BY <1>6
    <3> QED BY <3>1, <3>2, <3>3, <3>4, <3>5, <3>6 DEF ClosesCounted
  <2> QED BY <2>2, <2>3, <2>4 DEF UploadInv
<1>7. ASSUME NEW p \in NoProgs, UploadFile(p) \/ UploadList(p) PROVE UploadInv'
  BY <1>0, <1>6, <1>7 DEF UploadFile, UploadList
<1>8. ASSUME NEW p \in NoProgs, ListExposure(p) \/ ListNotOpened(p) PROVE UploadInv'
  <2>1. /\ progAt[p] = "list" /\ progAt' = [progAt EXCEPT ![p] = "upload list"]
        /\ UNCHANGED <<closing, fitsBlocks, uploads, remoteList, closes, execFailed>>
        /\ imageList' = imageList \/ imageList' = Append(imageList, closing[p])
    BY <1>8 DEF ListExposure, ListNotOpened, AddedTo, remoteVars
  <2>2. UploadTypes'
    <3>1. imageList' \in Seq(NoExposures)
      <4>1. closing[p] \in NoExposures
        BY <1>0
      <4>2. Append(imageList, closing[p]) \in Seq(NoExposures)
        BY <1>0, <4>1, AppendIs
      <4> QED BY <1>0, <2>1, <4>2
    <3>2. progAt' \in [NoProgs -> {"none", "caller", "upload file", "list", "upload list"}]
      BY <1>0, <2>1
    <3> QED BY <1>0, <2>1, <3>1, <3>2 DEF UploadTypes
  <2>3. CopiesArePrefixes'
    BY <1>0, <1>2, <2>1
  <2>4. ClosesCounted'
    <3> SUFFICES ASSUME ~execFailed PROVE ClosesCounted'
      BY <2>1 DEF ClosesCounted
    <3>1. p = FirstProg /\ \A q \in NoProgs : q # FirstProg => progAt[q] = "none"
      BY <2>1 DEF UploadInv, ClosesCounted
    <3>2. progAt'[FirstProg] = "upload list" /\ \A q \in NoProgs : q # FirstProg => progAt'[q] = "none"
      BY <1>0, <2>1, <3>1
    <3>3. ASSUME NEW e \in NoExposures
          PROVE  Cardinality(LinesOf(imageList', e)) <= Cardinality(LinesOf(closes, e))
      <4>1. /\ Cardinality(LinesOf(imageList, e)) <= Cardinality(LinesOf(closes, e))
            /\ e = closing[p] => Cardinality(LinesOf(imageList, e)) < Cardinality(LinesOf(closes, e))
        BY <2>1, <3>1 DEF UploadInv, ClosesCounted
      <4>2. CASE imageList' = imageList
        BY <4>1, <4>2
      <4>3. CASE imageList' = Append(imageList, closing[p])
        <5>1. closing[p] \in NoExposures
          BY <1>0
        <5>2. /\ e = closing[p] => Cardinality(LinesOf(imageList', e)) = Cardinality(LinesOf(imageList, e)) + 1
              /\ e # closing[p] => Cardinality(LinesOf(imageList', e)) = Cardinality(LinesOf(imageList, e))
          BY <1>0, <4>3, <5>1, LineCount
        <5> QED BY <1>c, <4>1, <5>2
      <4> QED BY <2>1, <4>2, <4>3
    <3> QED BY <2>1, <3>2, <3>3 DEF ClosesCounted
  <2> QED BY <2>2, <2>3, <2>4 DEF UploadInv
<1>9. ASSUME NEW u \in DOMAIN uploads, ClientReads(u) PROVE UploadInv'
  <2> DEFINE now == [file |-> uploads[u].file, at |-> "sending",
                     data |-> IF uploads[u].file = "image_list" THEN imageList
                              ELSE fitsBlocks[uploads[u].file]]
  <2>1. /\ uploads' = [uploads EXCEPT ![u] = now]
        /\ UNCHANGED <<progAt, closing, fitsBlocks, imageList, remoteList, closes, execFailed>>
    BY <1>9 DEF ClientReads, remoteVars
  <2>2. uploads[u].file \in NoExposures \cup {"image_list"}
    <3>1. uploads[u] \in Uploading
      BY <1>0, ElementOf
    <3> QED BY <3>1 DEF Uploading
  <2>3. now \in Uploading
    BY <1>0, <2>2 DEF Uploading
  <2>4. uploads[u].file = "image_list" => now.data = imageList
    OBVIOUS
  <2>5. now.file = uploads[u].file
    OBVIOUS
  <2> HIDE DEF now
  <2>6. /\ uploads' \in Seq(Uploading) /\ DOMAIN uploads' = DOMAIN uploads /\ uploads'[u] = now
        /\ \A v \in DOMAIN uploads : v # u => uploads'[v] = uploads[v]
    BY <1>0, <2>1, <2>3, ChangeOne
  <2>7. UploadTypes'
    BY <1>0, <2>1, <2>6 DEF UploadTypes
  <2>8. CopiesArePrefixes'
    <3>1. ASSUME NEW v \in DOMAIN uploads, uploads'[v].file = "image_list", uploads'[v].at = "sending"
          PROVE  IsPrefix(uploads'[v].data, imageList)
      <4>1. CASE v = u
        <5>1. NoExposures # {} /\ IsPrefix(imageList, imageList)
          BY <1>0, PrefixKept, UploadAssumption
        <5> QED BY <2>4, <2>5, <2>6, <3>1, <4>1, <5>1
      <4>2. CASE v # u
        BY <2>6, <3>1, <4>2 DEF UploadInv, CopiesArePrefixes
      <4> QED BY <4>1, <4>2
    <3> QED BY <2>1, <2>6, <3>1 DEF UploadInv, CopiesArePrefixes
  <2> QED BY <1>1, <2>1, <2>7, <2>8 DEF UploadInv
<1>10. ASSUME NEW u \in DOMAIN uploads, ClientDelivers(u) PROVE UploadInv'
  <2> DEFINE now == [file |-> uploads[u].file, at |-> "done"]
  <2>1. /\ uploads' = [uploads EXCEPT ![u] = now] /\ uploads[u].at = "sending"
        /\ UNCHANGED <<progAt, closing, fitsBlocks, imageList, closes, execFailed>>
        /\ \/ remoteList' = remoteList
           \/ uploads[u].file = "image_list" /\ remoteList' = uploads[u].data
    BY <1>10 DEF ClientDelivers, remoteVars
  <2>2. uploads[u] \in Uploading
    BY <1>0, ElementOf
  <2>3. now \in Uploading /\ now.at = "done"
    BY <2>2 DEF Uploading
  <2> HIDE DEF now
  <2>4. /\ uploads' \in Seq(Uploading) /\ DOMAIN uploads' = DOMAIN uploads /\ uploads'[u] = now
        /\ \A v \in DOMAIN uploads : v # u => uploads'[v] = uploads[v]
    BY <1>0, <2>1, <2>3, ChangeOne
  <2>5. remoteList' \in Seq(NoExposures) /\ IsPrefix(remoteList', imageList)
    <3>1. CASE remoteList' = remoteList
      BY <1>0, <3>1 DEF UploadInv, CopiesArePrefixes
    <3>2. CASE uploads[u].file = "image_list" /\ remoteList' = uploads[u].data
      <4>1. uploads[u].data \in Seq(NoExposures)
        BY <2>1, <2>2, <3>2, UploadAssumption DEF Uploading
      <4> QED BY <2>1, <3>2, <4>1 DEF UploadInv, CopiesArePrefixes
    <3> QED BY <2>1, <3>1, <3>2
  <2>6. UploadTypes'
    BY <1>0, <2>1, <2>4, <2>5 DEF UploadTypes
  <2>7. CopiesArePrefixes'
    <3>1. ASSUME NEW v \in DOMAIN uploads, uploads'[v].file = "image_list", uploads'[v].at = "sending"
          PROVE  IsPrefix(uploads'[v].data, imageList)
      BY <2>3, <2>4, <3>1 DEF UploadInv, CopiesArePrefixes
    <3> QED BY <2>1, <2>4, <2>5, <3>1 DEF CopiesArePrefixes
  <2> QED BY <1>1, <2>1, <2>6, <2>7 DEF UploadInv
<1>11. CASE UNCHANGED upVars
  BY <1>0, <1>1, <1>3, <1>11 DEF upVars, remoteVars, UploadInv, UploadTypes
<1> QED
  BY <1>4, <1>5, <1>7, <1>8, <1>9, <1>10, <1>11 DEF UpNext, client_main

\* However the uploads overtake each other, the remote image_list is a beginning
\* of the local one, and as long as execl works that one has at most a line for
\* each time an exposure was closed.
THEOREM UploadedListsTellHistory == UpSpec => []ListsTellHistory
<1>1. UploadInv => ListsTellHistory
  BY DEF ListsTellHistory, RemoteListIsPrefix, ListedOncePerClose, UploadInv, CopiesArePrefixes, ClosesCounted
<1> QED BY <1>1, InitUploadInv, NextUploadInv, PTL DEF UpSpec

-------------------------------------------------------------------------------
(* The Tcl package *)

TclHandles == {Unassigned, 0, DHS_SIMULATION_OK}

\* The handle is looked at by a command that has one, and the script has it by then.
TclHandleKnown(a) == a.cmd \in {"SysOpen", "OpenConnect"} \/ HasHandle(a)

\* What every library makes of a command, but for the exceptions of LibrariesAgree.
TclExcepted(a) ==
    \/ a.disk = "failing"
    \/ a.cmd \in {"MetaData", "PixelData"} /\ a.exp = "zero"
    \/ a.cmd = "IOctl" /\ a.ioctl \in {"SETFILENAME", "SETDIR"}
TclGood(a) ==
    /\ a.cmd = "SysOpen" => a.who \in TopLevel
    /\ a.cmd = "OpenConnect" => a.who \notin TopLevel
    /\ a.cmd \notin {"SysOpen", "OpenConnect"} => a.own
    /\ a.cmd = "CloseExp" => a.exp = "positive"
    /\ a.cmd = "IOctl" => a.ioctl = "DEBUG_LVL"
    /\ a.cmd = "PixelData" => a.size = "some"

\* A good status is passed on where the check succeeds, else it becomes an error.
LEMMA TclInherit ==
  ASSUME NEW ok \in BOOLEAN
  PROVE  Inherit(DHS_OK, ok) = IF ok THEN DHS_OK ELSE DHS_ERROR
BY DEF Inherit, STATUS_BAD, DHS_OK

LEMMA TclHandleGood ==
  ASSUME TypeOK, NEW a \in Args, HasHandle(a), NEW l \in Libs, alive[l]
  PROVE  GoodHandle(l, a) <=> a.own
<1>1. dhsID[l] \in TclHandles
  BY DEF TypeOK, TclHandles
<1>2. a.own => dhsID[l] \in {0, 2}
  BY <1>1 DEF HasHandle, TclHandles, DHS_SIMULATION_OK
<1>3. CASE a.own
  <2>1. Handle(l, a) = dhsID[l]
    BY <1>3 DEF Handle
  <2>2. Handle(l, a) >= 0
    BY <2>1, <1>2, <1>3
  <2> QED BY <2>2, <1>3 DEF GoodHandle
<1>4. CASE ~a.own
  <2>1. Handle(l, a) = -1
    BY <1>4 DEF Handle
  <2>2. ~(Handle(l, a) >= 0)
    BY <2>1
  <2> QED BY <2>2, <1>4 DEF GoodHandle
<1> QED BY <1>3, <1>4

LEMMA TclStatuses ==
  ASSUME TypeOK, NEW a \in Args, TclHandleKnown(a), ~TclExcepted(a), NEW l \in Libs, alive[l]
  PROVE  Statuses(l, a) = {IF TclGood(a) THEN DHS_OK ELSE DHS_ERROR}
<1> DEFINE good == IF TclGood(a) THEN DHS_OK ELSE DHS_ERROR
<1>1. /\ a.own \in BOOLEAN /\ a.exp \in ExpIDs /\ a.ioctl \in IOCtls /\ a.size \in Sizes
      /\ a.disk = "fine"
  BY DEF Args, TclExcepted
<1>2. a.cmd \notin {"SysOpen", "OpenConnect"} => (GoodHandle(l, a) <=> a.own)
  BY TclHandleGood DEF TclHandleKnown
<1>3. CASE a.cmd = "SysOpen"
  <2>1. (TclGood(a) <=> a.who \in TopLevel) /\ (a.who \in TopLevel) \in BOOLEAN
    BY <1>3 DEF TclGood
  <2> QED BY <1>3, <2>1, TclInherit DEF Statuses, FreshStatus, dhsUtilSysOpen
<1>4. CASE a.cmd = "OpenConnect"
  <2>1. (TclGood(a) <=> a.who \notin TopLevel) /\ (a.who \notin TopLevel) \in BOOLEAN
    BY <1>4 DEF TclGood
  <2> QED BY <1>4, <2>1, TclInherit DEF Statuses, FreshStatus, dhsUtilOpenConnect
<1>5. CASE a.cmd = "CloseExp"
  <2>1. TclGood(a) <=> (GoodHandle(l, a) /\ a.exp = "positive")
    BY <1>1, <1>2, <1>5 DEF TclGood
  <2> QED BY <1>5, <2>1, TclInherit DEF Statuses, FreshStatus, dhsUtilCloseExp
<1>6. CASE a.cmd = "IOctl"
  <2>1. a.ioctl \in KnownIOCtls(l) <=> (a.ioctl = "DEBUG_LVL")
    BY <1>1, <1>6 DEF KnownIOCtls, IOCtls, TclExcepted
  <2>2. TclGood(a) <=> (GoodHandle(l, a) /\ a.ioctl \in KnownIOCtls(l))
    BY <1>1, <1>2, <1>6, <2>1 DEF TclGood
  <2> QED BY <1>6, <2>2, TclInherit DEF Statuses, FreshStatus, dhsUtilIOCtl
<1>7. CASE a.cmd \in {"MetaData", "PixelData"}
  <2>1. SendExpOK(l, a)
    BY <1>1, <1>7 DEF SendExpOK, TclExcepted, ExpIDs
  <2>2. \A st : Written(st, a) = {st}
    BY <1>1 DEF Written
  <2>3. CASE a.cmd = "MetaData"
    <3>1. TclGood(a) <=> (GoodHandle(l, a) /\ SendExpOK(l, a))
      BY <1>1, <1>2, <2>1, <2>3 DEF TclGood
    <3>2. Inherit(DHS_OK, GoodHandle(l, a) /\ SendExpOK(l, a)) = good
      BY <3>1, TclInherit
    <3>3. dhsUtilSendMetaData(DHS_OK, l, a) = {good}
      BY <3>2, <2>2 DEF dhsUtilSendMetaData
    <3> QED BY <2>3, <3>3 DEF Statuses, FreshStatus
  <2>4. CASE a.cmd = "PixelData"
    <3>1. TclGood(a) <=> (GoodHandle(l, a) /\ a.size = "some" /\ SendExpOK(l, a))
      BY <1>1, <1>2, <2>1, <2>4 DEF TclGood
    <3>2. Inherit(DHS_OK, GoodHandle(l, a) /\ a.size = "some" /\ SendExpOK(l, a)) = good
      BY <3>1, TclInherit
    <3>3. dhsUtilSendPixelData(DHS_OK, l, a) = {good}
      BY <3>2, <2>2 DEF dhsUtilSendPixelData
    <3> QED BY <2>4, <3>3 DEF Statuses, FreshStatus
  <2> QED BY <1>7, <2>3, <2>4
<1>8. CASE a.cmd \notin {"SysOpen", "OpenConnect", "CloseExp", "IOctl", "MetaData", "PixelData"}
  <2>1. TclGood(a) <=> GoodHandle(l, a)
    BY <1>1, <1>2, <1>8 DEF TclGood
  <2>2. Inherit(DHS_OK, GoodHandle(l, a)) = IF GoodHandle(l, a) THEN DHS_OK ELSE DHS_ERROR
    BY DEF Inherit, STATUS_BAD, DHS_OK
  <2>3. OnlyHandle(DHS_OK, l, a) = good
    BY <2>1, <2>2 DEF OnlyHandle
  <2> QED BY <1>8, <2>3 DEF Statuses, FreshStatus
<1> QED BY <1>3, <1>4, <1>5, <1>6, <1>7, <1>8

\* A command that runs ends the same way in every library that lives.
LEMMA TclRuns ==
  ASSUME TypeOK, NEW a \in Args, TclHandleKnown(a), NEW h \in [Libs -> TclHandles], Runs(a, h)
  PROVE  TypeOK' /\ LibrariesAgree' /\ GoodCommandsSucceed'
<1> DEFINE dies == {l \in Libs : alive[l] /\ CopiesNull(FreshStatus(l), l, a)}
           here == {l \in Libs : alive[l]} \ dies
<1>1. PICK s \in [here -> {DHS_OK, DHS_ERROR}] :
        /\ \A l \in here : s[l] \in Statuses(l, a)
        /\ alive' = [l \in Libs |-> alive[l] /\ l \notin dies]
        /\ dhsLstat' = [l \in Libs |-> IF l \in here THEN s[l] ELSE dhsLstat[l]]
        /\ result' = [l \in Libs |-> IF l \in here THEN Returned(s[l])
                                     ELSE IF l \in dies THEN "died" ELSE result[l]]
        /\ dhsID' = [l \in Libs |-> IF l \in here /\ Returned(s[l]) = "TCL_OK"
                                    THEN h[l] ELSE dhsID[l]]
        /\ last' = a
  BY DEF Runs
<1>2. \A l \in Libs : alive[l] \in BOOLEAN /\ dhsLstat[l] \in {DHS_OK, DHS_ERROR}
                      /\ dhsID[l] \in TclHandles /\ result[l] \in {"none", "TCL_OK", "TCL_ERROR", "died"}
  BY DEF TypeOK, TclHandles
<1>3. here \subseteq Libs /\ \A l \in here : alive[l] /\ s[l] \in {DHS_OK, DHS_ERROR}
  BY <1>1
<1> HIDE DEF dies, here
<1>4. \A x : Returned(x) \in {"TCL_OK", "TCL_ERROR"}
  BY DEF Returned
<1>5. TypeOK'
  <2>1. alive' \in [Libs -> BOOLEAN]
    BY <1>1
  <2>2. dhsLstat' \in [Libs -> {DHS_OK, DHS_ERROR}]
    BY <1>1, <1>2, <1>3
  <2>3. result' \in [Libs -> {"none", "TCL_OK", "TCL_ERROR", "died"}]
    BY <1>1, <1>2, <1>4
  <2>4. dhsID' \in [Libs -> TclHandles]
    BY <1>1, <1>2
  <2>5. last' \in Args
    BY <1>1
  <2> QED BY <2>1, <2>2, <2>3, <2>4, <2>5 DEF TypeOK, TclHandles
<1>6. Living' \subseteq here
  BY <1>1, <1>2 DEF Living, here
<1>7. \A l \in Living' : result'[l] = Returned(s[l])
  BY <1>1, <1>3, <1>6
<1>8. ASSUME ~TclExcepted(a)
      PROVE  \A l \in Living' : result'[l] = IF TclGood(a) THEN "TCL_OK" ELSE "TCL_ERROR"
  <2> SUFFICES ASSUME NEW l \in Living'
               PROVE  result'[l] = IF TclGood(a) THEN "TCL_OK" ELSE "TCL_ERROR"
    OBVIOUS
  <2>1. l \in here /\ l \in Libs /\ alive[l]
    BY <1>3, <1>6
  <2>2. s[l] = IF TclGood(a) THEN DHS_OK ELSE DHS_ERROR
    BY <2>1, <1>1, <1>8, TclStatuses
  <2> QED BY <2>2, <1>7 DEF Returned, STATUS_BAD, DHS_OK, DHS_ERROR
<1>9. LibrariesAgree'
  <2>1. ~TclExcepted(a) => \A l, m \in Living' : result'[l] = result'[m]
    BY <1>8
  <2>2. TclExcepted(a) = TclExcepted(last')
    BY <1>1
  <2> QED BY <2>1, <2>2 DEF LibrariesAgree, TclExcepted
<1>10. GoodCommandsSucceed'
  <2>1. Allowed(a) => ~TclExcepted(a) /\ TclGood(a)
    BY DEF Allowed, TclExcepted, TclGood
  <2> QED BY <2>1, <1>1, <1>8 DEF GoodCommandsSucceed, Allowed
<1> QED BY <1>5, <1>9, <1>10

LEMMA TclBadWords ==
  ASSUME TypeOK, NEW c, Plain(c) \in Args, BadWords(c)
  PROVE  TypeOK' /\ LibrariesAgree' /\ GoodCommandsSucceed'
<1>1. /\ result' = [l \in Libs |-> IF alive[l] THEN "TCL_ERROR" ELSE result[l]]
      /\ last' = [Plain(c) EXCEPT !.parsed = FALSE]
      /\ alive' = alive /\ dhsLstat' = dhsLstat /\ dhsID' = dhsID
  BY DEF BadWords
<1>2. last' \in Args /\ last'.parsed = FALSE
  BY <1>1 DEF Args, Plain
<1>3. \A l \in Living' : result'[l] = "TCL_ERROR"
  BY <1>1 DEF Living
<1>4. result' \in [Libs -> {"none", "TCL_OK", "TCL_ERROR", "died"}]
  BY <1>1 DEF TypeOK
<1>5. TypeOK'
  BY <1>1, <1>2, <1>4 DEF TypeOK
<1>6. LibrariesAgree'
  BY <1>3 DEF LibrariesAgree
<1>7. GoodCommandsSucceed'
  BY SMTT(60), <1>2 DEF GoodCommandsSucceed, Allowed
<1> QED BY <1>5, <1>6, <1>7

\* The arguments of the commands are arguments.
LEMMA TclPlain ==
  ASSUME NEW c \in {"none", "SysOpen", "SysClose", "OpenConnect", "CloseConnect", "OpenExp",
                    "CloseExp", "IOctl", "ReadImage", "PixelData", "MetaData"}
  PROVE  /\ Plain(c) \in Args
         /\ \A w \in Systems : [Plain(c) EXCEPT !.who = w] \in Args
         /\ \A own \in BOOLEAN :
              /\ [Plain(c) EXCEPT !.own = own] \in Args
              /\ \A e \in ExpIDs : [Plain(c) EXCEPT !.own = own, !.exp = e] \in Args
              /\ \A i \in IOCtls : [Plain(c) EXCEPT !.own = own, !.ioctl = i] \in Args
              /\ \A e \in ExpIDs, z \in Sizes, d \in {"fine", "failing"} :
                   [Plain(c) EXCEPT !.own = own, !.exp = e, !.size = z, !.disk = d] \in Args
<1>1. Plain(c) \in Args
  BY DEF Plain, Args, Systems, ExpIDs, IOCtls, Sizes
<1>2. \A w \in Systems : [Plain(c) EXCEPT !.who = w] \in Args
  BY <1>1 DEF Args
<1>3. ASSUME NEW own \in BOOLEAN PROVE [Plain(c) EXCEPT !.own = own] \in Args
  BY <1>1 DEF Args
<1>4. ASSUME NEW own \in BOOLEAN, NEW e \in ExpIDs
      PROVE  [Plain(c) EXCEPT !.own = own, !.exp = e] \in Args
  BY <1>1 DEF Args
<1>5. ASSUME NEW own \in BOOLEAN, NEW i \in IOCtls
      PROVE  [Plain(c) EXCEPT !.own = own, !.ioctl = i] \in Args
  BY <1>1 DEF Args
<1>6. ASSUME NEW own \in BOOLEAN, NEW e \in ExpIDs, NEW z \in Sizes, NEW d \in {"fine", "failing"}
      PROVE  [Plain(c) EXCEPT !.own = own, !.exp = e, !.size = z, !.disk = d] \in Args
  BY <1>1 DEF Args
<1> QED BY <1>1, <1>2, <1>3, <1>4, <1>5, <1>6

LEMMA TclRunsWith ==
  ASSUME TypeOK, NEW a \in Args, RunsWith(a)
  PROVE  TypeOK' /\ LibrariesAgree' /\ GoodCommandsSucceed'
<1>1. HasHandle(a) /\ Runs(a, dhsID) /\ dhsID \in [Libs -> TclHandles]
  BY DEF RunsWith, TypeOK, TclHandles
<1> QED BY <1>1, TclRuns DEF TclHandleKnown

LEMMA TclStep ==
  ASSUME TypeOK, Next
  PROVE  TypeOK' /\ LibrariesAgree' /\ GoodCommandsSucceed'
<1> DEFINE Goal == TypeOK' /\ LibrariesAgree' /\ GoodCommandsSucceed'
<1>1. /\ [l \in Libs |-> SysOpenHandle(l)] \in [Libs -> TclHandles]
      /\ [l \in Libs |-> DHS_SIMULATION_OK] \in [Libs -> TclHandles]
      /\ [l \in Libs |-> DHS_OK] \in [Libs -> TclHandles]
      /\ dhsID \in [Libs -> TclHandles]
  BY DEF TypeOK, TclHandles, SysOpenHandle, DHS_OK
<1>2. ASSUME NEW c \in {"SysOpen", "SysClose", "OpenConnect", "CloseConnect", "OpenExp",
                        "CloseExp", "IOctl", "ReadImage", "PixelData", "MetaData"}, BadWords(c)
      PROVE  Goal
  BY <1>2, TclPlain, TclBadWords
<1>3. ASSUME NEW w \in Systems, Runs([Plain("SysOpen") EXCEPT !.who = w], [l \in Libs |-> SysOpenHandle(l)])
      PROVE  Goal
  <2>1. [Plain("SysOpen") EXCEPT !.who = w] \in Args
    BY TclPlain
  <2>2. TclHandleKnown([Plain("SysOpen") EXCEPT !.who = w])
    BY DEF TclHandleKnown, Plain
  <2> QED BY SMTT(60), <1>1, <1>3, <2>1, <2>2, TclRuns
<1>4. ASSUME NEW w \in Systems,
             Runs([Plain("OpenConnect") EXCEPT !.who = w], [l \in Libs |-> DHS_SIMULATION_OK])
      PROVE  Goal
  <2>1. [Plain("OpenConnect") EXCEPT !.who = w] \in Args
    BY TclPlain
  <2>2. TclHandleKnown([Plain("OpenConnect") EXCEPT !.who = w])
    BY DEF TclHandleKnown, Plain
  <2> QED BY SMTT(60), <1>1, <1>4, <2>1, <2>2, TclRuns
<1>5. ASSUME dhsSysCloseTcl \/ dhsCloseConnectTcl \/ dhsReadImageTcl PROVE Goal
  <2>1. \A c \in {"SysClose", "CloseConnect", "ReadImage"} : \A own \in BOOLEAN :
           [Plain(c) EXCEPT !.own = own] \in Args
    BY TclPlain
  <2> QED BY <1>2, <1>5, <2>1, TclRunsWith DEF dhsSysCloseTcl, dhsCloseConnectTcl, dhsReadImageTcl
<1>6. ASSUME dhsOpenExpTcl PROVE Goal
  <2>1. ASSUME NEW own \in BOOLEAN, NEW e \in ExpIDs, NEW assigned \in BOOLEAN,
               HasHandle([Plain("OpenExp") EXCEPT !.own = own, !.exp = e]),
               Runs([Plain("OpenExp") EXCEPT !.own = own, !.exp = e],
                    IF assigned THEN [l \in Libs |-> DHS_OK] ELSE dhsID)
        PROVE  Goal
    <3>1. [Plain("OpenExp") EXCEPT !.own = own, !.exp = e] \in Args
      BY ZenonT(60), TclPlain
    <3>2. (IF assigned THEN [l \in Libs |-> DHS_OK] ELSE dhsID) \in [Libs -> TclHandles]
      BY <1>1
    <3> QED BY SMTT(60), <2>1, <3>1, <3>2, TclRuns DEF TclHandleKnown
  <2> QED BY <1>2, <1>6, <2>1 DEF dhsOpenExpTcl
<1>7. ASSUME dhsCloseExpTcl PROVE Goal
  <2>1. \A own \in BOOLEAN, e \in ExpIDs : [Plain("CloseExp") EXCEPT !.own = own, !.exp = e] \in Args
    BY TclPlain
  <2> QED BY ZenonT(60), <1>2, <1>7, <2>1, TclRunsWith DEF dhsCloseExpTcl
<1>8. ASSUME dhsIOctlTcl PROVE Goal
  <2>1. \A own \in BOOLEAN, i \in IOCtls : [Plain("IOctl") EXCEPT !.own = own, !.ioctl = i] \in Args
    BY ZenonT(60), TclPlain
  <2> QED BY ZenonT(60), <1>2, <1>8, <2>1, TclRunsWith DEF dhsIOctlTcl
<1>9. ASSUME dhsMetaDataTcl \/ dhsPixelDataTcl PROVE Goal
  <2>1. \A c \in {"MetaData", "PixelData"} :
          \A own \in BOOLEAN, e \in ExpIDs, z \in Sizes, d \in {"fine", "failing"} :
            [Plain(c) EXCEPT !.own = own, !.exp = e, !.size = z, !.disk = d] \in Args
    BY ZenonT(30), TclPlain
  <2> QED BY ZenonT(60), <1>2, <1>9, <2>1, TclRunsWith DEF dhsMetaDataTcl, dhsPixelDataTcl
<1> HIDE DEF Goal
<1>10. dhsSysOpenTcl \/ dhsOpenConnectTcl => Goal
  BY <1>2, <1>3, <1>4 DEF dhsSysOpenTcl, dhsOpenConnectTcl
<1>11. Goal
  BY <1>5, <1>6, <1>7, <1>8, <1>9, <1>10 DEF Next
<1> QED BY <1>11 DEF Goal

LEMMA TclInit == Init => TypeOK /\ LibrariesAgree /\ GoodCommandsSucceed
<1> SUFFICES ASSUME Init PROVE TypeOK /\ LibrariesAgree /\ GoodCommandsSucceed
  OBVIOUS
<1>1. last \in Args /\ last.cmd = "none"
  BY TclPlain DEF Init, Plain
<1>2. TypeOK
  BY <1>1 DEF Init, TypeOK
<1>3. LibrariesAgree
  BY DEF Init, LibrariesAgree, Living
<1>4. GoodCommandsSucceed
  BY <1>1 DEF GoodCommandsSucceed
<1> QED BY <1>2, <1>3, <1>4

TclInv == TypeOK /\ LibrariesAgree /\ GoodCommandsSucceed

LEMMA TclInductive == TclInv /\ [Next]_vars => TclInv'
<1> SUFFICES ASSUME TclInv, [Next]_vars PROVE TclInv'
  OBVIOUS
<1>1. CASE Next
  BY <1>1, TclStep DEF TclInv
<1>2. CASE UNCHANGED vars
  BY <1>2 DEF vars, TclInv, TypeOK, LibrariesAgree, GoodCommandsSucceed, Living
<1> QED BY <1>1, <1>2

\* One script runs over every library: whatever a script did before, a command ends the same way
\* in all of the interpreters that live, but for the checks in which the libraries differ.
THEOREM OneScriptForAll == Spec => []ScriptsPortable
<1>1. TclInv => ScriptsPortable
  BY DEF TclInv, ScriptsPortable
<1>2. Init => TclInv
  BY TclInit DEF TclInv
<1> QED BY <1>1, <1>2, TclInductive, PTL DEF Spec

\* Failures are forgotten: a command with good arguments succeeds, whatever failed before it.
THEOREM FailuresForgotten == Spec => []GoodCommandsSucceed
<1>1. TclInv => GoodCommandsSucceed
  BY DEF TclInv
<1>2. Init => TclInv
  BY TclInit DEF TclInv
<1> QED BY <1>1, <1>2, TclInductive, PTL DEF Spec

=============================================================================
