---------------------------- MODULE ProtoTransfer ----------------------------
(***************************************************************************)
(* The transfer prototype of monsoon_api.  A sender is one run of the      *)
(* driver: it calls dhsSendPixelData (send_pixel.c), dhsSendMetaData       *)
(* (send_meta.c) and pipeSendPixelData (proto.c) one after the other with  *)
(* one status variable.  The first two append a header and a block to a    *)
(* file named after the exposure; the third sends the block over a         *)
(* connection to the server (proto_server.c), which serves one connection  *)
(* at a time and appends what it reads to mm_test.                         *)
(*                                                                         *)
(* A block is BlkSize units; a disk has room for a number of units and is  *)
(* never emptied, so that a write stores what still fits; any write may    *)
(* fail.  An exposure is a number of millionths of an exposure id.         *)
(***************************************************************************)
EXTENDS Integers, Sequences, FiniteSetsExt

CONSTANTS
    PtSenders,      \* the runs of the driver
    PtExposures,    \* exposure ids, in millionths
    BlkSize,        \* units of a block
    SrvBuf,         \* units the server reads at once (SOCKBUFSZ)
    DiskRoom,       \* units that fit on the senders' disk, and on the server's
    MaxPtSends      \* bound: calls of all senders together

ASSUME PtAssumption ==
    /\ PtExposures \subseteq Int
    /\ BlkSize \in Nat \ {0} /\ SrvBuf \in Nat \ {0} /\ DiskRoom \in Nat

VARIABLES
    sendStatus,     \* *status of each sender: -1, 0 or 1
    sendStep,       \* where a sender's current call is
    expFiles,       \* the exposure files: name -> the chunks written
    diskRoom,       \* room left on the senders' disk
    conns,          \* the connections, in the order of connect
    accepted,       \* connections accept has returned
    server,         \* "accept", "dead", or "read" for the last one accepted
    mmTest,         \* the units in the server's file: <<connection, unit>>
    srvRoom,        \* room left on the server's disk
    cutOff,         \* connections whose read failed
    noSends         \* calls so far

ptVars == <<sendStatus, sendStep, expFiles, diskRoom, conns, accepted, server, mmTest, srvRoom, cutOff, noSends>>
expFileVars == <<expFiles, diskRoom>>
srvVars == <<accepted, server, mmTest, srvRoom, cutOff>>

PtIdle == [at |-> "idle"]
PtGone == [at |-> "gone"]

\* "%8.6f" keeps every digit of an exposure id; "%6.5f" rounds the last one away.
PixelName(e) == <<"pixel", e>>
MetaName(e) == <<"meta", (e + 5) \div 10>>
FileNames == {PixelName(e) : e \in PtExposures} \cup {MetaName(e) : e \in PtExposures}

PtInit ==
    /\ sendStatus = [s \in PtSenders |-> 0]
    /\ sendStep = [s \in PtSenders |-> PtIdle]
    /\ expFiles = [n \in FileNames |-> << >>]
    /\ diskRoom = DiskRoom
    /\ conns = << >>
    /\ accepted = 0
    /\ server = "accept"
    /\ mmTest = << >>
    /\ srvRoom = DiskRoom
    /\ cutOff = {}
    /\ noSends = 0

(***************************************************************************)
(* The file senders.                                                       *)
(***************************************************************************)

\* "something upstream failed": the call returns and says nothing.
UpstreamIgnored(s) == FALSE                    \* mutant: send anyway
UpstreamFailed(s) == sendStatus[s] < 0

SendCalled(s) == /\ sendStep[s] = PtIdle
            /\ noSends < MaxPtSends
            /\ noSends' = noSends + 1

SendRefused(s) ==
    /\ SendCalled(s) /\ UpstreamFailed(s)
    /\ UNCHANGED <<sendStatus, sendStep, expFileVars, conns, srvVars>>

\* A call ends with this status.
SendReturns(s, st) ==
    /\ sendStatus' = [sendStatus EXCEPT ![s] = st]
    /\ sendStep' = [sendStep EXCEPT ![s] = PtIdle]

\* Up to the open of the file: chdir (of pixels only) or open may fail.
OpenExpFile(s, n) ==
    /\ SendCalled(s) /\ ~UpstreamFailed(s)
    /\ \/ /\ sendStep' = [sendStep EXCEPT ![s] = [at |-> "header", file |-> n, send |-> noSends']]
          /\ UNCHANGED sendStatus
       \/ SendReturns(s, -1)
    /\ UNCHANGED <<expFileVars, conns, srvVars>>

dhsSendPixelData(s, e) == OpenExpFile(s, PixelName(e))
dhsSendMetaData(s, e) == OpenExpFile(s, MetaName(e))

\* write() at the end of the file: what still fits, or -1.
AppendChunk(s, part, len) ==
    LET c == sendStep[s]
        k == Min({len, diskRoom})
    IN  /\ diskRoom > 0
        /\ expFiles' = [expFiles EXCEPT ![c.file] =
                            Append(@, [from |-> s, send |-> c.send, part |-> part, short |-> k < len])]
        /\ diskRoom' = diskRoom - k

\* -1: the disk is full, or any other error.
WriteFailed(s) == SendReturns(s, -1) /\ UNCHANGED expFileVars

WriteHeader(s) ==
    /\ sendStep[s].at = "header"
    /\ \/ /\ AppendChunk(s, "header", 1)
          /\ sendStep' = [sendStep EXCEPT ![s].at = "data"]
          /\ UNCHANGED sendStatus
       \/ WriteFailed(s)
    /\ UNCHANGED <<conns, srvVars, noSends>>

\* A short write is a success like a whole one.
WriteData(s) ==
    /\ sendStep[s].at = "data"
    /\ \/ AppendChunk(s, "data", BlkSize) /\ SendReturns(s, 1)
       \/ WriteFailed(s)
    /\ UNCHANGED <<conns, srvVars, noSends>>

(***************************************************************************)
(* The sender over the network: whatever fails up to connect ends the      *)
(* process, and so does a write to a server that is gone unless the        *)
(* connection was reset first.                                             *)
(***************************************************************************)
PipeConnect(s) ==
    /\ SendCalled(s) /\ ~UpstreamFailed(s)
    /\ \/ /\ server # "dead"
          /\ conns' = Append(conns, [from |-> s, left |-> 0, closed |-> FALSE])
          /\ sendStep' = [sendStep EXCEPT ![s] = [at |-> "pipe", conn |-> Len(conns')]]
       \/ /\ sendStep' = [sendStep EXCEPT ![s] = PtGone]
          /\ UNCHANGED conns
    /\ UNCHANGED <<sendStatus, expFileVars, srvVars>>

PipeWrite(s) ==
    /\ sendStep[s].at = "pipe"
    /\ \/ /\ server # "dead"
          /\ conns' = [conns EXCEPT ![sendStep[s].conn] =
                           [@ EXCEPT !.left = BlkSize, !.closed = TRUE]]
          /\ SendReturns(s, 1)
       \/ /\ server = "dead" /\ SendReturns(s, -1) /\ UNCHANGED conns
       \/ /\ server = "dead"
          /\ sendStep' = [sendStep EXCEPT ![s] = PtGone]
          /\ UNCHANGED <<sendStatus, conns>>
    /\ UNCHANGED <<expFileVars, srvVars, noSends>>

pipeSendPixelData(s) == PipeConnect(s) \/ PipeWrite(s)

(***************************************************************************)
(* The server.                                                             *)
(***************************************************************************)
\* accept, and the open of mm_test: either failing ends the server.
ServerAccepts ==
    /\ server = "accept"
    /\ accepted < Len(conns)
    /\ accepted' = accepted + 1
    /\ server' \in {"read", "dead"}
    /\ UNCHANGED <<sendStatus, sendStep, expFileVars, conns, mmTest, srvRoom, cutOff, noSends>>

\* Of the buffer, the n units just read are written.
UnitsWritten(n) == n

\* One read and the write of what it returned: a short write is not noticed.
ServerCopies ==
    /\ server = "read"
    /\ \E n \in 1..Min({SrvBuf, conns[accepted].left}) :
         LET from == BlkSize - conns[accepted].left
             k == Min({UnitsWritten(n), srvRoom})
         IN  /\ conns' = [conns EXCEPT ![accepted].left = @ - n]
             /\ mmTest' = mmTest \o [i \in 1..k |-> <<accepted, from + i>>]
             /\ srvRoom' = srvRoom - k
             /\ server' = IF srvRoom = 0 THEN "dead" ELSE "read"
    /\ UNCHANGED <<sendStatus, sendStep, expFileVars, accepted, cutOff, noSends>>

\* read returns 0 once the sender closed its end and everything was read.
NothingNow(c) == conns[c].left = 0             \* mutant: nothing to read is the end
EndOfInput(c) == conns[c].left = 0 /\ conns[c].closed

\* A read that fails ends the loop as the end of the input does.
ServerCloses ==
    /\ server = "read"
    /\ \/ EndOfInput(accepted) /\ UNCHANGED cutOff
       \/ cutOff' = cutOff \cup {accepted}
    /\ server' = "accept"
    /\ UNCHANGED <<sendStatus, sendStep, expFileVars, conns, accepted, mmTest, srvRoom, noSends>>

proto_server == ServerAccepts \/ ServerCopies \/ ServerCloses

PtNext ==
    \/ \E s \in PtSenders :
         \/ \E e \in PtExposures : dhsSendPixelData(s, e) \/ dhsSendMetaData(s, e)
         \/ WriteHeader(s) \/ WriteData(s) \/ pipeSendPixelData(s) \/ SendRefused(s)
    \/ proto_server

PtSpec == PtInit /\ [][PtNext]_ptVars

-----------------------------------------------------------------------------
\* A file that one sender wrote can be read back: headers and blocks alternate,
\* and only the end of the file may be a header without its block or a block
\* cut short.  It rests on the status that stops a sender after its first
\* failure (send_pixel.c:31) and on a full disk staying full.
FilesReadable ==
    \A f \in FileNames : LET ch == expFiles[f] IN
        (\A i, j \in DOMAIN ch : ch[i].from = ch[j].from) =>
            \A i \in DOMAIN ch :
                /\ ch[i].part = (IF i % 2 = 1 THEN "header" ELSE "data")
                /\ ch[i].part = "data" => ch[i].send = ch[i - 1].send
                /\ ch[i].short => i = Len(ch)

\* mm_test holds the connections one after the other, each in the order it was
\* sent: nothing of one sender's block stands inside another's.
BlocksContiguous ==
    \A i \in 1..(Len(mmTest) - 1) :
        \/ mmTest[i + 1] = <<mmTest[i][1], mmTest[i][2] + 1>>
        \/ mmTest[i + 1][1] > mmTest[i][1] /\ mmTest[i + 1][2] = 1

\* The server is done with a connection only when all that its sender could
\* write is in mm_test, unless the read failed or the disk was full.
ServedIsStored ==
    \A c \in 1..accepted :
        (c # accepted \/ server = "accept") /\ c \notin cutOff /\ srvRoom > 0 =>
            /\ conns[c].closed
            /\ \A u \in 1..(BlkSize - conns[c].left) : \E i \in DOMAIN mmTest : mmTest[i] = <<c, u>>

\* What the server has made of a connection: the whole of it, in one piece.
ServedInOnePiece == BlocksContiguous /\ ServedIsStored
===============================================================================
