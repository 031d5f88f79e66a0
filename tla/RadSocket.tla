------------------------------ MODULE RadSocket ------------------------------
(***************************************************************************)
(* The stream sockets of radlib, src/radsocket.c: one server socket, the   *)
(* clients that connect to it and the sockets it accepts for them.  An id  *)
(* stands for a RADSOCK object; a connection is named by the client that   *)
(* made it, and has two directions.  Data are units, numbered in the order *)
(* in which the caller of radSocketWriteExact put them in its buffers.     *)
(*                                                                         *)
(* The kernel takes and gives any part of what a call asks for, a signal   *)
(* (the SIGALRM of radtimers.c) may interrupt a read, and setup calls may  *)
(* fail.  A client that waits in select for its connect can be answered,   *)
(* refused, or not answered for 3 seconds.                                 *)
(***************************************************************************)
EXTENDS Naturals, Sequences, FiniteSets

CONSTANTS
    SockIds,        \* the objects
    IoLen,          \* units of one ReadExact or WriteExact
    StreamRoom,     \* units the kernel holds for one direction
    MaxWrites       \* bound: WriteExact calls of one socket

NoSock == "none"
NoIo == [op |-> "none"]

ASSUME SockAssumption ==
    /\ IoLen \in Nat \ {0} /\ StreamRoom \in Nat /\ MaxWrites \in Nat
    /\ NoSock \notin SockIds

VARIABLES
    sockFd,         \* ids whose descriptor is open
    sockHeld,       \* ids that a caller has
    listener,       \* the listening server, or NoSock
    sockConn,       \* the connection of each id, named by its client, or NoSock
    connecting,     \* clients inside radSocketClientCreate, waiting in select
    answer,         \* what became of the connect of a client
    pending,        \* connections accept has not returned yet
    nonBlock,       \* ids with O_NONBLOCK
    askedNonBlock,  \* ids whose caller asked for it
    sockIo,         \* the ReadExact or WriteExact that each id is inside
    stream,         \* the units under way in each direction
    got,            \* what ReadExact returned, per direction
    noWrites,       \* WriteExact calls of each id
    ioFailed,       \* directions on which a call returned ERROR
    wouldBlock      \* ids of which a ReadExact stopped at EAGAIN since the mode was set

sockVars == <<sockFd, sockHeld, listener, sockConn, connecting, answer, pending, nonBlock,
              askedNonBlock, sockIo, stream, got, noWrites, ioFailed, wouldBlock>>
setupVars == <<sockFd, sockHeld, listener, sockConn, connecting, answer, pending>>
modeVars == <<nonBlock, askedNonBlock>>
dataVars == <<sockIo, stream, got, noWrites, ioFailed, wouldBlock>>

Directions == SockIds \X {"up", "down"}

\* Clients send up, accepted sockets down.
OutOf(i) == <<sockConn[i], IF sockConn[i] = i THEN "up" ELSE "down">>
Into(i) == <<sockConn[i], IF sockConn[i] = i THEN "down" ELSE "up">>

SockInit ==
    /\ sockFd = {} /\ sockHeld = {} /\ listener = NoSock
    /\ sockConn = [i \in SockIds |-> NoSock]
    /\ connecting = {}
    /\ answer = [i \in SockIds |-> "none"]
    /\ pending = {}
    /\ nonBlock = {} /\ askedNonBlock = {}
    /\ sockIo = [i \in SockIds |-> NoIo]
    /\ stream = [d \in Directions |-> << >>]
    /\ got = [d \in Directions |-> << >>]
    /\ noWrites = [i \in SockIds |-> 0]
    /\ ioFailed = {}
    /\ wouldBlock = {}

-----------------------------------------------------------------------------
\* An object that malloc may return; ids are not used again.
Unused(i) == i \notin sockFd \cup sockHeld /\ answer[i] = "none" /\ sockConn[i] = NoSock

\* close and free on the way out of a failed create.
GivenUp(fds, i) == fds \ {i}

\* socket, setsockopt, bind and listen: any of them fails, and bind does when the
\* port is taken.
radSocketServerCreate(i) ==
    /\ Unused(i)
    /\ \/ /\ listener = NoSock
          /\ listener' = i
          /\ sockFd' = sockFd \cup {i}
          /\ sockHeld' = sockHeld \cup {i}
       \/ /\ sockFd' = GivenUp(sockFd \cup {i}, i)
          /\ UNCHANGED <<listener, sockHeld>>
    /\ UNCHANGED <<sockConn, connecting, answer, pending, modeVars, dataVars>>

\* accept, and TCP_NODELAY, whose failure closes the connection again.
radSocketServerAcceptConnection(i) ==
    /\ Unused(i) /\ listener # NoSock
    /\ \E c \in pending :
         /\ pending' = pending \ {c}
         /\ \/ /\ sockFd' = sockFd \cup {i}
               /\ sockHeld' = sockHeld \cup {i}
               /\ sockConn' = [sockConn EXCEPT ![i] = c]
            \/ /\ sockFd' = GivenUp(sockFd \cup {i}, i)
               /\ UNCHANGED <<sockHeld, sockConn>>
    /\ UNCHANGED <<listener, connecting, answer, modeVars, dataVars>>

\* radSocketClientCreate up to connect, which the kernel puts in progress (a
\* connect that completes is one answered at once): the
\* descriptor does not block from here on.  Failures before that, and a connect
\* refused at once, give up.
ClientConnects(i) ==
    /\ Unused(i)
    /\ \/ /\ sockFd' = sockFd \cup {i}
          /\ connecting' = connecting \cup {i}
          /\ answer' = [answer EXCEPT ![i] = "awaited"]
          /\ nonBlock' = nonBlock \cup {i}
       \/ /\ sockFd' = GivenUp(sockFd \cup {i}, i)
          /\ answer' = [answer EXCEPT ![i] = "given up"]
          /\ UNCHANGED <<connecting, nonBlock>>
    /\ UNCHANGED <<sockHeld, listener, sockConn, pending, askedNonBlock, dataVars>>

\* The network: the server's kernel answers, or the host refuses.
ConnectAnswered(i) ==
    /\ i \in connecting /\ answer[i] = "awaited"
    /\ \/ /\ listener # NoSock
          /\ answer' = [answer EXCEPT ![i] = "connected"]
          /\ sockConn' = [sockConn EXCEPT ![i] = i]
          /\ pending' = pending \cup {i}
       \/ /\ answer' = [answer EXCEPT ![i] = "refused"]
          /\ UNCHANGED <<sockConn, pending>>
    /\ UNCHANGED <<sockFd, sockHeld, listener, connecting, modeVars, dataVars>>

\* The flag fcntl sets: blocking again.
Blocking(set, i) == set \ {i}

\* select wakes up on an answer of either kind: SO_ERROR is read and its value
\* not looked at, so a refused client is returned like a connected one.
ClientSelected(i) ==
    /\ i \in connecting /\ answer[i] \in {"connected", "refused"}
    /\ connecting' = connecting \ {i}
    /\ nonBlock' = Blocking(nonBlock, i)
    /\ sockHeld' = sockHeld \cup {i}
    /\ UNCHANGED <<sockFd, listener, sockConn, answer, pending, askedNonBlock, dataVars>>

\* The 3 seconds are over or select is interrupted, answered or not; or one of
\* the calls after it fails.
ClientGivesUp(i) ==
    /\ i \in connecting
    /\ connecting' = connecting \ {i}
    /\ sockFd' = GivenUp(sockFd, i)
    /\ nonBlock' = nonBlock \ {i}
    /\ answer' = [answer EXCEPT ![i] = "given up"]
    /\ UNCHANGED <<sockHeld, listener, sockConn, pending, askedNonBlock, dataVars>>

radSocketClientCreate(i) == ClientConnects(i) \/ ClientSelected(i) \/ ClientGivesUp(i)

\* shutdown, close and free; the connections a listener has not accepted are reset.
radSocketDestroy(i) ==
    /\ i \in sockHeld /\ sockIo[i] = NoIo
    /\ sockHeld' = sockHeld \ {i}
    /\ sockFd' = sockFd \ {i}
    /\ listener' = IF listener = i THEN NoSock ELSE listener
    /\ pending' = IF listener = i THEN {} ELSE pending
    /\ nonBlock' = nonBlock \ {i}
    /\ askedNonBlock' = askedNonBlock \ {i}
    /\ wouldBlock' = wouldBlock \ {i}
    /\ UNCHANGED <<sockConn, connecting, answer, sockIo, stream, got, noWrites, ioFailed>>

radSocketSetBlocking(i, isBlocking) ==
    /\ i \in sockHeld /\ i # listener /\ sockIo[i] = NoIo
    /\ nonBlock' = IF isBlocking THEN Blocking(nonBlock, i) ELSE nonBlock \cup {i}
    /\ askedNonBlock' = IF isBlocking THEN askedNonBlock \ {i} ELSE askedNonBlock \cup {i}
    /\ wouldBlock' = wouldBlock \ {i}
    /\ UNCHANGED <<setupVars, sockIo, stream, got, noWrites, ioFailed>>

-----------------------------------------------------------------------------
Starts(i) == i \in sockHeld /\ sockConn[i] # NoSock /\ sockIo[i] = NoIo
OtherEnd(i) == {j \in SockIds : j # i /\ sockConn[j] = sockConn[i]}

\* The far end exists, or is still to be accepted.
FarEndOpen(i) == sockConn[i] \in pending \/ OtherEnd(i) \cap sockFd # {}

WriteStarts(i) ==
    /\ Starts(i) /\ noWrites[i] < MaxWrites
    /\ noWrites' = [noWrites EXCEPT ![i] = @ + 1]
    /\ sockIo' = [sockIo EXCEPT ![i] = [op |-> "write", done |-> 0]]
    /\ UNCHANGED <<setupVars, modeVars, stream, got, ioFailed, wouldBlock>>

\* The n units from bPtr + bytesWritten.
FromStart(i, n) == [k \in 1..n |-> (noWrites[i] - 1) * IoLen + k]   \* mutant: always bPtr
UnitsAt(i, n) == [k \in 1..n |-> (noWrites[i] - 1) * IoLen + sockIo[i].done + k]

\* One write of the loop, which ends when all is written.
WriteSome(i) ==
    /\ sockIo[i].op = "write"
    /\ FarEndOpen(i)
    /\ \E n \in 1..(IoLen - sockIo[i].done) :
         /\ Len(stream[OutOf(i)]) + n <= StreamRoom
         /\ stream' = [stream EXCEPT ![OutOf(i)] = @ \o UnitsAt(i, n)]
         /\ sockIo' = [sockIo EXCEPT ![i] = IF @.done + n = IoLen THEN NoIo
                                            ELSE [op |-> "write", done |-> @.done + n]]
    /\ UNCHANGED <<setupVars, modeVars, got, noWrites, ioFailed, wouldBlock>>

\* Any error ends the call with ERROR, whatever was written: an interrupted write,
\* a full stream of a socket that does not block, a far end that is gone.
WriteFails(i) ==
    /\ sockIo[i].op = "write"
    /\ ioFailed' = ioFailed \cup {OutOf(i)}
    /\ sockIo' = [sockIo EXCEPT ![i] = NoIo]
    /\ UNCHANGED <<setupVars, modeVars, stream, got, noWrites, wouldBlock>>

radSocketWriteExact(i) == WriteStarts(i) \/ WriteSome(i) \/ WriteFails(i)

ReadStarts(i) ==
    /\ Starts(i)
    /\ sockIo' = [sockIo EXCEPT ![i] = [op |-> "read", buf |-> << >>]]
    /\ UNCHANGED <<setupVars, modeVars, stream, got, noWrites, ioFailed, wouldBlock>>

\* A read ends with how, and hands its caller the units in units.
ReadReturns(i, how, units) ==
    /\ got' = [got EXCEPT ![Into(i)] = @ \o units]
    /\ sockIo' = [sockIo EXCEPT ![i] = NoIo]
    /\ wouldBlock' = IF how = "EAGAIN" THEN wouldBlock \cup {i} ELSE wouldBlock

\* One read of the loop, which ends when the buffer is full.
ReadSome(i) ==
    /\ sockIo[i].op = "read"
    /\ \E n \in 1..Len(stream[Into(i)]) :
         LET now == sockIo[i].buf \o SubSeq(stream[Into(i)], 1, n)
         IN  /\ Len(now) <= IoLen
             /\ stream' = [stream EXCEPT ![Into(i)] = SubSeq(@, n + 1, Len(@))]
             /\ IF Len(now) = IoLen THEN ReadReturns(i, "all", now)
                ELSE /\ sockIo' = [sockIo EXCEPT ![i].buf = now]
                     /\ UNCHANGED <<got, wouldBlock>>
    /\ UNCHANGED <<setupVars, modeVars, noWrites, ioFailed>>

\* What a read that did not fill the buffer returns: bytesRead.
NothingRead(i) == << >>                        \* mutant: as if nothing had been read
ReadSoFar(i) == sockIo[i].buf

\* EAGAIN, EINTR and the far end closing return what there is.
ReadStops(i) ==
    /\ sockIo[i].op = "read"
    /\ \/ i \in nonBlock /\ stream[Into(i)] = << >> /\ ReadReturns(i, "EAGAIN", ReadSoFar(i))
       \/ stream[Into(i)] = << >> /\ FarEndOpen(i) /\ ReadReturns(i, "EINTR", ReadSoFar(i))
       \/ stream[Into(i)] = << >> /\ ~FarEndOpen(i) /\ ReadReturns(i, "closed", ReadSoFar(i))
    /\ UNCHANGED <<setupVars, modeVars, stream, noWrites, ioFailed>>

\* Any other error: what the loop read before it is lost with the buffer.
ReadFails(i) ==
    /\ sockIo[i].op = "read"
    /\ ReadReturns(i, "error", << >>)
    /\ ioFailed' = ioFailed \cup {Into(i)}
    /\ UNCHANGED <<setupVars, modeVars, stream, noWrites>>

radSocketReadExact(i) == ReadStarts(i) \/ ReadSome(i) \/ ReadStops(i) \/ ReadFails(i)

SockNext ==
    \E i \in SockIds :
        \/ radSocketServerCreate(i) \/ radSocketServerAcceptConnection(i)
        \/ radSocketClientCreate(i) \/ ConnectAnswered(i) \/ radSocketDestroy(i)
        \/ \E b \in BOOLEAN : radSocketSetBlocking(i, b)
        \/ radSocketWriteExact(i) \/ radSocketReadExact(i)

SockSpec == SockInit /\ [][SockNext]_sockVars

-----------------------------------------------------------------------------
\* The units that the calls of i put into the stream so far.
Accepted(i) == noWrites[i] * IoLen - (IF sockIo[i].op = "write" THEN IoLen - sockIo[i].done ELSE 0)

\* Until a call returns ERROR, what the readers were handed, what a read in
\* progress holds and what is under way is exactly what the writer's calls
\* wrote, in order: partial reads and writes, interrupted calls and mode
\* changes neither lose, repeat nor reorder a unit (radsocket.c:385, :424).
StreamWhole ==
    \A i \in SockIds : sockConn[i] # NoSock /\ OutOf(i) \notin ioFailed =>
        LET held == {j \in OtherEnd(i) : sockIo[j].op = "read"}
            buf == IF held = {} THEN << >> ELSE sockIo[CHOOSE j \in held : TRUE].buf
        IN  got[OutOf(i)] \o buf \o stream[OutOf(i)] = [k \in 1..Accepted(i) |-> k]

\* An open descriptor belongs to an object a caller has, or to a create that is
\* still running: no failing path of the three creates leaves one behind.
NoDescriptorLost == sockFd = sockHeld \cup connecting

\* A read of a socket comes back short because it would block only if its caller
\* set it non-blocking: the mode that radSocketClientCreate needs for its own
\* connect never shows (radsocket.c:286).
ShortReadHasCause == wouldBlock \subseteq askedNonBlock

\* A connection neither loses data nor descriptors, and what comes back short
\* does so for a reason the caller knows.
ConnectionsKept == StreamWhole /\ NoDescriptorLost /\ ShortReadHasCause
===============================================================================
