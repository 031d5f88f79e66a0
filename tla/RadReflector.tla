---------------------------- MODULE RadReflector ----------------------------
(***************************************************************************)
(* How a process sends to itself (radqueue.c).  radQueueSend writes the    *)
(* header of such a message into a second FIFO, the reflector; a forked    *)
(* child, dummyChild, copies the reflector into the process's own FIFO,    *)
(* 256 bytes at a time, while other processes write into that FIFO too.    *)
(* A FIFO is a sequence of units of a header, because dummyChild does not  *)
(* know where a header ends.                                               *)
(***************************************************************************)
EXTENDS Integers, Sequences, FiniteSets

CONSTANTS
    HdrUnits,               \* sizeof (QMSG_HDR), in units
    ChunkUnits,             \* sizeof (buffer) of dummyChild: 256 bytes
    FifoUnits,              \* what a FIFO holds
    MaxSelf, MaxOther,      \* bounds: messages from the process itself, from others
    SelfWindow              \* messages to itself a process lets wait

ASSUME ReflAssumption ==
    /\ HdrUnits \in Nat \ {0} /\ ChunkUnits >= HdrUnits /\ FifoUnits >= ChunkUnits
    /\ {ChunkUnits, FifoUnits, SelfWindow} \subseteq Nat

VARIABLES
    reflector, ownFifo,     \* the two FIFOs: sequences of [from, id, part]
    childHas,               \* what dummyChild has read and not yet written
    childUp, masterUp,      \* the two processes run
    sentSelf, sentOther,    \* messages sent so far
    received                \* headers radQueueRecv has accepted

reflVars == <<reflector, ownFifo, childHas, childUp, masterUp, sentSelf, sentOther, received>>

Header(from, id) == [k \in 1 .. HdrUnits |-> [from |-> from, id |-> id, part |-> k]]

Least(a, b) == IF a < b THEN a ELSE b

\* Messages to itself that have not come back.
Back == {i \in DOMAIN received : received[i][1].from = "self"}
Waiting == sentSelf - Cardinality(Back)

\* radQueueSend to the own name; the write is atomic.
SelfSend ==
    /\ masterUp /\ sentSelf < MaxSelf /\ Waiting < SelfWindow
    /\ Len(reflector) + HdrUnits <= FifoUnits
    /\ reflector' = reflector \o Header("self", sentSelf + 1)
    /\ sentSelf' = sentSelf + 1
    /\ UNCHANGED <<ownFifo, childHas, childUp, masterUp, sentOther, received>>

\* radQueueSend of another process
OtherSend ==
    /\ masterUp /\ sentOther < MaxOther
    /\ Len(ownFifo) + HdrUnits <= FifoUnits
    /\ ownFifo' = ownFifo \o Header("other", sentOther + 1)
    /\ sentOther' = sentOther + 1
    /\ UNCHANGED <<reflector, childHas, childUp, masterUp, sentSelf, received>>

\* What one read returns, and when it returns the end of the file.
OneUnit == 1
ReadSize == Least(ChunkUnits, Len(reflector))
NeverEnds == FALSE
EndOfReflector == reflector = <<>> /\ ~masterUp

\* dummyChild reads what is there, at most a buffer full.  The end of the
\* reflector, once its only writer is gone, ends the child.
ChildRead ==
    /\ childUp /\ childHas = <<>>
    /\ \/ /\ reflector # <<>>
          /\ LET n == ReadSize IN
             /\ childHas' = SubSeq(reflector, 1, n)
             /\ reflector' = SubSeq(reflector, n + 1, Len(reflector))
          /\ UNCHANGED childUp
       \/ /\ EndOfReflector
          /\ childUp' = FALSE
          /\ UNCHANGED <<reflector, childHas>>
    /\ UNCHANGED <<ownFifo, masterUp, sentSelf, sentOther, received>>

\* The process's own FIFO after the write.
Reflected == ownFifo \o childHas

\* ... and writes it in one piece; without a reader SIGPIPE ends it.
ChildWrite ==
    /\ childUp /\ childHas # <<>>
    /\ childHas' = <<>>
    /\ \/ /\ masterUp /\ Len(ownFifo) + Len(childHas) <= FifoUnits
          /\ ownFifo' = Reflected
          /\ UNCHANGED childUp
       \/ /\ ~masterUp
          /\ childUp' = FALSE
          /\ UNCHANGED ownFifo
    /\ UNCHANGED <<reflector, masterUp, sentSelf, sentOther, received>>

\* radQueueRecv reads up to a header.  Less than a header is dropped.
ReflRecv ==
    /\ masterUp /\ ownFifo # <<>>
    /\ LET n == Least(HdrUnits, Len(ownFifo)) IN
        /\ ownFifo' = SubSeq(ownFifo, n + 1, Len(ownFifo))
        /\ received' = IF n = HdrUnits THEN Append(received, SubSeq(ownFifo, 1, n)) ELSE received
    /\ UNCHANGED <<reflector, childHas, childUp, masterUp, sentSelf, sentOther>>

\* radQueueExit closes both FIFOs and kills the child; a process that dies
\* without it leaves the child to find out.
MasterExit ==
    /\ masterUp /\ masterUp' = FALSE
    /\ \E killed \in BOOLEAN : childUp' = (childUp /\ ~killed)
    /\ ownFifo' = <<>>
    /\ UNCHANGED <<reflector, childHas, sentSelf, sentOther, received>>

ReflInit ==
    /\ reflector = <<>> /\ ownFifo = <<>> /\ childHas = <<>>
    /\ childUp = TRUE /\ masterUp = TRUE
    /\ sentSelf = 0 /\ sentOther = 0 /\ received = <<>>

ReflNext == SelfSend \/ OtherSend \/ ChildRead \/ ChildWrite \/ ReflRecv \/ MasterExit

ReflSpec == ReflInit /\ [][ReflNext]_reflVars

-----------------------------------------------------------------------------
\* dummyChild must "reflect data back to my master process": every header that
\* radQueueRecv accepts is one that somebody sent, not a splice of two.
HeadersWhole ==
    \A i \in DOMAIN received :
        received[i] = Header(received[i][1].from, received[i][1].id)

\* The child never outlives the process it serves for good.
ChildEnds == ~masterUp ~> ~childUp

\* A process that sends to itself gets the message back, or exits.
SelfSentComesBack == \A n \in 1 .. MaxSelf : sentSelf >= n ~> (Waiting < 1 \/ ~masterUp)

\* The reflector works as long as its process does, and no longer.
ReflectorWorks == ChildEnds /\ SelfSentComesBack
===============================================================================
