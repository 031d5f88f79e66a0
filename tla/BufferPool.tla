------------------------------ MODULE BufferPool ------------------------------
(***************************************************************************)
(* What radlib's buffer library promises to its clients: a pool of buffers *)
(* of several sizes out of which a request gets the best fit that is free, *)
(* and fails only when nothing free is large enough.  RadBuffers           *)
(* implements it with free lists in shared memory.                         *)
(***************************************************************************)
EXTENDS Naturals

CONSTANTS
    PoolProcs,              \* the processes that use the pool
    PoolRequests            \* the sizes they ask for, none of them 0

VARIABLES
    bufSize,                \* buffer -> its size; the empty function before the pool exists
    bufFree,                \* the buffers nobody owns
    bufAsked,               \* process -> the size it is waiting for, 0 when it is not
    bufLent                 \* process -> the buffers it owns

poolVars == <<bufSize, bufFree, bufAsked, bufLent>>

PoolInit ==
    /\ bufSize = <<>>
    /\ bufFree = {}
    /\ bufAsked = [p \in PoolProcs |-> 0]
    /\ bufLent = [p \in PoolProcs |-> {}]

\* The pool comes into being with every buffer free.
PoolCreate ==
    /\ bufSize = <<>>
    /\ bufFree' = DOMAIN bufSize'
    /\ UNCHANGED <<bufAsked, bufLent>>

PoolAsk(p) ==
    /\ bufAsked[p] = 0
    /\ \E size \in PoolRequests : bufAsked' = [bufAsked EXCEPT ![p] = size]
    /\ UNCHANGED <<bufSize, bufFree, bufLent>>

LargeEnough(p) == {b \in bufFree : bufSize[b] >= bufAsked[p]}

\* A request is answered with a smallest free buffer that is large enough.
PoolTake(p) ==
    /\ bufAsked[p] # 0
    /\ \E b \in LargeEnough(p) :
        /\ \A c \in LargeEnough(p) : bufSize[b] <= bufSize[c]
        /\ bufFree' = bufFree \ {b}
        /\ bufLent' = [bufLent EXCEPT ![p] = @ \cup {b}]
    /\ bufAsked' = [bufAsked EXCEPT ![p] = 0]
    /\ UNCHANGED bufSize

\* It is refused only when no free buffer is large enough.
PoolRefuse(p) ==
    /\ bufAsked[p] # 0
    /\ LargeEnough(p) = {}
    /\ bufAsked' = [bufAsked EXCEPT ![p] = 0]
    /\ UNCHANGED <<bufSize, bufFree, bufLent>>

PoolGive(p) ==
    \E b \in bufLent[p] :
        /\ bufFree' = bufFree \cup {b}
        /\ bufLent' = [bufLent EXCEPT ![p] = @ \ {b}]
        /\ UNCHANGED <<bufSize, bufAsked>>

PoolNext ==
    \/ PoolCreate
    \/ \E p \in PoolProcs : PoolAsk(p) \/ PoolTake(p) \/ PoolRefuse(p) \/ PoolGive(p)

PoolSpec == PoolInit /\ [][PoolNext]_poolVars
===============================================================================
