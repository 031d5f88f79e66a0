------------------------------ MODULE RadBuffers ------------------------------
(***************************************************************************)
(* radlib's system buffers (radbuffers.c): a shared segment cut into pools *)
(* of buffers whose sizes are powers of two, one free list per pool, one   *)
(* semaphore around the lists.  A buffer is named by the offset of its     *)
(* header.  The free lists are linked through the headers; only their      *)
(* order shows, so a list is a sequence.                                   *)
(***************************************************************************)
EXTENDS Integers, Sequences, FiniteSets, SequencesExt, FiniteSetsExt, Functions

CONSTANTS
    BufProcs,               \* processes attached to the segment
    BufConfigs,             \* [min, max, each]: the arguments of radBuffersInit
    Requests,               \* sizes the clients ask for
    MaxBfrSizes,            \* MAX_BFR_SIZES
    ShareBytes, HdrBytes    \* sizeof (BUFFER_SHARE), sizeof (BFR_HDR)

NoProc == "no process"
NoBuf  == 0

ASSUME BufAssumption ==
    /\ NoProc \notin BufProcs
    /\ MaxBfrSizes \in Nat \ {0}
    /\ ShareBytes \in Nat \ {0} /\ HdrBytes \in Nat
    /\ Requests \subseteq Nat \ {0}
    /\ \A c \in BufConfigs : /\ c.min \in Nat /\ c.max \in Int
                             /\ c.each \in Seq(Int) /\ Len(c.each) = MaxBfrSizes

VARIABLES
    share,                  \* BUFFER_SHARE: numSizes, sizes, count, the offsets and the end
    pool,                   \* pool index -> free list, front first
    allocated,              \* buffer -> hdr->allocated
    bufLock,                \* holder of SEM_INDEX_BUFFERS
    bufPc, bufReg,          \* where a process is inside a call, and with which buffer or size
    bufHeld                 \* the buffers a process owns between calls

bufVars == <<share, pool, allocated, bufLock, bufPc, bufReg, bufHeld>>

Pools == 0 .. MaxBfrSizes - 1

-----------------------------------------------------------------------------
(* The layout *)

\* 0x10, 0x20, ...
PowerOf2[k \in Nat] == IF k = 0 THEN 16 ELSE 2 * PowerOf2[k - 1]

\* Sizes start at the first of them that is not below the minimum, and double.
StartsAt(min) == Min({k \in 0 .. min : PowerOf2[k] >= min})
SizeAt(c, i) == PowerOf2[StartsAt(c.min) + i]

\* The loop that cuts the segment: it ends at a count of 0, after MAX_BFR_SIZES
\* pools, or after the first size that is not below the maximum.
NumSizes(c) ==
    Max({n \in 0 .. MaxBfrSizes :
            \A i \in 0 .. n - 1 :
                /\ c.each[i + 1] > 0
                /\ i < n - 1 => SizeAt(c, i) < c.max})

\* offsets[i]: the bytes of pool i
PoolBytes(size, n) == (size + HdrBytes) * n

Layout(c) ==
    LET n == NumSizes(c)
        size == [i \in Pools |-> IF i < n THEN SizeAt(c, i) ELSE 0]
        first[i \in 0 .. n] == IF i = 0 THEN ShareBytes
                               ELSE first[i - 1] + PoolBytes(size[i - 1], c.each[i])
    IN  [numSizes |-> n, sizes |-> size,
         count |-> [i \in Pools |-> IF i < n THEN c.each[i + 1] ELSE 0],
         first |-> first, end |-> first[n]]

\* The buffers of pool i, in the order in which the free list is built.
InitialList(s, i) ==
    IF i < s.numSizes
    THEN [j \in 1 .. s.count[i] |-> s.first[i] + (j - 1) * (HdrBytes + s.sizes[i])]
    ELSE <<>>

NoShare == [numSizes |-> 0, sizes |-> [i \in Pools |-> 0], count |-> [i \in Pools |-> 0],
            first |-> <<>>, end |-> 0]

\* hdr->sizeIndex
SizeIndex(b) == CHOOSE i \in 0 .. share.numSizes - 1 :
                    b \in Range(InitialList(share, i))

Buffers == DOMAIN allocated

-----------------------------------------------------------------------------
(* radBuffersInit: the first process lays the segment out, later ones attach;  *)
(* radSystemInit calls it inside the system's critical section (RadSystem).    *)

BuffersInit(c) ==
    /\ share = NoShare
    /\ c.max > 0
    /\ LET s == Layout(c) IN
        /\ share' = s
        /\ pool' = [i \in Pools |-> InitialList(s, i)]
        /\ allocated' = [b \in UNION {Range(InitialList(s, i)) : i \in Pools} |-> 0]
    /\ UNCHANGED <<bufLock, bufPc, bufReg, bufHeld>>

BufGoto(p, from, to) ==
    /\ bufPc[p] = from
    /\ bufPc' = [bufPc EXCEPT ![p] = to]

-----------------------------------------------------------------------------
(* radBufferGet *)

GetLock(p, size) ==
    /\ share # NoShare
    /\ bufLock = NoProc /\ bufLock' = p
    /\ BufGoto(p, "idle", "get")
    /\ bufReg' = [bufReg EXCEPT ![p] = size]
    /\ UNCHANGED <<share, pool, allocated, bufHeld>>

\* The pools a request may be served from: those from the first that is large
\* enough on.  A size of 0 ends the table.
FittingLarger(size) == {i \in Pools : i < share.numSizes /\ share.sizes[i] > size}
Fitting(size) == {i \in Pools : i < share.numSizes /\ share.sizes[i] >= size}

\* The list the buffer leaves behind: the head becomes its successor.
KeepsHead(list) == list
RestOf(list) == Tail(list)

GetScan(p) ==
    /\ bufLock' = NoProc
    /\ LET stocked == {i \in Fitting(bufReg[p]) : pool[i] # <<>>} IN
       IF stocked = {}
       THEN /\ BufGoto(p, "get", "idle")                            \* NULL
            /\ bufReg' = [bufReg EXCEPT ![p] = NoBuf]
            /\ UNCHANGED pool
       ELSE LET i == Min(stocked) IN
            /\ BufGoto(p, "get", "mark")
            /\ bufReg' = [bufReg EXCEPT ![p] = Head(pool[i])]
            /\ pool' = [pool EXCEPT ![i] = RestOf(@)]
    /\ UNCHANGED <<share, allocated, bufHeld>>

\* The header is marked after the unlock.
GetMark(p) ==
    /\ BufGoto(p, "mark", "idle")
    /\ allocated' = [allocated EXCEPT ![bufReg[p]] = 1]
    /\ bufHeld' = [bufHeld EXCEPT ![p] = @ \cup {bufReg[p]}]
    /\ bufReg' = [bufReg EXCEPT ![p] = NoBuf]
    /\ UNCHANGED <<share, pool, bufLock>>

-----------------------------------------------------------------------------
(* radBufferRls *)

\* The mark is tested and cleared before the lock is taken.  An unmarked
\* buffer is refused.
RlsTest(p, b) ==
    /\ b \in bufHeld[p] /\ bufPc[p] = "idle"
    /\ IF allocated[b] # 1
       THEN UNCHANGED <<allocated, bufPc, bufReg>>
       ELSE /\ allocated' = [allocated EXCEPT ![b] = 0]
            /\ BufGoto(p, "idle", "link")
            /\ bufReg' = [bufReg EXCEPT ![p] = b]
    /\ bufHeld' = [bufHeld EXCEPT ![p] = @ \ {b}]
    /\ UNCHANGED <<share, pool, bufLock>>

RlsLink(p) ==
    /\ bufLock = NoProc                                 \* lock, link, unlock
    /\ BufGoto(p, "link", "idle")
    /\ pool' = [pool EXCEPT ![SizeIndex(bufReg[p])] = <<bufReg[p]>> \o @]
    /\ bufReg' = [bufReg EXCEPT ![p] = NoBuf]
    /\ UNCHANGED <<share, allocated, bufLock, bufHeld>>

-----------------------------------------------------------------------------
BufInit ==
    /\ share = NoShare
    /\ pool = [i \in Pools |-> <<>>]
    /\ allocated = <<>>
    /\ bufLock = NoProc
    /\ bufPc = [p \in BufProcs |-> "idle"]
    /\ bufReg = [p \in BufProcs |-> NoBuf]
    /\ bufHeld = [p \in BufProcs |-> {}]

BufNext ==
    \/ \E c \in BufConfigs : BuffersInit(c)
    \/ \E p \in BufProcs :
        \/ \E size \in Requests : GetLock(p, size)
        \/ GetScan(p) \/ GetMark(p)
        \/ \E b \in bufHeld[p] : RlsTest(p, b)
        \/ RlsLink(p)

BufSpec == BufInit /\ [][BufNext]_bufVars

-----------------------------------------------------------------------------
(* Properties *)

\* Layout of radBuffersInit: no two buffers overlap, headers included, each
\* starts behind the share and ends within the bytes that were asked of
\* radShmemInit.
BuffersDisjoint ==
    LET EndOf(b) == b + HdrBytes + share.sizes[SizeIndex(b)] IN
    \A b \in Buffers :
        /\ ShareBytes <= b /\ EndOf(b) <= share.end
        /\ \A c \in Buffers : b < c => EndOf(b) <= c

\* What a process owns or has in its hands inside a call.
InHand(p) == bufHeld[p] \cup (IF bufPc[p] \in {"mark", "link"} THEN {bufReg[p]} ELSE {})

FreeBuffers == UNION {Range(pool[i]) : i \in Pools}

\* Get and Rls of radbuffers.c implement the abstract pool: a request gets the
\* best fit that is free and fails only when nothing fits, and one owner per
\* buffer, although the header is marked outside the lock.  (PoolSpec, with the
\* steps that leave this state alone singled out.)
Pool == INSTANCE BufferPool WITH
            PoolProcs <- BufProcs,
            PoolRequests <- Requests,
            bufSize <- [b \in Buffers |-> share.sizes[SizeIndex(b)]],
            bufFree <- FreeBuffers,
            bufAsked <- [p \in BufProcs |-> IF bufPc[p] = "get" THEN bufReg[p] ELSE 0],
            bufLent <- [p \in BufProcs |-> InHand(p)]

ImplementsPool ==
    /\ Pool!PoolInit
    /\ [][UNCHANGED bufVars \/ Pool!PoolNext]_(Pool!poolVars)

\* No buffer is on two lists, twice on one, or on a list while somebody owns
\* it: the lists of radBufferGet and radBufferRls stay sound.
OneOwner ==
    /\ \A i \in Pools : IsInjective(pool[i])
    /\ \A i, j \in Pools : i # j => Range(pool[i]) \cap Range(pool[j]) = {}
    /\ \A p \in BufProcs : InHand(p) \cap FreeBuffers = {}
    /\ \A p, q \in BufProcs : p # q => InHand(p) \cap InHand(q) = {}
    /\ (UNION {InHand(p) : p \in BufProcs}) \cup FreeBuffers = Buffers

\* radbuffers.c as a whole: buffers overlap neither in memory nor in ownership.
BuffersSound == BuffersDisjoint /\ OneOwner
===============================================================================
