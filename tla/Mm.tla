---------------------------------- MODULE Mm ----------------------------------
(***************************************************************************)
(* The shared-memory allocator of mm-1.4.0 (mm_alloc.c, mm_global.c and    *)
(* mm_core.c as configured here: System V segment, fcntl locks).  A pool   *)
(* is a row of chunks, allocated or on a free list sorted by address, and  *)
(* the spare area behind mp_offset.  Several processes share it; what they *)
(* do to it they do under an fcntl lock, one lock per function.            *)
(***************************************************************************)
EXTENDS Integers, Sequences, FiniteSets, SequencesExt, FiniteSetsExt, Functions

CONSTANTS
    MmProcs,                \* processes that share the pool
    MmSizes,                \* user sizes asked for
    PoolSizes,              \* sizes asked of mm_create
    MaxSegment,             \* mm_maxsize ()
    MinPool,                \* MM_ALLOC_MINSIZE
    PoolHdr, ChunkHdr, Word, SplitCap   \* SIZEOF_mem_pool, SIZEOF_mem_chunk, SIZEOF_mem_word, 128

ASSUME MmAssumption ==
    /\ {PoolHdr, ChunkHdr, Word, SplitCap} \subseteq Nat \ {0}
    /\ MmSizes \subseteq Nat /\ PoolSizes \subseteq Nat
    /\ {MinPool, MaxSegment} \subseteq Nat
    /\ MinPool <= MaxSegment /\ SplitCap > ChunkHdr

VARIABLES
    mmGlobal,               \* mm_global # NULL
    mpSize, mpOffset,       \* mm->mp_size, mm->mp_offset
    freeChunks,             \* the free list: sequence of [at, size]
    freeCount,              \* mp_freechunks.mc_usize
    chunks,                 \* allocated chunks: address -> [size, usize]
    mmOwns,                 \* process -> addresses it may use
    mmPc, mmWant,           \* a process inside mm_malloc: "idle" or "spare", with the user size
    mmReplaces,             \* the chunk mm_realloc is about to free, 0 if it is not mm_realloc
    coreHas                 \* what mm_core_create holds of the system

mmVars == <<mmGlobal, mpSize, mpOffset, freeChunks, freeCount, chunks, mmOwns, mmPc, mmWant,
            mmReplaces, coreHas>>

mm_core_align2word(n) == (1 + ((n - 1) \div Word)) * Word

ChunkSize(usize) == mm_core_align2word(ChunkHdr + usize)

-----------------------------------------------------------------------------
(* mm_create and mm_core_create *)

Clamped(usize) ==
    LET u == IF usize = 0 \/ usize > MaxSegment THEN MaxSegment ELSE usize
    IN  IF u < MinPool THEN MinPool ELSE u

\* What has been acquired when a step of mm_core_create fails, and what the
\* clean-up sequence gives back.
Stages == <<"shmget", "shmat", "stat", "set", "rmid", "open", "cloexec">>
AcquiredBefore(k) ==
    (IF k > 1 THEN {"segment"} ELSE {}) \cup (IF k > 2 THEN {"mapping"} ELSE {})
    \cup (IF k > 6 THEN {"semfd", "semfile"} ELSE {})
CleanUp(held) ==
    held \ ((IF "mapping" \in held THEN {"mapping"} ELSE {})            \* shmdt
            \cup (IF "segment" \in held THEN {"segment"} ELSE {})       \* IPC_RMID
            \cup (IF "semfd" \in held THEN {"semfd"} ELSE {})           \* close
            \cup {"semfile"})                                           \* unlink

MM_create(usize) ==
    /\ ~mmGlobal
    /\ \/ /\ mmGlobal' = TRUE
          /\ mpSize' = Clamped(usize) + PoolHdr
          /\ mpOffset' = PoolHdr
          /\ coreHas' = {"segment", "mapping", "semfd", "semfile"}
       \/ \E k \in DOMAIN Stages :
            /\ coreHas' = CleanUp(AcquiredBefore(k))
            /\ UNCHANGED <<mmGlobal, mpSize, mpOffset>>
    /\ UNCHANGED <<freeChunks, freeCount, chunks, mmOwns, mmPc, mmWant, mmReplaces>>

\* MM_destroy, by a process that knows nobody uses the pool any more
MM_destroy ==
    /\ mmGlobal /\ \A p \in MmProcs : mmPc[p] = "idle" /\ mmOwns[p] = {}
    /\ mmGlobal' = FALSE
    /\ mpSize' = 0 /\ mpOffset' = 0 /\ freeChunks' = <<>> /\ freeCount' = 0
    /\ coreHas' = {}
    /\ UNCHANGED <<chunks, mmOwns, mmPc, mmWant, mmReplaces>>

-----------------------------------------------------------------------------
(* The free list *)

EndOf(c) == c.at + c.size

\* The chunk ends where the spare area begins.
NeverJoins(c) == FALSE
JoinsSpare(c) == EndOf(c) = mpOffset

\* mm_insert_chunk: sorted, merged with its neighbours and the spare area.
mm_insert_chunk(c) ==
    LET before == {i \in DOMAIN freeChunks : freeChunks[i].at < c.at}
        i == Cardinality(before)                            \* mcPrev is number i, mcNext i + 1
        prev == freeChunks[i]
        nextIs == freeChunks[i + 1]
        joinsPrev == i > 0 /\ EndOf(prev) = c.at
        joinsNext == i < Len(freeChunks) /\ EndOf(c) = nextIs.at
        joinsSpare == JoinsSpare(c)
    IN  CASE joinsPrev /\ joinsNext ->
                /\ freeChunks' = RemoveAt([freeChunks EXCEPT ![i].size = @ + c.size + nextIs.size],
                                          i + 1)
                /\ freeCount' = freeCount - 1
                /\ UNCHANGED mpOffset
          [] joinsPrev /\ ~joinsNext /\ joinsSpare ->
                /\ freeChunks' = RemoveAt(freeChunks, i)
                /\ mpOffset' = mpOffset - (c.size + prev.size)
                /\ freeCount' = freeCount - 1
          [] joinsPrev /\ ~joinsNext /\ ~joinsSpare ->
                /\ freeChunks' = [freeChunks EXCEPT ![i].size = @ + c.size]
                /\ UNCHANGED <<mpOffset, freeCount>>
          [] ~joinsPrev /\ joinsNext ->
                /\ freeChunks' = [freeChunks EXCEPT ![i + 1] =
                                    [at |-> c.at, size |-> c.size + nextIs.size]]
                /\ UNCHANGED <<mpOffset, freeCount>>
          [] ~joinsPrev /\ ~joinsNext /\ joinsSpare ->
                /\ mpOffset' = mpOffset - c.size
                /\ UNCHANGED <<freeChunks, freeCount>>
          [] OTHER ->
                /\ freeChunks' = InsertAt(freeChunks, i + 1, c)
                /\ freeCount' = freeCount + 1
                /\ UNCHANGED mpOffset

\* mm_retrieve_chunk finds the first of the smallest chunks that fit.
BestFits(size) ==
    LET fit == {i \in DOMAIN freeChunks : freeChunks[i].size >= size /\ freeChunks[i].size < mpSize}
    IN  {i \in fit : \A j \in fit : freeChunks[i].size <= freeChunks[j].size}

\* It is split when a lot would be left over, else taken as it is.
Rest(c, size) == [at |-> c.at + size, size |-> c.size - size]
Retrieved(i, size) ==
    LET c == freeChunks[i]
        split == c.size >= size + Min({2 * size, SplitCap})
    IN  IF split
        THEN [chunk |-> [at |-> c.at, size |-> size], count |-> freeCount,
              list |-> [freeChunks EXCEPT ![i] = Rest(c, size)]]
        ELSE [chunk |-> c, count |-> freeCount - 1, list |-> RemoveAt(freeChunks, i)]

-----------------------------------------------------------------------------
(* mm_malloc: first the free list, then, under a second lock, the spare area *)

Obtain(p, at, size, usize) ==
    /\ chunks' = [a \in DOMAIN chunks \cup {at} |->
                    IF a = at THEN [size |-> size, usize |-> usize] ELSE chunks[a]]
    /\ mmOwns' = [mmOwns EXCEPT ![p] = @ \cup {at}]

Malloc(p, usize, replaces) ==
    LET size == ChunkSize(usize) IN
    /\ mmGlobal /\ mmPc[p] = "idle" /\ usize > 0 /\ mmReplaces[p] = 0
    /\ IF freeCount = 0 \/ BestFits(size) = {}
       THEN /\ mmPc' = [mmPc EXCEPT ![p] = "spare"]
            /\ mmWant' = [mmWant EXCEPT ![p] = usize]
            /\ UNCHANGED <<freeChunks, freeCount, chunks, mmOwns>>
       ELSE LET r == Retrieved(Min(BestFits(size)), size) IN
            /\ freeChunks' = r.list /\ freeCount' = r.count
            /\ Obtain(p, r.chunk.at, r.chunk.size, usize)
            /\ UNCHANGED <<mmPc, mmWant>>
    /\ mmReplaces' = [mmReplaces EXCEPT ![p] = replaces]
    /\ UNCHANGED <<mmGlobal, mpSize, mpOffset, coreHas>>

MM_malloc(p, usize) == Malloc(p, usize, 0)

MallocSpare(p) ==
    LET size == ChunkSize(mmWant[p]) IN
    /\ mmPc[p] = "spare"
    /\ mmPc' = [mmPc EXCEPT ![p] = "idle"]
    /\ IF mpSize - mpOffset < size                          \* out of memory
       THEN /\ mmReplaces' = [mmReplaces EXCEPT ![p] = 0]
            /\ UNCHANGED <<mpOffset, chunks, mmOwns>>
       ELSE /\ Obtain(p, mpOffset, size, mmWant[p])
            /\ mpOffset' = mpOffset + size
            /\ UNCHANGED mmReplaces
    /\ mmWant' = [mmWant EXCEPT ![p] = 0]
    /\ UNCHANGED <<mmGlobal, mpSize, freeChunks, freeCount, coreHas>>

-----------------------------------------------------------------------------
(* mm_realloc and mm_free *)

\* Shrinking, or growing within the chunk, changes the user size only.
ReallocInPlace(p, a, usize) ==
    /\ mmPc[p] = "idle" /\ mmReplaces[p] = 0 /\ a \in mmOwns[p] /\ usize > 0
    /\ usize <= chunks[a].usize \/ ChunkSize(usize) <= chunks[a].size
    /\ chunks' = [chunks EXCEPT ![a].usize = usize]
    /\ UNCHANGED <<mmGlobal, mpSize, mpOffset, freeChunks, freeCount, mmOwns, mmPc, mmWant,
                   mmReplaces, coreHas>>

\* Otherwise a new chunk is allocated, the data copied and the old one freed.
ReallocMoves(p, a, usize) ==
    /\ a \in mmOwns[p]
    /\ usize > chunks[a].usize /\ ChunkSize(usize) > chunks[a].size
    /\ Malloc(p, usize, a)

FreeBlock(p, a) ==
    /\ mm_insert_chunk([at |-> a, size |-> chunks[a].size])
    /\ chunks' = Restrict(chunks, DOMAIN chunks \ {a})
    /\ mmOwns' = [mmOwns EXCEPT ![p] = @ \ {a}]
    /\ UNCHANGED <<mmGlobal, mpSize, mmPc, mmWant, coreHas>>

ReallocFrees(p) ==
    /\ mmPc[p] = "idle" /\ mmReplaces[p] # 0
    /\ FreeBlock(p, mmReplaces[p])
    /\ mmReplaces' = [mmReplaces EXCEPT ![p] = 0]

MM_free(p, a) ==
    /\ mmPc[p] = "idle" /\ mmReplaces[p] = 0 /\ a \in mmOwns[p]
    /\ FreeBlock(p, a)
    /\ UNCHANGED mmReplaces

\* What n additions make of a number.
AddUp(first, f, n) == LET sum[k \in 0..n] == IF k = 0 THEN first ELSE sum[k - 1] + f[k]
                      IN  sum[n]

\* mm_available: the spare area and every chunk of the free list.
mm_available == AddUp(mpSize - mpOffset, [i \in DOMAIN freeChunks |-> freeChunks[i].size],
                      Len(freeChunks))

-----------------------------------------------------------------------------
MmInit ==
    /\ mmGlobal = FALSE /\ mpSize = 0 /\ mpOffset = 0
    /\ freeChunks = <<>> /\ freeCount = 0 /\ chunks = <<>> /\ coreHas = {}
    /\ mmOwns = [p \in MmProcs |-> {}]
    /\ mmPc = [p \in MmProcs |-> "idle"]
    /\ mmWant = [p \in MmProcs |-> 0] /\ mmReplaces = [p \in MmProcs |-> 0]

MmNext ==
    \/ \E n \in PoolSizes : MM_create(n)
    \/ MM_destroy
    \/ \E p \in MmProcs :
         \/ \E n \in MmSizes :
              \/ MM_malloc(p, n)
              \/ \E a \in mmOwns[p] : ReallocInPlace(p, a, n) \/ ReallocMoves(p, a, n)
         \/ MallocSpare(p) \/ ReallocFrees(p)
         \/ \E a \in mmOwns[p] : MM_free(p, a)

MmSpec == MmInit /\ [][MmNext]_mmVars

-----------------------------------------------------------------------------
\* The areas a pool is divided into: allocated chunks, free chunks, spare.
Areas ==
    {[at |-> a, size |-> chunks[a].size] : a \in DOMAIN chunks}
    \cup Range(freeChunks) \cup {[at |-> mpOffset, size |-> mpSize - mpOffset]}

\* What the allocated chunks take, looked for at every address of the pool.
AllocatedSize == AddUp(0, [a \in 1..mpSize |-> IF a \in DOMAIN chunks THEN chunks[a].size ELSE 0],
                       mpSize)

\* Whatever several processes allocate, grow and free, in any order, the
\* chunks, the free list and the spare area tile the pool: no byte belongs to
\* two of them and none is lost, so mm_available never loses memory.
ChunksTile ==
    mmGlobal =>
        /\ \A b \in PoolHdr .. mpSize - 1 :
             Cardinality({r \in Areas : r.at <= b /\ b < EndOf(r)}) = 1
        /\ mm_available = mpSize - PoolHdr - AllocatedSize

\* Freeing merges with the neighbours every time ("merge with previous and/or
\* next chunk when possible"): no two free chunks touch and none touches the
\* spare area, so a pool whose chunks are all freed is one area again.
FullyMerged ==
    \A f, g \in Range(freeChunks) : EndOf(f) # g.at /\ EndOf(f) # mpOffset

\* mc_usize of the list head counts the free list: mm_retrieve_chunk trusts a
\* zero there and does not look at the list.
FreeCountRight == freeCount = Len(freeChunks)

\* A process's block holds what it asked for, and no two processes own one.
BlocksHold ==
    /\ \A p \in MmProcs : \A a \in mmOwns[p] :
         ChunkHdr + chunks[a].usize <= chunks[a].size
    /\ \A p, q \in MmProcs : p # q => mmOwns[p] \cap mmOwns[q] = {}

\* mm_core_create gives back the segment, the mapping and the lock file
\* whichever of its steps fails.
FailedCreateLeavesNothing == ~mmGlobal => coreHas = {}

\* The whole of the allocator: no byte is lost or given out twice, a block holds
\* what was asked for, and a pool that is not there keeps nothing of the system.
PoolSound ==
    ChunksTile /\ FullyMerged /\ FreeCountRight /\ BlocksHold /\ FailedCreateLeavesNothing
===============================================================================
