--------------------------- MODULE RadPartsProofs ---------------------------
(***************************************************************************)
(* Theorems about parts of radlib, for every set of processes, systems,    *)
(* descriptors, events, copies, sockets, timers and process lists: the     *)
(* facilities a radlib system makes and destroys by count (RadSystem), the *)
(* descriptor table and the buffers of the main loop (RadProcess), the     *)
(* life of a program (RadTemplate), stream sockets (RadSocket), the list   *)
(* of running timers (RadTimers), process lists (RadProclist) and datagram *)
(* sockets (RadUdpSocket).                                                 *)
(*                                                                         *)
(* SystemSound: the code decides by counts what to make and what to        *)
(* destroy; the invariant says of whom a count is made, SysCounted(s) and  *)
(* SysHolding being the processes, alive or dead, behind numprocs[s] and   *)
(* numAttached.  LoopStaysConsistent: the invariant adds what is still to  *)
(* be scanned.  ProgramsComeAndGo: it adds who is between the test of the  *)
(* lock file and its end.  ConnectionsStay: it adds which units of a       *)
(* direction were handed out, are in a buffer and are under way.           *)
(* TimersStayWatched: it adds the sequence that the list stands for and    *)
(* the free list.  ProcessesStayInOrder: it adds which nodes are still to  *)
(* be forked, that pids grow with the priorities, and who may be short of  *)
(* ready while the parent waits.  DatagramsComeAsSent: it adds how much    *)
(* of its last datagram a buffer has.                                      *)
(***************************************************************************)
EXTENDS RadSystem, RadProcess, RadTemplate, RadSocket, RadTimers, RadProclist,
        RadUdpSocket, CommonLemmas, FiniteSetTheorems

-----------------------------------------------------------------------------
(* The radlib system: the inductive invariant *)

SysPcs == {"out", "take", "shm", "sems", "buffers", "table", "enter", "in", "exitTake", "leave",
           "detach", "dead"}
MemberPcs == {"in", "exitTake", "leave"}

SysShms == [there : BOOLEAN, keyed : BOOLEAN, numAttached : Int, numprocs : [Systems -> Int]]

SysTypes ==
    /\ sysSem \in [gen : Nat, val : Int]
    /\ sysShm \in SysShms
    /\ semSet \in [Systems -> [gen : Nat, val : [Segments -> Int]]]
    /\ segment \in [Systems -> [Segments -> Nat]]
    /\ sysPc \in [SysProcs -> SysPcs]
    /\ sysOf \in [SysProcs -> Systems]
    /\ handle \in [SysProcs -> [sem : Nat, set : Nat, buffers : Nat, table : Nat]]
    /\ sysTorn \in BOOLEAN /\ sysGen \in Nat /\ sysFaults \in Nat /\ sysCalls \in Nat

\* Calls do not overlap.
OneCaller == OneAtATime => \A p, q \in SysProcs : Calling(p) /\ Calling(q) => p = q

AttachedPcs == {"sems", "buffers", "table", "enter", "detach"} \cup MemberPcs
MembersOf(s) == {p \in SysProcs : sysPc[p] \in MemberPcs /\ sysOf[p] = s}
Attaching == {p \in SysProcs : sysPc[p] \in AttachedPcs}

\* The counts are never too low, whatever happened: a process that dies leaves
\* them as they are.  A segment that nobody has filled is torn.
CountsHigh ==
    /\ sysShm.there \/ sysShm = NoShm
    /\ ~sysTorn => sysShm.keyed /\ (sysShm.there => sysShm.numAttached > 0)
    /\ \A s \in Systems : sysShm.numprocs[s] >= Cardinality(MembersOf(s))
    /\ sysShm.numAttached >= Cardinality(Attaching)

\* A dead process is still counted when it died as a member.
StillCounted == {p \in SysProcs : sysPc[p] = "dead" /\ handle[p].table # 0}
SysCounted(s) == MembersOf(s) \cup {p \in StillCounted : sysOf[p] = s}
SysHolding == Attaching \cup StillCounted

\* Unless something was torn, numprocs counts the members, alive or dead.
CountsExact ==
    ~sysTorn => /\ \A s \in Systems : sysShm.numprocs[s] = Cardinality(SysCounted(s))
                /\ sysShm.numAttached >= Cardinality(SysHolding)

SysReady(s) == /\ semSet[s].gen # 0
               /\ \A k \in Segments : segment[s][k] # 0 /\ semSet[s].val[k] = 1
Bare(s) == semSet[s] = NoSemSet /\ \A k \in Segments : segment[s][k] = 0
Making(s) == \E p \in SysProcs : sysOf[p] = s /\ sysPc[p] \in {"buffers", "table", "enter"}

\* A system has all of its objects or none, but while its first process is
\* making them.
SystemsWhole ==
    ~sysTorn => \A s \in Systems : /\ sysShm.numprocs[s] # 0 => SysReady(s)
                                   /\ sysShm.numprocs[s] = 0 => Making(s) \/ Bare(s)

\* What a process has got by the step it has reached.
HandlesFit(p) ==
    LET s == sysOf[p] IN
    /\ sysPc[p] = "take" => handle[p].table = 0
    /\ ~sysTorn =>
        /\ sysPc[p] \in {"buffers", "table", "enter"} \cup MemberPcs
               => handle[p].set = semSet[s].gen /\ semSet[s].gen # 0
        /\ sysPc[p] \in {"table", "enter"} \cup MemberPcs
               => /\ handle[p].buffers = segment[s]["buffers"] /\ handle[p].buffers # 0
                  /\ semSet[s].val["buffers"] = 1
        /\ sysPc[p] \in {"enter"} \cup MemberPcs
               => /\ handle[p].table = segment[s]["table"] /\ handle[p].table # 0
                  /\ semSet[s].val["table"] = 1
        /\ sysPc[p] = "buffers" /\ sysShm.numprocs[s] = 0
               => segment[s]["buffers"] = 0 /\ segment[s]["table"] = 0
        /\ sysPc[p] = "table" /\ sysShm.numprocs[s] = 0 => segment[s]["table"] = 0
HandlesFitAll == \A p \in SysProcs : HandlesFit(p)

\* Without faults nobody is dead, numAttached is exact, and the semaphore is
\* there while anybody is.
FaultFree ==
    sysFaults = 0 =>
        /\ ~sysTorn /\ \A p \in SysProcs : sysPc[p] # "dead"
        /\ sysShm.numAttached = Cardinality(SysHolding)
        /\ \A p \in SysProcs : sysPc[p] # "out" => handle[p].sem = sysSem.gen /\ sysSem.gen # 0
        /\ sysSem.gen # 0 => \E p \in SysProcs : sysPc[p] # "out"

SysInv ==
    SysTypes /\ OneCaller /\ CountsHigh /\ CountsExact /\ SystemsWhole /\ HandlesFitAll /\ FaultFree

-----------------------------------------------------------------------------
(* Counting processes *)

\* Sets of processes are finite, and one more or one less changes the count by one.
LEMMA ProcessCounts ==
    ASSUME NEW S \in SUBSET SysProcs, NEW p \in SysProcs
    PROVE  /\ Cardinality(S) \in Nat
           /\ p \notin S => Cardinality(S \cup {p}) = Cardinality(S) + 1
           /\ p \in S => Cardinality(S \ {p}) = Cardinality(S) - 1 /\ Cardinality(S) > 0
           /\ Cardinality(S) = 0 => S = {}
           /\ p \in S /\ Cardinality(S) <= 1 => S = {p}
  <1>1. IsFiniteSet(S) /\ IsFiniteSet(S \ {p})
    BY SysAssumption, FS_Subset
  <1>2. Cardinality(S) \in Nat /\ Cardinality(S \ {p}) \in Nat
    BY <1>1, FS_CardinalityType
  <1>3. p \notin S => Cardinality(S \cup {p}) = Cardinality(S) + 1
    BY <1>1, FS_AddElement
  <1>4. p \in S => Cardinality(S \ {p}) = Cardinality(S) - 1
    BY <1>1, FS_RemoveElement
  <1>5. Cardinality(S) = 0 => S = {}
    BY <1>1, FS_EmptySet
  <1>6. Cardinality(S \ {p}) = 0 => S \ {p} = {}
    BY <1>1, FS_EmptySet
  <1> QED  BY <1>2, <1>3, <1>4, <1>5, <1>6

LEMMA FewerProcesses ==
    ASSUME NEW S \in SUBSET SysProcs, NEW T \in SUBSET S
    PROVE  Cardinality(T) <= Cardinality(S)
  BY SysAssumption, FS_Subset

\* The processes that p shares nothing with.
OthersSame(p) == \A q \in SysProcs : q # p => /\ sysPc'[q] = sysPc[q] /\ sysOf'[q] = sysOf[q]
                                              /\ handle'[q] = handle[q]

\* A step of p from one pc to another, neither of them death, moves p alone in
\* or out of the sets that are counted.
Joins(S, p, joins) == IF joins THEN S \cup {p} ELSE S \ {p}

LEMMA SetsMove ==
    ASSUME SysTypes, NEW p \in SysProcs, OthersSame(p),
           sysPc[p] # "dead", sysPc'[p] # "dead"
    PROVE  /\ \A s \in Systems : /\ MembersOf(s)' = Joins(MembersOf(s), p, sysPc'[p] \in MemberPcs /\ sysOf'[p] = s)
                                 /\ SysCounted(s)' = Joins(SysCounted(s), p, sysPc'[p] \in MemberPcs /\ sysOf'[p] = s)
           /\ Attaching' = Joins(Attaching, p, sysPc'[p] \in AttachedPcs)
           /\ SysHolding' = Joins(SysHolding, p, sysPc'[p] \in AttachedPcs)
           /\ StillCounted' = StillCounted /\ p \notin StillCounted
  <1>1. StillCounted' = StillCounted /\ p \notin StillCounted
    BY DEF OthersSame, StillCounted
  <1>2. Attaching' = Joins(Attaching, p, sysPc'[p] \in AttachedPcs)
    BY DEF OthersSame, Attaching, Joins
  <1>3. SysHolding' = Joins(SysHolding, p, sysPc'[p] \in AttachedPcs)
    BY <1>1, <1>2 DEF SysHolding, Joins
  <1>4. ASSUME NEW s \in Systems
        PROVE  /\ MembersOf(s)' = Joins(MembersOf(s), p, sysPc'[p] \in MemberPcs /\ sysOf'[p] = s)
               /\ SysCounted(s)' = Joins(SysCounted(s), p, sysPc'[p] \in MemberPcs /\ sysOf'[p] = s)
    <2>1. MembersOf(s)' = Joins(MembersOf(s), p, sysPc'[p] \in MemberPcs /\ sysOf'[p] = s)
      BY DEF OthersSame, MembersOf, Joins
    <2> DEFINE D == {q \in StillCounted : sysOf[q] = s}
    <2>2. D' = D /\ p \notin D
      BY <1>1 DEF OthersSame, StillCounted
    <2>3. SysCounted(s) = MembersOf(s) \cup D /\ SysCounted(s)' = MembersOf(s)' \cup D'
      BY DEF SysCounted
    <2> HIDE DEF D
    <2> QED  BY <2>1, <2>2, <2>3 DEF Joins
  <1> QED  BY <1>1, <1>2, <1>3, <1>4

\* A step that leaves its process in the sets it was in.
SameSets(p) ==
    /\ OthersSame(p)
    /\ sysPc[p] # "dead" /\ sysPc'[p] # "dead"
    /\ sysPc[p] \in AttachedPcs <=> sysPc'[p] \in AttachedPcs
    /\ sysPc[p] \in MemberPcs <=> sysPc'[p] \in MemberPcs
    /\ sysPc[p] \in MemberPcs => sysOf'[p] = sysOf[p]

LEMMA SetsStay ==
    ASSUME SysTypes, NEW p \in SysProcs, SameSets(p)
    PROVE  /\ \A s \in Systems : MembersOf(s)' = MembersOf(s) /\ SysCounted(s)' = SysCounted(s)
           /\ Attaching' = Attaching /\ SysHolding' = SysHolding
  <1>1. StillCounted' = StillCounted /\ p \notin StillCounted
    BY DEF SameSets, OthersSame, StillCounted
  <1>2. Attaching' = Attaching
    BY DEF SameSets, OthersSame, Attaching
  <1>3. \A s \in Systems : MembersOf(s)' = MembersOf(s)
    BY DEF SameSets, OthersSame, MembersOf
  <1>4. \A s \in Systems : SysCounted(s)' = SysCounted(s)
    <2> SUFFICES ASSUME NEW s \in Systems PROVE SysCounted(s)' = SysCounted(s)
      OBVIOUS
    <2>1. {q \in StillCounted' : sysOf'[q] = s} = {q \in StillCounted : sysOf[q] = s}
      BY <1>1 DEF SameSets, OthersSame, StillCounted
    <2> QED  BY <2>1, <1>3 DEF SysCounted
  <1>5. SysHolding' = SysHolding
    BY <1>1, <1>2 DEF SysHolding
  <1> QED  BY <1>2, <1>3, <1>4, <1>5

LEMMA CountsStay ==
    ASSUME SysTypes, CountsHigh, CountsExact, NEW p \in SysProcs, SameSets(p),
           sysShm' = sysShm, sysTorn' = sysTorn
    PROVE  CountsHigh' /\ CountsExact'
  <1>1. /\ \A s \in Systems : MembersOf(s)' = MembersOf(s) /\ SysCounted(s)' = SysCounted(s)
        /\ Attaching' = Attaching /\ SysHolding' = SysHolding
    BY SetsStay
  <1>2. CountsHigh'
    BY <1>1 DEF CountsHigh
  <1>3. CountsExact'
    BY <1>1 DEF CountsExact
  <1> QED  BY <1>2, <1>3

LEMMA SegmentThere ==
    ASSUME CountsHigh, NEW p \in Attaching
    PROVE  sysShm.there
  <1>1. Attaching \in SUBSET SysProcs
    BY DEF Attaching
  <1>2. Cardinality(Attaching) > 0 /\ Cardinality(Attaching) \in Nat
    BY <1>1, ProcessCounts
  <1> QED  BY <1>2 DEF CountsHigh, NoShm

\* A process that gives up half way leaves numAttached too high.
LEMMA CountsLeft ==
    ASSUME SysTypes, CountsHigh, CountsExact, NEW p \in SysProcs, OthersSame(p),
           sysPc[p] \in AttachedPcs \ MemberPcs, sysPc'[p] = "out",
           sysShm' = sysShm, sysTorn' = sysTorn
    PROVE  CountsHigh' /\ CountsExact'
  <1>0. sysPc[p] # "dead" /\ sysPc'[p] # "dead" /\ sysPc'[p] \notin MemberPcs /\ sysPc'[p] \notin AttachedPcs
    BY DEF AttachedPcs, MemberPcs
  <1>1. /\ \A s \in Systems : /\ MembersOf(s)' = MembersOf(s) \ {p}
                              /\ SysCounted(s)' = SysCounted(s) \ {p}
        /\ Attaching' = Attaching \ {p} /\ SysHolding' = SysHolding \ {p}
        /\ p \notin StillCounted
    BY <1>0, SetsMove DEF Joins
  <1>2. \A s \in Systems : p \notin MembersOf(s) /\ p \notin SysCounted(s)
    BY <1>1 DEF MembersOf, SysCounted
  <1>3. \A s \in Systems : MembersOf(s)' = MembersOf(s) /\ SysCounted(s)' = SysCounted(s)
    BY <1>1, <1>2
  <1>4. Cardinality(Attaching') <= Cardinality(Attaching)
    BY <1>1, FewerProcesses DEF Attaching
  <1>5. Cardinality(SysHolding') <= Cardinality(SysHolding)
    <2>1. SysHolding \in SUBSET SysProcs
      BY DEF SysHolding, Attaching, StillCounted
    <2> QED  BY <1>1, <2>1, FewerProcesses
  <1>6. Cardinality(SysHolding) \in Nat /\ Cardinality(SysHolding') \in Nat
        /\ Cardinality(Attaching) \in Nat /\ Cardinality(Attaching') \in Nat
    <2>1. SysHolding \in SUBSET SysProcs /\ Attaching \in SUBSET SysProcs
      BY DEF SysHolding, Attaching, StillCounted
    <2>2. SysHolding' \in SUBSET SysProcs /\ Attaching' \in SUBSET SysProcs
      BY <2>1, <1>1
    <2> QED  BY <2>1, <2>2, ProcessCounts
  <1>7. CountsHigh'
    BY <1>3, <1>4, <1>6 DEF CountsHigh, SysTypes, SysShms
  <1>8. CountsExact'
    BY <1>3, <1>5, <1>6 DEF CountsExact, SysTypes, SysShms
  <1> QED  BY <1>7, <1>8

\* FaultFree across a step of a process that has begun a call or is a member.
LEMMA FaultFreeStays ==
    ASSUME SysTypes, FaultFree, NEW p \in SysProcs, OthersSame(p), SysHolding' = SysHolding,
           sysShm'.numAttached = sysShm.numAttached, sysTorn' = sysTorn, sysFaults' = sysFaults,
           sysSem'.gen = sysSem.gen, handle'[p].sem = handle[p].sem,
           sysPc[p] # "out", sysPc'[p] \notin {"out", "dead"}
    PROVE  FaultFree'
  <1> SUFFICES ASSUME sysFaults = 0
               PROVE  /\ ~sysTorn /\ \A q \in SysProcs : sysPc'[q] # "dead"
                      /\ sysShm.numAttached = Cardinality(SysHolding')
                      /\ \A q \in SysProcs : sysPc'[q] # "out" => handle'[q].sem = sysSem.gen /\ sysSem.gen # 0
                      /\ sysSem.gen # 0 => \E q \in SysProcs : sysPc'[q] # "out"
    BY DEF FaultFree
  <1>2. ~sysTorn /\ sysShm.numAttached = Cardinality(SysHolding')
    BY DEF FaultFree
  <1>3. \A q \in SysProcs : sysPc'[q] # "dead"
    BY DEF FaultFree, OthersSame
  <1>4. \A q \in SysProcs : sysPc'[q] # "out" => handle'[q].sem = sysSem.gen /\ sysSem.gen # 0
    BY DEF FaultFree, OthersSame
  <1>5. \E q \in SysProcs : sysPc'[q] # "out"
    OBVIOUS
  <1> QED  BY <1>2, <1>3, <1>4, <1>5

-----------------------------------------------------------------------------
(* What one process does to the others *)

LEMMA CallersStay ==
    ASSUME OneCaller, NEW p \in SysProcs, OthersSame(p), Calling(p)
    PROVE  OneCaller'
  BY DEF OneCaller, OthersSame, Calling

\* The members of a system whose objects are left alone keep their facilities.
LEMMA OthersFit ==
    ASSUME SysTypes, OneCaller, OneAtATime, HandlesFitAll, NEW p \in SysProcs, OthersSame(p),
           \A q \in SysProcs : Calling(q) => q = p,
           sysTorn => sysTorn',
           \A q \in SysProcs : q # p /\ sysPc[q] = "in" /\ ~sysTorn
               => semSet'[sysOf[q]] = semSet[sysOf[q]] /\ segment'[sysOf[q]] = segment[sysOf[q]]
    PROVE  \A q \in SysProcs : q # p => HandlesFit(q)'
  <1> SUFFICES ASSUME NEW q \in SysProcs, q # p PROVE HandlesFit(q)'
    OBVIOUS
  <1>1. sysPc[q] \in {"out", "in", "dead"}
    BY DEF Calling
  <1>2. sysPc'[q] = sysPc[q] /\ sysOf'[q] = sysOf[q] /\ handle'[q] = handle[q]
    BY DEF OthersSame
  <1>3. CASE sysPc[q] # "in"
    BY <1>1, <1>2, <1>3 DEF HandlesFit, MemberPcs
  <1>4. CASE sysPc[q] = "in"
    <2>1. HandlesFit(q)
      BY DEF HandlesFitAll
    <2>2. ~sysTorn' => ~sysTorn
      BY DEF SysTypes
    <2>3. ~sysTorn => /\ semSet'[sysOf[q]] = semSet[sysOf[q]]
                      /\ segment'[sysOf[q]] = segment[sysOf[q]]
      BY <1>4
    <2> QED  BY <1>2, <1>4, <2>1, <2>2, <2>3 DEF HandlesFit, MemberPcs
  <1> QED  BY <1>3, <1>4

\* SystemsWhole across a step that touches no object.
MakingPcs == {"buffers", "table", "enter"}
LEMMA WholeStays ==
    ASSUME SystemsWhole, NEW p \in SysProcs, OthersSame(p),
           sysShm'.numprocs = sysShm.numprocs, semSet' = semSet, segment' = segment,
           sysTorn => sysTorn', sysTorn \in BOOLEAN,
           sysPc[p] \in MakingPcs /\ ~sysTorn' => sysPc'[p] \in MakingPcs /\ sysOf'[p] = sysOf[p]
    PROVE  SystemsWhole'
  <1> SUFFICES ASSUME ~sysTorn', NEW s \in Systems
               PROVE  /\ sysShm.numprocs[s] # 0 => SysReady(s)'
                      /\ sysShm.numprocs[s] = 0 => Making(s)' \/ Bare(s)'
    BY DEF SystemsWhole
  <1>1. /\ sysShm.numprocs[s] # 0 => SysReady(s)
        /\ sysShm.numprocs[s] = 0 => Making(s) \/ Bare(s)
    BY DEF SystemsWhole
  <1>2. SysReady(s)' = SysReady(s) /\ Bare(s)' = Bare(s)
    BY DEF SysReady, Bare
  <1>3. Making(s) => Making(s)'
    BY DEF Making, MakingPcs, OthersSame
  <1> QED  BY <1>1, <1>2, <1>3

\* Every process uses the keys of its own system unless something was torn.
LEMMA AreaIs ==
    ASSUME SysTypes, CountsHigh, NEW p \in SysProcs
    PROVE  Area(p) \in Systems /\ (~sysTorn => Area(p) = sysOf[p])
  <1>1. SystemZero \in Systems
    BY SysAssumption DEF SystemZero
  <1>2. sysOf[p] \in Systems /\ (~sysTorn => sysShm.keyed)
    BY DEF SysTypes, CountsHigh
  <1> QED  BY <1>1, <1>2 DEF Area

LEMMA ZeroedIs ==
    /\ Zeroed \in SysShms /\ Zeroed.there /\ Zeroed.numAttached = NoShm.numAttached
    /\ Zeroed.numprocs = NoShm.numprocs
  <1>1. NoShm \in SysShms
    BY DEF NoShm, SysShms
  <1> DEFINE made == [NoShm EXCEPT !.there = TRUE]
  <1>2. /\ made \in SysShms /\ made.there /\ made.numAttached = NoShm.numAttached
        /\ made.numprocs = NoShm.numprocs
    BY <1>1 DEF SysShms
  <1> HIDE DEF made
  <1>3. Zeroed = [made EXCEPT !.keyed = FALSE]
    BY DEF Zeroed, made, NoShm
  <1> QED  BY <1>2, <1>3 DEF SysShms

\* Fewer processes inside are not too many for the counts.
LEMMA CountsOutlast ==
    ASSUME SysTypes, CountsHigh, NEW p \in SysProcs, OthersSame(p), sysTorn => sysTorn',
           sysPc'[p] \in {"out", "dead"}, sysPc[p] \notin {"out", "dead"},
           sysShm' = sysShm \/ (~sysShm.there /\ sysShm' = Zeroed /\ sysTorn')
    PROVE  CountsHigh'
  <1>1. /\ Attaching' \subseteq Attaching /\ Attaching \in SUBSET SysProcs
        /\ Attaching' \in SUBSET SysProcs
    BY DEF Attaching, OthersSame, AttachedPcs, MemberPcs
  <1>2. /\ Cardinality(Attaching') <= Cardinality(Attaching)
        /\ Cardinality(Attaching') \in Nat /\ Cardinality(Attaching) \in Nat
    BY <1>1, FewerProcesses, ProcessCounts
  <1>3. /\ sysShm'.numAttached = sysShm.numAttached /\ sysShm'.numprocs = sysShm.numprocs
        /\ sysShm'.there \/ sysShm' = NoShm
        /\ ~sysTorn' => sysShm'.keyed /\ (sysShm'.there => sysShm'.numAttached > 0)
    <2>1. CASE sysShm' = sysShm
      BY <2>1 DEF CountsHigh, SysTypes, SysShms
    <2>2. CASE ~sysShm.there /\ sysShm' = Zeroed /\ sysTorn'
      BY <2>2, ZeroedIs DEF CountsHigh
    <2> QED  BY <2>1, <2>2
  <1>4. ASSUME NEW t \in Systems PROVE sysShm.numprocs[t] >= Cardinality(MembersOf(t)')
    <2>1. /\ MembersOf(t)' \subseteq MembersOf(t)
          /\ MembersOf(t) \in SUBSET SysProcs /\ MembersOf(t)' \in SUBSET SysProcs
      BY DEF MembersOf, OthersSame, MemberPcs
    <2>2. Cardinality(MembersOf(t)') <= Cardinality(MembersOf(t))
      BY <2>1, FewerProcesses
    <2>3. Cardinality(MembersOf(t)') \in Nat /\ Cardinality(MembersOf(t)) \in Nat
      BY <2>1, ProcessCounts
    <2> QED  BY <2>2, <2>3 DEF CountsHigh, SysTypes, SysShms
  <1>5. sysShm'.numAttached >= Cardinality(Attaching')
    BY <1>2, <1>3 DEF CountsHigh, SysTypes, SysShms
  <1> QED  BY <1>3, <1>4, <1>5 DEF CountsHigh

\* Where something is torn, only the counts and the calls are left to keep.
LEMMA TornKeeps ==
    ASSUME SysInv, NEW p \in SysProcs, OthersSame(p), sysTorn', sysFaults' # 0,
           sysPc'[p] \in {"out", "dead"}, sysPc[p] \notin {"out", "dead"}, SysTypes',
           sysShm' = sysShm \/ (~sysShm.there /\ sysShm' = Zeroed)
    PROVE  SysInv'
  <1> USE DEF SysInv, SysShms
  <1>1. OneCaller'
    BY DEF OneCaller, Calling, OthersSame
  <1>2. CountsHigh'
    BY CountsOutlast
  <1>3. CountsExact' /\ SystemsWhole' /\ FaultFree'
    BY DEF CountsExact, SystemsWhole, FaultFree
  <1>4. HandlesFitAll'
    BY DEF HandlesFitAll, HandlesFit, OthersSame
  <1> QED  BY <1>1, <1>2, <1>3, <1>4

-----------------------------------------------------------------------------
(* The steps *)

LEMMA InitKeeps ==
    ASSUME OneAtATime, SysInv, NEW p \in SysProcs, NEW s \in Systems, semInit(p, s)
    PROVE  SysInv'
  <1> DEFINE g == IF sysSem.gen = 0 THEN sysGen + 1 ELSE sysSem.gen
  <1> USE DEF SysInv, SysShms
  <1>1. /\ sysPc[p] = "out" /\ sysPc' = [sysPc EXCEPT ![p] = "take"]
        /\ sysSem' = [gen |-> g, val |-> 1] /\ sysGen' = Max({sysGen, g})
        /\ handle' = [handle EXCEPT ![p] = [NoHandle EXCEPT !.sem = g]]
        /\ sysOf' = [sysOf EXCEPT ![p] = s] /\ sysCalls' = sysCalls + 1
        /\ \A q \in SysProcs : ~Calling(q)
        /\ UNCHANGED <<sysShm, semSet, segment, sysFaults, sysTorn>>
    BY DEF semInit, SysGoto, NewCall
  <1>2. g \in Nat /\ g # 0 /\ sysGen \in Nat
    BY DEF SysTypes
  <1>3. Max({sysGen, g}) \in Nat
    <2>1. \E x \in {sysGen, g} : \A y \in {sysGen, g} : x >= y
      BY <1>2
    <2> QED  BY <1>2, <2>1 DEF Max
  <1> HIDE DEF g
  <1>4. /\ sysPc'[p] = "take" /\ sysOf'[p] = s
        /\ handle'[p] = [sem |-> g, set |-> 0, buffers |-> 0, table |-> 0]
        /\ OthersSame(p)
    BY <1>1 DEF SysTypes, OthersSame, NoHandle
  <1>5. SysTypes'
    <2>1. [NoHandle EXCEPT !.sem = g] \in [sem : Nat, set : Nat, buffers : Nat, table : Nat]
      BY <1>2 DEF NoHandle
    <2>2. /\ sysSem' \in [gen : Nat, val : Int] /\ sysGen' \in Nat /\ sysCalls' \in Nat
          /\ sysPc' \in [SysProcs -> SysPcs] /\ sysOf' \in [SysProcs -> Systems]
      BY <1>1, <1>2, <1>3 DEF SysTypes, SysPcs
    <2>3. handle' \in [SysProcs -> [sem : Nat, set : Nat, buffers : Nat, table : Nat]]
      BY <1>1, <2>1 DEF SysTypes
    <2> QED  BY <1>1, <2>2, <2>3 DEF SysTypes
  <1>6. OneCaller'
    BY <1>1, <1>4 DEF OneCaller, Calling, OthersSame
  <1>7. SameSets(p)
    BY <1>1, <1>4 DEF SameSets, AttachedPcs, MemberPcs
  <1>8. CountsHigh' /\ CountsExact'
    BY <1>1, <1>7, CountsStay
  <1>9. SystemsWhole'
    BY <1>1, <1>4, WholeStays DEF MakingPcs, SysTypes
  <1>10. HandlesFitAll'
    <2>1. \A q \in SysProcs : q # p => HandlesFit(q)'
      BY <1>1, <1>4, OthersFit
    <2>2. HandlesFit(p)'
      BY <1>4 DEF HandlesFit, MemberPcs
    <2> QED  BY <2>1, <2>2 DEF HandlesFitAll
  <1>11. FaultFree'
    <2>1. SysHolding' = SysHolding
      BY <1>7, SetsStay
    <2> SUFFICES ASSUME sysFaults = 0
                 PROVE  /\ ~sysTorn /\ \A q \in SysProcs : sysPc'[q] # "dead"
                        /\ sysShm.numAttached = Cardinality(SysHolding)
                        /\ \A q \in SysProcs : sysPc'[q] # "out" => handle'[q].sem = sysSem'.gen /\ sysSem'.gen # 0
                        /\ \E q \in SysProcs : sysPc'[q] # "out"
      BY <1>1, <2>1 DEF FaultFree
    <2>2. ~sysTorn /\ sysShm.numAttached = Cardinality(SysHolding)
      BY DEF FaultFree
    <2>3. \A q \in SysProcs : sysPc'[q] # "dead"
      BY <1>4 DEF FaultFree, OthersSame
    <2>4. sysSem'.gen = g /\ g # 0
      BY <1>1, <1>2
    <2>5. ASSUME NEW q \in SysProcs, sysPc'[q] # "out" PROVE handle'[q].sem = sysSem'.gen
      <3>1. CASE q = p  BY <3>1, <1>4, <2>4
      <3>2. CASE q # p
        <4>1. handle[q].sem = sysSem.gen /\ sysSem.gen # 0
          BY <3>2, <2>5, <1>4 DEF FaultFree, OthersSame
        <4> QED  BY <4>1, <3>2, <1>4, <2>4 DEF OthersSame, g
      <3> QED  BY <3>1, <3>2
    <2> QED  BY <2>2, <2>3, <2>4, <2>5, <1>4
  <1> QED  BY <1>5, <1>6, <1>8, <1>9, <1>10, <1>11

\* A step that only moves on, or takes the semaphore.
OnlyMoves(p, from, to) ==
    /\ SysGoto(p, from, to)
    /\ sysSem' = sysSem \/ sysSem' = [sysSem EXCEPT !.val = @ - 1]
    /\ sysCalls' = sysCalls \/ (sysCalls' = sysCalls + 1 /\ \A q \in SysProcs : ~Calling(q))
    /\ UNCHANGED <<sysShm, semSet, segment, sysOf, handle, sysGen, sysFaults, sysTorn>>

LEMMA MovingKeeps ==
    ASSUME OneAtATime, SysInv, NEW p \in SysProcs, NEW from, NEW to, OnlyMoves(p, from, to),
           \/ from = "take" /\ to = "shm"
           \/ from = "in" /\ to = "exitTake" /\ \A q \in SysProcs : ~Calling(q)
           \/ from = "exitTake" /\ to = "leave"
    PROVE  SysInv'
  <1> USE DEF SysInv, SysShms
  <1>1. /\ sysPc[p] = from /\ sysPc' = [sysPc EXCEPT ![p] = to] /\ sysPc'[p] = to
        /\ OthersSame(p) /\ sysSem'.gen = sysSem.gen /\ sysSem' \in [gen : Nat, val : Int]
        /\ UNCHANGED <<sysShm, semSet, segment, sysOf, handle, sysGen, sysFaults, sysTorn>>
        /\ sysCalls' \in Nat
    BY DEF OnlyMoves, SysGoto, SysTypes, OthersSame
  <1>2. \A q \in SysProcs : Calling(q) => q = p
    BY <1>1 DEF OneCaller, Calling
  <1>3. SameSets(p)
    BY <1>1 DEF SameSets, AttachedPcs, MemberPcs
  <1>4. SysTypes'
    <2>1. to \in SysPcs
      BY DEF SysPcs
    <2> QED  BY <1>1, <2>1 DEF SysTypes
  <1>5. OneCaller'
    BY <1>1, <1>2 DEF OneCaller, Calling, OthersSame
  <1>6. CountsHigh' /\ CountsExact'
    BY <1>1, <1>3, CountsStay
  <1>7. SystemsWhole'
    BY <1>1, WholeStays DEF MakingPcs, SysTypes
  <1>8. HandlesFitAll'
    <2>1. \A q \in SysProcs : q # p => HandlesFit(q)'
      BY <1>1, <1>2, OthersFit
    <2>2. HandlesFit(p)'
      <3>1. HandlesFit(p)  BY DEF HandlesFitAll
      <3> QED  BY <1>1, <3>1 DEF HandlesFit, MemberPcs
    <2> QED  BY <2>1, <2>2 DEF HandlesFitAll
  <1>9. FaultFree'
    <2>1. SysHolding' = SysHolding  BY <1>3, SetsStay
    <2> QED  BY <1>1, <2>1, FaultFreeStays
  <1> QED  BY <1>4, <1>5, <1>6, <1>7, <1>8, <1>9

\* A count is not zero while there is a member.
LEMMA MembersAreCounted ==
    ASSUME SysTypes, CountsHigh, NEW q \in SysProcs, sysPc[q] \in MemberPcs
    PROVE  sysShm.numprocs[sysOf[q]] > 0
  <1>1. sysOf[q] \in Systems
    BY DEF SysTypes
  <1>2. q \in MembersOf(sysOf[q]) /\ MembersOf(sysOf[q]) \in SUBSET SysProcs
    BY DEF MembersOf
  <1>3. Cardinality(MembersOf(sysOf[q])) \in Nat /\ Cardinality(MembersOf(sysOf[q])) > 0
    BY <1>2, ProcessCounts
  <1> QED  BY <1>1, <1>3 DEF CountsHigh, SysTypes, SysShms

\* radSystemInit touches the objects of its own system only, and only where
\* nobody is a member.
LEMMA ObjectsOfNobody ==
    ASSUME OneAtATime, SysInv, NEW p \in SysProcs, Calling(p), OthersSame(p),
           NEW s \in Systems, s = sysOf[p], sysShm'.numprocs = sysShm.numprocs, sysTorn' = sysTorn,
           \A t \in Systems : t # s \/ (sysShm.numprocs[t] # 0 /\ ~sysTorn)
               => semSet'[t] = semSet[t] /\ segment'[t] = segment[t],
           sysShm.numprocs[s] = 0 /\ ~sysTorn => Making(s)' \/ Bare(s)'
    PROVE  SystemsWhole' /\ \A q \in SysProcs : q # p => HandlesFit(q)'
  <1> USE DEF SysInv, SysShms
  <1>1. \A q \in SysProcs : Calling(q) => q = p
    BY DEF OneCaller
  <1>2. \A q \in SysProcs : q # p => HandlesFit(q)'
    <2>1. ASSUME NEW q \in SysProcs, q # p, sysPc[q] = "in", ~sysTorn
          PROVE  semSet'[sysOf[q]] = semSet[sysOf[q]] /\ segment'[sysOf[q]] = segment[sysOf[q]]
      <3>1. sysShm.numprocs[sysOf[q]] > 0
        BY <2>1, MembersAreCounted DEF MemberPcs
      <3>2. sysOf[q] \in Systems
        BY DEF SysTypes
      <3> QED  BY <2>1, <3>1, <3>2
    <2> QED  BY <1>1, <2>1, OthersFit
  <1>3. SystemsWhole'
    <2> SUFFICES ASSUME ~sysTorn, NEW t \in Systems
                 PROVE  /\ sysShm.numprocs[t] # 0 => SysReady(t)'
                        /\ sysShm.numprocs[t] = 0 => Making(t)' \/ Bare(t)'
      BY DEF SystemsWhole
    <2>1. /\ sysShm.numprocs[t] # 0 => SysReady(t)
          /\ sysShm.numprocs[t] = 0 => Making(t) \/ Bare(t)
      BY DEF SystemsWhole
    <2>2. CASE sysShm.numprocs[t] # 0
      <3>1. semSet'[t] = semSet[t] /\ segment'[t] = segment[t]
        BY <2>2
      <3> QED  BY <2>1, <2>2, <3>1 DEF SysReady
    <2>3. CASE sysShm.numprocs[t] = 0 /\ t = sysOf[p]
      BY <2>3
    <2>4. CASE sysShm.numprocs[t] = 0 /\ t # sysOf[p]
      <3>1. ~Making(t)
        BY <1>1, <2>4 DEF Making, Calling
      <3>2. semSet'[t] = semSet[t] /\ segment'[t] = segment[t]
        BY <2>4
      <3> QED  BY <2>1, <2>4, <3>1, <3>2 DEF Bare
    <2> QED  BY <2>2, <2>3, <2>4
  <1> QED  BY <1>2, <1>3

LEMMA AttachShmKeeps ==
    ASSUME OneAtATime, SysInv, NEW p \in SysProcs, AttachShm(p)
    PROVE  SysInv'
  <1> USE DEF SysInv, SysShms
  <1>1. /\ sysPc[p] = "shm" /\ OthersSame(p) /\ sysPc' \in [SysProcs -> SysPcs]
        /\ UNCHANGED <<sysSem, semSet, segment, sysOf, handle, sysGen, sysCalls>>
    BY DEF AttachShm, SysGoto, SysTypes, OthersSame, SysPcs
  <1>2. Calling(p) /\ \A q \in SysProcs : Calling(q) => q = p
    BY <1>1 DEF OneCaller, Calling
  <1>3. OneCaller'
    BY <1>1, <1>2, CallersStay
  <1>4. sysTorn' = sysTorn => \A q \in SysProcs : q # p => HandlesFit(q)'
    BY <1>1, <1>2, OthersFit
  <1>5. CASE /\ sysPc' = [sysPc EXCEPT ![p] = "sems"] /\ sysFaults' = sysFaults /\ sysTorn' = sysTorn
             /\ sysShm' = IF sysShm.there THEN Attached
                          ELSE [NoShm EXCEPT !.there = TRUE, !.numAttached = 1]
    <2>1. sysPc'[p] = "sems"
      BY <1>5 DEF SysTypes
    <2>2. /\ sysShm'.there = TRUE /\ sysShm'.numAttached = sysShm.numAttached + 1
          /\ sysShm'.numprocs = sysShm.numprocs /\ sysShm'.keyed = sysShm.keyed
          /\ sysShm' \in SysShms
      <3>1. CASE sysShm.there
        <4>1. sysShm \in SysShms
          BY DEF SysTypes
        <4>2. sysShm' = [sysShm EXCEPT !.numAttached = sysShm.numAttached + 1]
          BY <3>1, <1>5 DEF Attached
        <4>3. sysShm' \in SysShms
          BY <4>1, <4>2 DEF SysShms
        <4> QED  BY <3>1, <4>1, <4>2, <4>3 DEF SysShms
      <3>2. CASE ~sysShm.there
        <4>1. sysShm = NoShm
          BY <3>2 DEF CountsHigh
        <4>2. sysShm' = [there |-> TRUE, keyed |-> TRUE, numAttached |-> 1,
                         numprocs |-> [s \in Systems |-> 0]]
          BY <3>2, <1>5 DEF NoShm
        <4> QED  BY <4>1, <4>2 DEF NoShm, SysShms
      <3> QED  BY <3>1, <3>2
    <2>3. SysTypes'
      BY <1>1, <1>5, <2>2 DEF SysTypes
    <2>4. /\ \A s \in Systems : MembersOf(s)' = MembersOf(s) \ {p} /\ SysCounted(s)' = SysCounted(s) \ {p}
          /\ Attaching' = Attaching \cup {p} /\ SysHolding' = SysHolding \cup {p}
          /\ p \notin StillCounted
      BY <1>1, <2>1, SetsMove DEF Joins, MemberPcs, AttachedPcs
    <2>5. p \notin Attaching /\ p \notin SysHolding /\ \A s \in Systems : p \notin MembersOf(s) /\ p \notin SysCounted(s)
      BY <1>1, <2>4 DEF Attaching, SysHolding, MembersOf, SysCounted, AttachedPcs, MemberPcs
    <2>6. \A s \in Systems : MembersOf(s)' = MembersOf(s) /\ SysCounted(s)' = SysCounted(s)
      BY <2>4, <2>5
    <2>7. Cardinality(Attaching') = Cardinality(Attaching) + 1 /\ Cardinality(Attaching) \in Nat
      <3>1. Attaching \in SUBSET SysProcs
        BY DEF Attaching
      <3> QED  BY <2>4, <2>5, <3>1, ProcessCounts
    <2>8. Cardinality(SysHolding') = Cardinality(SysHolding) + 1 /\ Cardinality(SysHolding) \in Nat
      <3>1. SysHolding \in SUBSET SysProcs
        BY DEF SysHolding, Attaching, StillCounted
      <3> QED  BY <2>4, <2>5, <3>1, ProcessCounts
    <2>9. CountsHigh'
      <3>1. sysShm'.numAttached > 0
        <4>1. sysShm.numAttached >= 0
          BY <2>7 DEF CountsHigh, SysTypes, SysShms
        <4> QED  BY <2>2, <4>1 DEF SysTypes, SysShms
      <3>2. sysShm'.numAttached >= Cardinality(Attaching')
        BY <2>2, <2>7 DEF CountsHigh, SysTypes, SysShms
      <3>3. \A s \in Systems : sysShm'.numprocs[s] >= Cardinality(MembersOf(s)')
        BY <2>2, <2>6 DEF CountsHigh
      <3> QED  BY <1>5, <2>2, <3>1, <3>2, <3>3 DEF CountsHigh
    <2>10. CountsExact'
      <3> SUFFICES ASSUME ~sysTorn
                   PROVE  /\ \A s \in Systems : sysShm'.numprocs[s] = Cardinality(SysCounted(s)')
                          /\ sysShm'.numAttached >= Cardinality(SysHolding')
        BY <1>5 DEF CountsExact
      <3>1. \A s \in Systems : sysShm'.numprocs[s] = Cardinality(SysCounted(s)')
        BY <2>2, <2>6 DEF CountsExact
      <3>2. sysShm'.numAttached >= Cardinality(SysHolding')
        BY <2>2, <2>8 DEF CountsExact, SysTypes, SysShms
      <3> QED  BY <3>1, <3>2
    <2>11. SystemsWhole'
      BY <1>1, <1>5, <2>2, WholeStays DEF MakingPcs, SysTypes
    <2>12. HandlesFitAll'
      <3>1. HandlesFit(p)'
        BY <2>1 DEF HandlesFit, MemberPcs
      <3> QED  BY <3>1, <1>4, <1>5 DEF HandlesFitAll
    <2>13. FaultFree'
      <3> SUFFICES ASSUME sysFaults = 0
                   PROVE  /\ ~sysTorn /\ \A q \in SysProcs : sysPc'[q] # "dead"
                          /\ sysShm'.numAttached = Cardinality(SysHolding')
                          /\ \A q \in SysProcs : sysPc'[q] # "out" => handle'[q].sem = sysSem.gen /\ sysSem.gen # 0
                          /\ \E q \in SysProcs : sysPc'[q] # "out"
        BY <1>1, <1>5 DEF FaultFree
      <3>1. ~sysTorn /\ sysShm'.numAttached = Cardinality(SysHolding')
        BY <2>2, <2>8 DEF FaultFree
      <3>2. \A q \in SysProcs : sysPc'[q] # "dead"
        BY <1>1, <2>1 DEF FaultFree, OthersSame
      <3>3. \A q \in SysProcs : sysPc'[q] # "out" => handle'[q].sem = sysSem.gen /\ sysSem.gen # 0
        BY <1>1 DEF FaultFree, OthersSame
      <3> QED  BY <2>1, <3>1, <3>2, <3>3
    <2> QED  BY <1>3, <2>3, <2>9, <2>10, <2>11, <2>12, <2>13
  <1>6. CASE Fault /\ sysPc' = [sysPc EXCEPT ![p] = "out"] /\ sysShm' = sysShm /\ sysTorn' = sysTorn
    <2>1. sysPc'[p] = "out" /\ sysFaults' \in Nat /\ sysFaults' # 0
      BY <1>6 DEF SysTypes, Fault
    <2>2. SameSets(p)
      BY <1>1, <2>1 DEF SameSets, AttachedPcs, MemberPcs
    <2>3. CountsHigh' /\ CountsExact'
      BY <1>1, <1>6, <2>2, CountsStay
    <2>4. SystemsWhole'
      BY <1>1, <1>6, WholeStays DEF MakingPcs, SysTypes
    <2>5. HandlesFitAll'
      BY <1>4, <1>6, <2>1 DEF HandlesFitAll, HandlesFit, MemberPcs
    <2>6. SysTypes' /\ FaultFree'
      BY <1>1, <1>6, <2>1 DEF SysTypes, FaultFree
    <2> QED  BY <1>3, <2>3, <2>4, <2>5, <2>6
  <1>7. CASE /\ Fault /\ sysPc' = [sysPc EXCEPT ![p] = "out"]
             /\ ~sysShm.there /\ sysShm' = Zeroed /\ sysTorn' = TRUE
    <2>1. sysPc'[p] = "out" /\ sysFaults' \in Nat /\ sysFaults' # 0
      BY <1>7 DEF SysTypes, Fault
    <2>2. Zeroed \in SysShms
      BY ZeroedIs
    <2>3. SysTypes'
      BY <1>1, <1>7, <2>1, <2>2 DEF SysTypes
    <2> QED  BY <1>1, <1>7, <2>1, <2>3, TornKeeps
  <1> QED  BY <1>5, <1>6, <1>7 DEF AttachShm, SysGoto

LEMMA GivenKeepsGen ==
    ASSUME SysTypes, NEW p \in SysProcs
    PROVE  Given(p) \in [gen : Nat, val : Int] /\ Given(p).gen = sysSem.gen
  <1>1. sysSem \in [gen : Nat, val : Int]
    BY DEF SysTypes
  <1>2. [sysSem EXCEPT !.val = sysSem.val + 1] \in [gen : Nat, val : Int]
    BY <1>1
  <1>3. [sysSem EXCEPT !.val = sysSem.val + 1].gen = sysSem.gen
    BY <1>1
  <1>4. Given(p) = sysSem \/ Given(p) = [sysSem EXCEPT !.val = sysSem.val + 1]
    BY DEF Given
  <1> QED  BY <1>1, <1>2, <1>3, <1>4

\* A failure inside gives back what the first process of a system has made.
LEMMA GivingUpKeeps ==
    ASSUME OneAtATime, SysInv, NEW p \in SysProcs, NEW pc \in {"sems", "buffers", "table"},
           NEW s \in Systems, s = Area(p), Fault,
           InitGivesUp(p, pc), UNCHANGED <<sysShm, sysOf, handle, sysGen, sysCalls, sysTorn>>,
           semSet' = IF FirstOfSystem(p) THEN [semSet EXCEPT ![s] = NoSemSet] ELSE semSet,
           segment' = IF pc = "table" /\ FirstOfSystem(p)
                      THEN [segment EXCEPT ![s]["buffers"] = 0] ELSE segment
    PROVE  SysInv'
  <1> USE DEF SysInv, SysShms
  <1>1. /\ sysPc[p] = pc /\ sysPc'[p] = "out" /\ OthersSame(p) /\ sysPc' \in [SysProcs -> SysPcs]
        /\ sysFaults' \in Nat /\ sysFaults' # 0
    BY DEF InitGivesUp, Fault, SysGoto, SysTypes, OthersSame, SysPcs
  <1>2. Calling(p) /\ s \in Systems /\ \A q \in SysProcs : Calling(q) => q = p
    BY <1>1 DEF OneCaller, Calling, SysTypes
  <1>3. sysSem' \in [gen : Nat, val : Int]
    BY GivenKeepsGen DEF InitGivesUp
  <1>4. SysTypes'
    <2>1. NoSemSet \in [gen : Nat, val : [Segments -> Int]]
      BY DEF NoSemSet
    <2>2. semSet' \in [Systems -> [gen : Nat, val : [Segments -> Int]]]
      BY <1>2, <2>1 DEF SysTypes
    <2>3. segment' \in [Systems -> [Segments -> Nat]]
      BY <1>2 DEF SysTypes
    <2> QED  BY <1>1, <1>3, <2>2, <2>3 DEF SysTypes
  <1>5. CASE sysTorn
    BY <1>1, <1>4, <1>5, TornKeeps
  <1>6. CASE ~sysTorn
    <2>0. s = sysOf[p]
      BY <1>6, AreaIs
    <2>1. OneCaller'
      BY <1>1, <1>2, CallersStay
    <2>2. CountsHigh' /\ CountsExact'
      BY <1>1, CountsLeft DEF AttachedPcs, MemberPcs
    <2>3. SystemsWhole' /\ \A q \in SysProcs : q # p => HandlesFit(q)'
      <3>1. \A t \in Systems : t # s \/ sysShm.numprocs[t] # 0
                => semSet'[t] = semSet[t] /\ segment'[t] = segment[t]
        BY <1>2, <2>0 DEF FirstOfSystem, SysTypes
      <3>2. ASSUME sysShm.numprocs[s] = 0, ~sysTorn PROVE Bare(s)'
        <4>1. FirstOfSystem(p)
          BY <2>0, <3>2 DEF FirstOfSystem
        <4>2. semSet'[s] = NoSemSet
          BY <1>2, <4>1 DEF SysTypes
        <4>3. HandlesFit(p)
          BY DEF HandlesFitAll
        <4>4. CASE pc = "sems"
          <5>1. ~Making(s)
            BY <1>1, <1>2, <2>0, <4>4 DEF Making, Calling
          <5>2. Bare(s)
            BY <1>2, <3>2, <5>1 DEF SystemsWhole
          <5> QED  BY <4>2, <4>4, <5>2 DEF Bare
        <4>5. CASE pc = "buffers"
          <5>1. segment[s]["buffers"] = 0 /\ segment[s]["table"] = 0
            BY <1>1, <2>0, <3>2, <4>3, <4>5 DEF HandlesFit
          <5> QED  BY <4>2, <4>5, <5>1 DEF Bare, Segments
        <4>6. CASE pc = "table"
          <5>1. segment[s]["table"] = 0
            BY <1>1, <2>0, <3>2, <4>3, <4>6 DEF HandlesFit
          <5>2. segment'[s]["buffers"] = 0 /\ segment'[s]["table"] = 0
            BY <1>2, <4>1, <4>6, <5>1 DEF SysTypes, Segments
          <5> QED  BY <4>2, <5>2 DEF Bare, Segments
        <4> QED  BY <4>4, <4>5, <4>6
      <3> QED  BY <1>1, <1>2, <2>0, <3>1, <3>2, ObjectsOfNobody
    <2>4. HandlesFitAll'
      BY <1>1, <2>3 DEF HandlesFitAll, HandlesFit, MemberPcs
    <2>5. FaultFree'
      BY <1>1 DEF FaultFree
    <2> QED  BY <1>4, <2>1, <2>2, <2>3, <2>4, <2>5
  <1> QED  BY <1>5, <1>6

LEMMA AdvancingKeeps ==
    ASSUME OneAtATime, SysInv, NEW p \in SysProcs, NEW s \in Systems, ~sysTorn => s = sysOf[p],
           NEW from, NEW to, SysGoto(p, from, to),
           \/ from = "sems" /\ to = "buffers"
           \/ from = "buffers" /\ to = "table"
           \/ from = "table" /\ to = "enter",
           UNCHANGED <<sysSem, sysShm, sysOf, sysFaults, sysCalls, sysTorn>>,
           OthersSame(p), handle'[p].sem = handle[p].sem, SysTypes',
           \A t \in Systems : t # s \/ (sysShm.numprocs[t] # 0 /\ ~sysTorn)
               => semSet'[t] = semSet[t] /\ segment'[t] = segment[t],
           HandlesFit(p)'
    PROVE  SysInv'
  <1> USE DEF SysInv, SysShms
  <1>1. sysPc[p] = from /\ sysPc'[p] = to /\ sysOf'[p] = sysOf[p]
    BY DEF SysGoto, SysTypes
  <1>2. Calling(p)
    BY <1>1 DEF Calling
  <1>3. OneCaller'
    BY <1>2, CallersStay
  <1>4. SameSets(p)
    BY <1>1 DEF SameSets, AttachedPcs, MemberPcs
  <1>5. CountsHigh' /\ CountsExact'
    BY <1>4, CountsStay
  <1>6. SystemsWhole' /\ \A q \in SysProcs : q # p => HandlesFit(q)'
    <2>1. CASE sysTorn
      BY <2>1 DEF SystemsWhole, HandlesFitAll, HandlesFit, OthersSame
    <2>2. CASE ~sysTorn
      <3>1. Making(s)'
        BY <1>1, <2>2 DEF Making
      <3> QED  BY <1>2, <2>2, <3>1, ObjectsOfNobody
    <2> QED  BY <2>1, <2>2
  <1>7. HandlesFitAll'
    BY <1>6 DEF HandlesFitAll
  <1>8. FaultFree'
    <2>1. SysHolding' = SysHolding  BY <1>4, SetsStay
    <2> QED  BY <1>1, <2>1, FaultFreeStays
  <1> QED  BY <1>3, <1>5, <1>6, <1>7, <1>8

LEMMA GetSemsKeeps ==
    ASSUME OneAtATime, SysInv, NEW p \in SysProcs, GetSems(p)
    PROVE  SysInv'
  <1> USE DEF SysInv, SysShms
  <1> SUFFICES ASSUME NEW s \in Systems, s = Area(p), ~sysTorn => s = sysOf[p] PROVE SysInv'
    BY AreaIs
  <1>1. CASE SysGoto(p, "sems", "buffers") /\ UNCHANGED <<sysSem, sysFaults>>
    <2>0. /\ UNCHANGED <<sysSem, sysShm, segment, sysOf, sysFaults, sysCalls, sysTorn>>
          /\ handle' = [handle EXCEPT ![p].set = semSet'[s].gen]
          /\ IF FirstOfSystem(p) \/ semSet[s].gen = 0
             THEN /\ semSet' = [semSet EXCEPT ![s] = [NoSemSet EXCEPT !.gen = sysGen + 1]]
                  /\ sysGen' = sysGen + 1
             ELSE semSet' = semSet /\ sysGen' = sysGen
      BY <1>1 DEF GetSems, InitGivesUp, SetGone, SysGoto, SysTypes
    <2>1. /\ sysPc[p] = "sems" /\ sysPc'[p] = "buffers" /\ sysPc' \in [SysProcs -> SysPcs] /\ sysOf'[p] = sysOf[p]
          /\ sysOf' = sysOf /\ OthersSame(p)
      BY <1>1, <2>0 DEF SysGoto, SysTypes, SysPcs, OthersSame
    <2>2. semSet' \in [Systems -> [gen : Nat, val : [Segments -> Int]]] /\ sysGen' \in Nat
      <3>1. [NoSemSet EXCEPT !.gen = sysGen + 1] \in [gen : Nat, val : [Segments -> Int]]
        <4>1. sysGen + 1 \in Nat
          BY DEF SysTypes
        <4>2. NoSemSet \in [gen : Nat, val : [Segments -> Int]]
          BY DEF NoSemSet
        <4> QED  BY ONLY <4>1, <4>2
      <3> DEFINE r == [NoSemSet EXCEPT !.gen = sysGen + 1]
      <3>2. sysGen + 1 \in Nat /\ sysGen \in Nat
        BY DEF SysTypes
      <3>3. semSet \in [Systems -> [gen : Nat, val : [Segments -> Int]]]
        BY DEF SysTypes
      <3>4. (semSet' = [semSet EXCEPT ![s] = r] /\ sysGen' = sysGen + 1)
            \/ (semSet' = semSet /\ sysGen' = sysGen)
        BY <2>0
      <3> HIDE DEF r
      <3>5. [semSet EXCEPT ![s] = r] \in [Systems -> [gen : Nat, val : [Segments -> Int]]]
        BY <3>1, <3>3 DEF r
      <3> QED  BY <3>2, <3>3, <3>4, <3>5
    <2>3. semSet'[s].gen \in Nat
      BY <2>2
    <2>4. handle' \in [SysProcs -> [sem : Nat, set : Nat, buffers : Nat, table : Nat]]
          /\ handle'[p].sem = handle[p].sem /\ handle'[p].set = semSet'[s].gen
      BY <2>0, <2>3 DEF SysTypes
    <2>5. SysTypes'
      BY <2>0, <2>1, <2>2, <2>4 DEF SysTypes
    <2>6. ASSUME NEW t \in Systems, t # s \/ (sysShm.numprocs[t] # 0 /\ ~sysTorn)
          PROVE  semSet'[t] = semSet[t] /\ segment'[t] = segment[t]
      <3>1. CASE t # s
        BY <2>0, <3>1 DEF SysTypes
      <3>2. CASE t = s /\ sysShm.numprocs[t] # 0 /\ ~sysTorn
        <4>1. SysReady(s)
          BY <3>2 DEF SystemsWhole
        <4> QED  BY <2>0, <3>2, <4>1 DEF SysReady, FirstOfSystem
      <3> QED  BY <2>6, <3>1, <3>2
    <2>7. HandlesFit(p)'
      <3> SUFFICES ASSUME ~sysTorn
                   PROVE  /\ semSet'[s].gen # 0
                          /\ sysShm.numprocs[s] = 0 => segment[s]["buffers"] = 0 /\ segment[s]["table"] = 0
        BY <2>0, <2>1, <2>4 DEF HandlesFit, MemberPcs
      <3>1. semSet'[s].gen # 0
        BY <2>0 DEF SysTypes, NoSemSet
      <3>2. ASSUME sysShm.numprocs[s] = 0
            PROVE  segment[s]["buffers"] = 0 /\ segment[s]["table"] = 0
        <4>1. ~Making(s)
          BY <2>1 DEF Making, OneCaller, Calling
        <4>2. Bare(s)
          BY <3>2, <4>1 DEF SystemsWhole
        <4> QED  BY <4>2 DEF Bare, Segments
      <3> QED  BY <3>1, <3>2
    <2> QED  BY <1>1, <2>0, <2>1, <2>4, <2>5, <2>6, <2>7, AdvancingKeeps
  <1>2. CASE Fault /\ InitGivesUp(p, "sems")
    <2>1. /\ UNCHANGED <<sysShm, segment, sysOf, handle, sysGen, sysCalls, sysTorn>>
          /\ semSet' = IF FirstOfSystem(p) THEN [semSet EXCEPT ![s] = NoSemSet] ELSE semSet
      BY <1>2 DEF GetSems, InitGivesUp, SetGone, SysGoto, SysTypes
    <2> QED  BY <1>2, <2>1, GivingUpKeeps
  <1> QED  BY <1>1, <1>2 DEF GetSems

\* radShmemInit: the caller holds the segment that is there afterwards, and one
\* it has made is guarded by a semaphore of the caller's set.
LEMMA SegmentHeld ==
    ASSUME SysTypes, NEW p \in SysProcs, NEW s \in Systems, s = Area(p),
           NEW k \in {"buffers", "table"}, radShmemInit(p, k)
    PROVE  /\ handle' \in [SysProcs -> [sem : Nat, set : Nat, buffers : Nat, table : Nat]]
           /\ \A q \in SysProcs : q # p => handle'[q] = handle[q]
           /\ handle'[p].sem = handle[p].sem /\ handle'[p].set = handle[p].set
           /\ k = "buffers" => handle'[p].buffers = segment'[s]["buffers"]
           /\ k = "table" => /\ handle'[p].table = segment'[s]["table"]
                             /\ handle'[p].buffers = handle[p].buffers
           /\ segment' \in [Systems -> [Segments -> Nat]] /\ segment'[s][k] # 0
           /\ \A j \in Segments : j # k => segment'[s][j] = segment[s][j]
           /\ semSet' \in [Systems -> [gen : Nat, val : [Segments -> Int]]]
           /\ semSet'[s].gen = semSet[s].gen
           /\ \A j \in Segments : j # k => semSet'[s].val[j] = semSet[s].val[j]
           /\ segment[s][k] = 0 /\ semSet[s].gen = handle[p].set => semSet'[s].val[k] = 1
           /\ sysGen' \in Nat
           /\ \A t \in Systems : t # s \/ segment[t][k] # 0
                  => semSet'[t] = semSet[t] /\ segment'[t] = segment[t]
  <1>0. /\ sysGen \in Nat /\ k \in Segments /\ segment[s][k] \in Nat
        /\ segment \in [Systems -> [Segments -> Nat]]
        /\ semSet \in [Systems -> [gen : Nat, val : [Segments -> Int]]]
        /\ handle \in [SysProcs -> [sem : Nat, set : Nat, buffers : Nat, table : Nat]]
    BY DEF SysTypes, Segments
  <1>1. CASE segment[s][k] # 0
    <2>1. /\ handle' = [handle EXCEPT ![p][k] = segment[s][k]]
          /\ segment' = segment /\ semSet' = semSet /\ sysGen' = sysGen
      BY <1>1 DEF radShmemInit, SetUp
    <2>2. CASE k = "buffers"
      <3>1. handle' = [handle EXCEPT ![p] = [handle[p] EXCEPT !.buffers = segment[s]["buffers"]]]
        BY <2>1, <2>2
      <3>2. [handle[p] EXCEPT !.buffers = segment[s]["buffers"]] \in [sem : Nat, set : Nat, buffers : Nat, table : Nat]
        BY <1>0, <2>2
      <3>3. /\ handle' \in [SysProcs -> [sem : Nat, set : Nat, buffers : Nat, table : Nat]]
            /\ \A q \in SysProcs : q # p => handle'[q] = handle[q]
            /\ handle'[p] = [handle[p] EXCEPT !.buffers = segment[s]["buffers"]]
        BY <1>0, <3>1, <3>2
      <3> QED  BY <1>0, <1>1, <2>1, <2>2, <3>3
    <2>3. CASE k = "table"
      <3>1. handle' = [handle EXCEPT ![p] = [handle[p] EXCEPT !.table = segment[s]["table"]]]
        BY <2>1, <2>3
      <3>2. [handle[p] EXCEPT !.table = segment[s]["table"]] \in [sem : Nat, set : Nat, buffers : Nat, table : Nat]
        BY <1>0, <2>3
      <3>3. /\ handle' \in [SysProcs -> [sem : Nat, set : Nat, buffers : Nat, table : Nat]]
            /\ \A q \in SysProcs : q # p => handle'[q] = handle[q]
            /\ handle'[p] = [handle[p] EXCEPT !.table = segment[s]["table"]]
        BY <1>0, <3>1, <3>2
      <3> QED  BY <1>0, <1>1, <2>1, <2>3, <3>3
    <2> QED  BY <2>2, <2>3
  <1>2. CASE segment[s][k] = 0
    <2>1. /\ segment' = [segment EXCEPT ![s][k] = sysGen + 1] /\ sysGen' = sysGen + 1
          /\ handle' = [handle EXCEPT ![p][k] = sysGen + 1]
          /\ semSet' = IF semSet[s].gen = handle[p].set
                       THEN [semSet EXCEPT ![s].val[k] = 1] ELSE semSet
      BY <1>2 DEF radShmemInit, SetUp
    <2>2. /\ segment' \in [Systems -> [Segments -> Nat]] /\ segment'[s][k] = sysGen + 1
          /\ \A j \in Segments : j # k => segment'[s][j] = segment[s][j]
          /\ \A t \in Systems : t # s => segment'[t] = segment[t]
      BY <1>0, <2>1
    <2>3. /\ semSet' \in [Systems -> [gen : Nat, val : [Segments -> Int]]]
          /\ semSet'[s].gen = semSet[s].gen
          /\ \A j \in Segments : j # k => semSet'[s].val[j] = semSet[s].val[j]
          /\ semSet[s].gen = handle[p].set => semSet'[s].val[k] = 1
          /\ \A t \in Systems : t # s => semSet'[t] = semSet[t]
      <3>1. CASE semSet[s].gen # handle[p].set
        BY <1>0, <2>1, <3>1
      <3>2. CASE semSet[s].gen = handle[p].set
        <4> DEFINE v == [semSet[s].val EXCEPT ![k] = 1]
                   r == [semSet[s] EXCEPT !.val = v]
        <4>1. semSet' = [semSet EXCEPT ![s] = r]
          BY <2>1, <3>2
        <4>2. /\ r \in [gen : Nat, val : [Segments -> Int]] /\ r.gen = semSet[s].gen
              /\ \A j \in Segments : j # k => r.val[j] = semSet[s].val[j]
              /\ r.val[k] = 1
          <5>1. semSet[s] \in [gen : Nat, val : [Segments -> Int]]
            BY <1>0
          <5>2. /\ v \in [Segments -> Int] /\ v[k] = 1
                /\ \A j \in Segments : j # k => v[j] = semSet[s].val[j]
            BY <1>0, <5>1
          <5> HIDE DEF v
          <5>3. r \in [gen : Nat, val : [Segments -> Int]] /\ r.gen = semSet[s].gen /\ r.val = v
            BY <5>1, <5>2
          <5> QED  BY <5>2, <5>3
        <4> HIDE DEF r
        <4> QED  BY <1>0, <4>1, <4>2
      <3> QED  BY <3>1, <3>2
    <2>4. CASE k = "buffers"
      <3>1. handle' = [handle EXCEPT ![p] = [handle[p] EXCEPT !.buffers = sysGen + 1]]
        BY <2>1, <2>4
      <3>2. [handle[p] EXCEPT !.buffers = sysGen + 1] \in [sem : Nat, set : Nat, buffers : Nat, table : Nat]
        BY <1>0
      <3>3. /\ handle' \in [SysProcs -> [sem : Nat, set : Nat, buffers : Nat, table : Nat]]
            /\ \A q \in SysProcs : q # p => handle'[q] = handle[q]
            /\ handle'[p] = [handle[p] EXCEPT !.buffers = sysGen + 1]
        BY SMTT(30), <1>0, <3>1, <3>2
      <3> QED  BY <1>0, <1>2, <2>1, <2>2, <2>3, <2>4, <3>3
    <2>5. CASE k = "table"
      <3>1. handle' = [handle EXCEPT ![p] = [handle[p] EXCEPT !.table = sysGen + 1]]
        BY <2>1, <2>5
      <3>2. [handle[p] EXCEPT !.table = sysGen + 1] \in [sem : Nat, set : Nat, buffers : Nat, table : Nat]
        BY <1>0
      <3>3. /\ handle' \in [SysProcs -> [sem : Nat, set : Nat, buffers : Nat, table : Nat]]
            /\ \A q \in SysProcs : q # p => handle'[q] = handle[q]
            /\ handle'[p] = [handle[p] EXCEPT !.table = sysGen + 1]
        BY <1>0, <3>1, <3>2
      <3> QED  BY <1>0, <1>2, <2>1, <2>2, <2>3, <2>5, <3>3
    <2> QED  BY <2>4, <2>5
  <1> QED  BY <1>0, <1>1, <1>2

LEMMA SetUpTypes ==
    ASSUME SysTypes, NEW p \in SysProcs, NEW k \in Segments, Area(p) \in Systems
    PROVE  SetUp(p, k) \in [Systems -> [gen : Nat, val : [Segments -> Int]]]
  <1> DEFINE a == Area(p)
             v == [semSet[a].val EXCEPT ![k] = 1]
             r == [semSet[a] EXCEPT !.val = v]
  <1>1. semSet \in [Systems -> [gen : Nat, val : [Segments -> Int]]] /\ a \in Systems
    BY DEF SysTypes
  <1>2. SetUp(p, k) = semSet \/ SetUp(p, k) = [semSet EXCEPT ![a] = r]
    BY DEF SetUp
  <1>3. v \in [Segments -> Int]
    BY <1>1
  <1> HIDE DEF v
  <1>4. r \in [gen : Nat, val : [Segments -> Int]]
    BY <1>1, <1>3
  <1> HIDE DEF r, a
  <1> QED  BY <1>1, <1>2, <1>4

\* A failing radShmemInit: all is as before the call, or something is torn.
LEMMA FailingInitKeeps ==
    ASSUME OneAtATime, SysInv, NEW p \in SysProcs, NEW pc \in {"buffers", "table"},
           NEW s \in Systems, s = Area(p), InitGivesUp(p, pc), NEW left,
           UNCHANGED <<sysShm, sysOf, handle, sysCalls>>,
           radShmemInitFails(p, pc, left),
           left = IF pc = "table" /\ FirstOfSystem(p)
                  THEN [segment EXCEPT ![s]["buffers"] = 0] ELSE segment,
           IF sysTorn /\ ~FirstOfSystem(p)
           THEN semSet' \in [Systems -> [gen : Nat, val : [Segments -> Int]]]
           ELSE semSet' = IF FirstOfSystem(p) THEN SetGone(p) ELSE semSet
    PROVE  SysInv'
  <1> USE DEF SysInv, SysShms
  <1>0. SetGone(p) = [semSet EXCEPT ![s] = NoSemSet]
    BY DEF SetGone
  <1>1. /\ sysPc[p] = pc /\ sysPc'[p] = "out" /\ OthersSame(p) /\ sysPc' \in [SysProcs -> SysPcs]
        /\ sysFaults' \in Nat /\ sysFaults' # 0 /\ sysSem' \in [gen : Nat, val : Int] /\ Fault
    BY GivenKeepsGen
       DEF InitGivesUp, radShmemInitFails, Fault, SysGoto, SysTypes, OthersSame, SysPcs
  <1>2. semSet' \in [Systems -> [gen : Nat, val : [Segments -> Int]]]
    <2>1. NoSemSet \in [gen : Nat, val : [Segments -> Int]]
      BY DEF NoSemSet
    <2>2. SetGone(p) \in [Systems -> [gen : Nat, val : [Segments -> Int]]]
      BY <1>0, <2>1 DEF SysTypes
    <2> QED  BY <2>2 DEF SysTypes
  <1>3. left \in [Systems -> [Segments -> Nat]] /\ sysGen + 1 \in Nat
    <2>1. [segment EXCEPT ![s]["buffers"] = 0] \in [Systems -> [Segments -> Nat]]
      BY DEF SysTypes
    <2> QED  BY <2>1 DEF SysTypes
  <1>4. CASE segment' = left /\ UNCHANGED <<sysGen, sysTorn>>
    <2>1. SysTypes'
      BY <1>1, <1>2, <1>3, <1>4 DEF SysTypes
    <2>2. CASE sysTorn
      BY <1>1, <1>4, <2>1, <2>2, TornKeeps
    <2>3. CASE ~sysTorn
      BY <1>0, <1>1, <1>4, <2>3, GivingUpKeeps
    <2> QED  BY <2>2, <2>3
  <1>5. CASE segment' = [left EXCEPT ![s][pc] = sysGen + 1] /\ sysGen' = sysGen + 1 /\ sysTorn' = TRUE
    <2>1. segment' \in [Systems -> [Segments -> Nat]]
      <3> HIDE DEF SysInv, SysShms
      <3> QED  BY ONLY <1>3, <1>5
    <2>2. SysTypes'
      BY <1>1, <1>2, <1>3, <1>5, <2>1 DEF SysTypes
    <2> QED  BY <1>1, <1>5, <2>2, TornKeeps
  <1> QED  BY <1>4, <1>5 DEF radShmemInitFails

LEMMA GetBuffersKeeps ==
    ASSUME OneAtATime, SysInv, NEW p \in SysProcs, GetBuffers(p)
    PROVE  SysInv'
  <1> USE DEF SysInv, SysShms
  <1> SUFFICES ASSUME NEW s \in Systems, s = Area(p), ~sysTorn => s = sysOf[p] PROVE SysInv'
    BY AreaIs
  <1>1. CASE SysGoto(p, "buffers", "table") /\ UNCHANGED <<sysSem, sysFaults, sysTorn>> /\ radShmemInit(p, "buffers")
    <2>0. UNCHANGED <<sysSem, sysShm, sysOf, sysFaults, sysCalls, sysTorn>> /\ radShmemInit(p, "buffers")
      BY <1>1 DEF GetBuffers
    <2>1. /\ sysPc[p] = "buffers" /\ sysPc'[p] = "table" /\ sysPc' \in [SysProcs -> SysPcs] /\ sysOf'[p] = sysOf[p]
          /\ \A q \in SysProcs : q # p => sysPc'[q] = sysPc[q]
      BY <1>1, <2>0 DEF SysGoto, SysTypes, SysPcs
    <2>2. /\ handle' \in [SysProcs -> [sem : Nat, set : Nat, buffers : Nat, table : Nat]]
          /\ \A q \in SysProcs : q # p => handle'[q] = handle[q]
          /\ handle'[p].sem = handle[p].sem /\ handle'[p].set = handle[p].set
          /\ handle'[p].buffers = segment'[s]["buffers"]
      BY <2>0, SegmentHeld
    <2>3. /\ segment' \in [Systems -> [Segments -> Nat]] /\ segment'[s]["buffers"] # 0
          /\ segment'[s]["table"] = segment[s]["table"]
          /\ semSet' \in [Systems -> [gen : Nat, val : [Segments -> Int]]] /\ semSet'[s].gen = semSet[s].gen
          /\ segment[s]["buffers"] = 0 /\ semSet[s].gen = handle[p].set => semSet'[s].val["buffers"] = 1
          /\ sysGen' \in Nat
      BY <2>0, SegmentHeld DEF Segments
    <2>4. \A t \in Systems : t # s \/ segment[t]["buffers"] # 0
              => semSet'[t] = semSet[t] /\ segment'[t] = segment[t]
      BY <2>0, SegmentHeld
    <2>5. SysTypes'
      BY <2>0, <2>1, <2>2, <2>3 DEF SysTypes
    <2>6. ASSUME sysShm.numprocs[s] # 0, ~sysTorn
          PROVE  segment[s]["buffers"] # 0 /\ semSet[s].val["buffers"] = 1
      BY <2>6 DEF SystemsWhole, SysReady, Segments
    <2>7. \A t \in Systems : t # s \/ (sysShm.numprocs[t] # 0 /\ ~sysTorn)
              => semSet'[t] = semSet[t] /\ segment'[t] = segment[t]
      BY <2>4, <2>6
    <2>8. HandlesFit(p)'
      <3> SUFFICES ASSUME ~sysTorn
                   PROVE  /\ handle'[p].set = semSet'[s].gen /\ semSet'[s].gen # 0
                          /\ handle'[p].buffers = segment'[s]["buffers"] /\ handle'[p].buffers # 0
                          /\ semSet'[s].val["buffers"] = 1
                          /\ sysShm.numprocs[s] = 0 => segment'[s]["table"] = 0
        BY <2>0, <2>1 DEF HandlesFit, MemberPcs
      <3>1. /\ handle[p].set = semSet[s].gen /\ semSet[s].gen # 0
            /\ sysShm.numprocs[s] = 0 => segment[s]["buffers"] = 0 /\ segment[s]["table"] = 0
        BY <2>1 DEF HandlesFitAll, HandlesFit
      <3>2. semSet'[s].val["buffers"] = 1
        <4>1. CASE sysShm.numprocs[s] = 0
          BY <4>1, <3>1, <2>3
        <4>2. CASE sysShm.numprocs[s] # 0
          BY <4>2, <2>6, <2>7
        <4> QED  BY <4>1, <4>2
      <3> QED  BY <2>2, <2>3, <3>1, <3>2
    <2>9. OthersSame(p)
      BY <2>0, <2>1, <2>2 DEF OthersSame
    <2> QED  BY <1>1, <2>0, <2>2, <2>5, <2>7, <2>8, <2>9, AdvancingKeeps
  <1>2. CASE /\ InitGivesUp(p, "buffers") /\ radShmemInitFails(p, "buffers", segment)
             /\ semSet' = IF FirstOfSystem(p) THEN SetGone(p) ELSE semSet
             /\ UNCHANGED handle
    <2>1. semSet \in [Systems -> [gen : Nat, val : [Segments -> Int]]]
      BY DEF SysTypes
    <2> QED  BY <1>2, <2>1, FailingInitKeeps DEF GetBuffers
  <1>3. CASE /\ InitGivesUp(p, "buffers")
             /\ ~FirstOfSystem(p) /\ segment[s]["buffers"] = 0
             /\ UNCHANGED <<segment, semSet, handle, sysGen, sysFaults, sysTorn>>
    <2>1. sysTorn
      BY <1>3 DEF SystemsWhole, SysReady, FirstOfSystem, Segments
    <2>2. sysFaults # 0
      BY <2>1 DEF FaultFree
    <2>3. /\ sysPc[p] = "buffers" /\ sysPc'[p] = "out" /\ OthersSame(p) /\ SysTypes'
          /\ sysShm' = sysShm
      BY <1>3, GivenKeepsGen DEF GetBuffers, InitGivesUp, SysGoto, SysTypes, OthersSame, SysPcs
    <2> QED  BY <1>3, <2>1, <2>2, <2>3, TornKeeps
  <1> QED  BY <1>1, <1>2, <1>3 DEF GetBuffers

LEMMA GetTableKeeps ==
    ASSUME OneAtATime, SysInv, NEW p \in SysProcs, GetTable(p)
    PROVE  SysInv'
  <1> USE DEF SysInv, SysShms
  <1> SUFFICES ASSUME NEW s \in Systems, s = Area(p), ~sysTorn => s = sysOf[p] PROVE SysInv'
    BY AreaIs
  <1>1. CASE SysGoto(p, "table", "enter") /\ UNCHANGED <<sysSem, sysFaults, sysTorn>> /\ radShmemInit(p, "table")
    <2>0. UNCHANGED <<sysSem, sysShm, sysOf, sysFaults, sysCalls, sysTorn>> /\ radShmemInit(p, "table")
      BY <1>1 DEF GetTable
    <2>1. /\ sysPc[p] = "table" /\ sysPc'[p] = "enter" /\ sysPc' \in [SysProcs -> SysPcs] /\ sysOf'[p] = sysOf[p]
          /\ \A q \in SysProcs : q # p => sysPc'[q] = sysPc[q]
      BY <1>1, <2>0 DEF SysGoto, SysTypes, SysPcs
    <2>2. /\ handle' \in [SysProcs -> [sem : Nat, set : Nat, buffers : Nat, table : Nat]]
          /\ \A q \in SysProcs : q # p => handle'[q] = handle[q]
          /\ handle'[p].sem = handle[p].sem /\ handle'[p].set = handle[p].set
          /\ handle'[p].buffers = handle[p].buffers /\ handle'[p].table = segment'[s]["table"]
      BY <2>0, SegmentHeld
    <2>3. /\ segment' \in [Systems -> [Segments -> Nat]] /\ segment'[s]["table"] # 0
          /\ segment'[s]["buffers"] = segment[s]["buffers"]
          /\ semSet' \in [Systems -> [gen : Nat, val : [Segments -> Int]]] /\ semSet'[s].gen = semSet[s].gen
          /\ semSet'[s].val["buffers"] = semSet[s].val["buffers"]
          /\ segment[s]["table"] = 0 /\ semSet[s].gen = handle[p].set => semSet'[s].val["table"] = 1
          /\ sysGen' \in Nat
      BY <2>0, SegmentHeld DEF Segments
    <2>4. \A t \in Systems : t # s \/ segment[t]["table"] # 0
              => semSet'[t] = semSet[t] /\ segment'[t] = segment[t]
      BY <2>0, SegmentHeld
    <2>5. SysTypes'
      BY <2>0, <2>1, <2>2, <2>3 DEF SysTypes
    <2>6. ASSUME sysShm.numprocs[s] # 0, ~sysTorn
          PROVE  segment[s]["table"] # 0 /\ semSet[s].val["table"] = 1
      BY <2>6 DEF SystemsWhole, SysReady, Segments
    <2>7. \A t \in Systems : t # s \/ (sysShm.numprocs[t] # 0 /\ ~sysTorn)
              => semSet'[t] = semSet[t] /\ segment'[t] = segment[t]
      BY <2>4, <2>6
    <2>8. HandlesFit(p)'
      <3> SUFFICES ASSUME ~sysTorn
                   PROVE  /\ handle'[p].set = semSet'[s].gen /\ semSet'[s].gen # 0
                          /\ handle'[p].buffers = segment'[s]["buffers"] /\ handle'[p].buffers # 0
                          /\ semSet'[s].val["buffers"] = 1
                          /\ handle'[p].table = segment'[s]["table"] /\ handle'[p].table # 0
                          /\ semSet'[s].val["table"] = 1
        BY <2>0, <2>1 DEF HandlesFit, MemberPcs
      <3>1. /\ handle[p].set = semSet[s].gen /\ semSet[s].gen # 0
            /\ handle[p].buffers = segment[s]["buffers"] /\ handle[p].buffers # 0
            /\ semSet[s].val["buffers"] = 1
            /\ sysShm.numprocs[s] = 0 => segment[s]["table"] = 0
        BY <2>1 DEF HandlesFitAll, HandlesFit
      <3>2. semSet'[s].val["table"] = 1
        <4>1. CASE sysShm.numprocs[s] = 0
          BY <4>1, <3>1, <2>3
        <4>2. CASE sysShm.numprocs[s] # 0
          BY <4>2, <2>6, <2>7
        <4> QED  BY <4>1, <4>2
      <3> QED  BY <2>2, <2>3, <3>1, <3>2
    <2>9. OthersSame(p)
      BY <2>0, <2>1, <2>2 DEF OthersSame
    <2> QED  BY <1>1, <2>0, <2>2, <2>5, <2>7, <2>8, <2>9, AdvancingKeeps
  <1>2. CASE /\ InitGivesUp(p, "table") /\ FirstOfSystem(p)
             /\ radShmemInitFails(p, "table", [segment EXCEPT ![s]["buffers"] = 0])
             /\ semSet' = SetGone(p) /\ UNCHANGED handle
    BY <1>2, FailingInitKeeps DEF GetTable
  <1>3. CASE /\ InitGivesUp(p, "table") /\ ~FirstOfSystem(p)
             /\ radShmemInitFails(p, "table", segment)
             /\ semSet' \in {semSet, SetUp(p, "table")} /\ UNCHANGED handle
    <2>1. SetUp(p, "table") \in [Systems -> [gen : Nat, val : [Segments -> Int]]]
      BY SetUpTypes DEF Segments
    <2>2. ~sysTorn => SetUp(p, "table") = semSet
      BY <1>3 DEF SystemsWhole, SysReady, FirstOfSystem, SetUp, Segments
    <2>3. IF sysTorn /\ ~FirstOfSystem(p)
          THEN semSet' \in [Systems -> [gen : Nat, val : [Segments -> Int]]]
          ELSE semSet' = IF FirstOfSystem(p) THEN SetGone(p) ELSE semSet
      BY <1>3, <2>1, <2>2 DEF SysTypes
    <2>4. UNCHANGED <<sysShm, sysOf, sysCalls>>
      BY DEF GetTable
    <2> QED  BY <1>3, <2>3, <2>4, FailingInitKeeps
  <1> QED  BY <1>1, <1>2, <1>3 DEF GetTable

LEMMA EnterKeeps ==
    ASSUME OneAtATime, SysInv, NEW p \in SysProcs, Enter(p)
    PROVE  SysInv'
  <1> USE DEF SysInv, SysShms
  <1> SUFFICES ASSUME NEW s \in Systems, s = sysOf[p] PROVE SysInv'
    BY DEF SysTypes
  <1>1. /\ sysPc[p] = "enter" /\ sysPc'[p] = "in" /\ sysPc' \in [SysProcs -> SysPcs] /\ OthersSame(p)
        /\ sysShm' = [sysShm EXCEPT !.numprocs = [sysShm.numprocs EXCEPT ![s] = sysShm.numprocs[s] + 1]]
        /\ sysSem' = Given(p)
        /\ UNCHANGED <<semSet, segment, sysOf, handle, sysGen, sysFaults, sysCalls, sysTorn>>
    BY DEF Enter, SysGoto, SysTypes, SysPcs, OthersSame
  <1>2. sysShm \in SysShms
    BY DEF SysTypes
  <1>3. [sysShm.numprocs EXCEPT ![s] = sysShm.numprocs[s] + 1] \in [Systems -> Int]
    BY <1>2
  <1>4. /\ sysShm' \in SysShms
        /\ sysShm'.there = sysShm.there /\ sysShm'.keyed = sysShm.keyed
        /\ sysShm'.numAttached = sysShm.numAttached
        /\ sysShm'.numprocs = [sysShm.numprocs EXCEPT ![s] = sysShm.numprocs[s] + 1]
    BY <1>1, <1>2, <1>3
  <1>5. /\ sysShm'.numprocs[s] = sysShm.numprocs[s] + 1
        /\ \A t \in Systems : t # s => sysShm'.numprocs[t] = sysShm.numprocs[t]
    BY <1>2, <1>4
  <1>6. Calling(p) /\ \A q \in SysProcs : Calling(q) => q = p
    BY <1>1 DEF OneCaller, Calling
  <1>7. SysTypes'
    BY <1>1, <1>4, GivenKeepsGen DEF SysTypes
  <1>8. OneCaller'
    BY <1>1, <1>6, CallersStay
  <1>9. /\ \A t \in Systems : /\ MembersOf(t)' = Joins(MembersOf(t), p, s = t)
                              /\ SysCounted(t)' = Joins(SysCounted(t), p, s = t)
        /\ Attaching' = Attaching \cup {p} /\ SysHolding' = SysHolding \cup {p} /\ p \notin StillCounted
    BY <1>1, SetsMove DEF Joins, MemberPcs, AttachedPcs
  <1>10. /\ p \in Attaching /\ p \in SysHolding
         /\ \A t \in Systems : p \notin MembersOf(t) /\ p \notin SysCounted(t)
    BY <1>1, <1>9 DEF Attaching, SysHolding, MembersOf, SysCounted, AttachedPcs, MemberPcs
  <1>11. Attaching' = Attaching /\ SysHolding' = SysHolding
    BY <1>9, <1>10
  <1>12. ASSUME NEW t \in Systems
         PROVE  /\ t # s => MembersOf(t)' = MembersOf(t) /\ SysCounted(t)' = SysCounted(t)
                /\ t = s => /\ Cardinality(MembersOf(t)') = Cardinality(MembersOf(t)) + 1
                            /\ Cardinality(SysCounted(t)') = Cardinality(SysCounted(t)) + 1
                /\ Cardinality(MembersOf(t)) \in Nat /\ Cardinality(SysCounted(t)) \in Nat
    <2>1. MembersOf(t) \in SUBSET SysProcs /\ SysCounted(t) \in SUBSET SysProcs
      BY DEF MembersOf, SysCounted, StillCounted
    <2>2. Cardinality(MembersOf(t)) \in Nat /\ Cardinality(SysCounted(t)) \in Nat
      BY <2>1, ProcessCounts
    <2>3. CASE t # s
      <3>1. MembersOf(t)' = MembersOf(t) \ {p} /\ SysCounted(t)' = SysCounted(t) \ {p}
        BY <1>9, <2>3 DEF Joins
      <3> QED  BY <1>10, <2>2, <2>3, <3>1
    <2>4. CASE t = s
      <3>1. MembersOf(t)' = MembersOf(t) \cup {p} /\ SysCounted(t)' = SysCounted(t) \cup {p}
        BY <1>9, <2>4 DEF Joins
      <3>2. p \notin MembersOf(t) /\ p \notin SysCounted(t)
        BY <1>10
      <3>3. /\ Cardinality(MembersOf(t) \cup {p}) = Cardinality(MembersOf(t)) + 1
            /\ Cardinality(SysCounted(t) \cup {p}) = Cardinality(SysCounted(t)) + 1
        BY <2>1, <3>2, ProcessCounts
      <3> QED  BY <2>2, <2>4, <3>1, <3>3
    <2> QED  BY <2>3, <2>4
  <1>13. CountsHigh'
    <2>1. sysShm.there
      BY <1>10, SegmentThere
    <2>2. \A t \in Systems : sysShm'.numprocs[t] >= Cardinality(MembersOf(t)')
      BY <1>2, <1>5, <1>12 DEF CountsHigh
    <2> QED  BY <1>1, <1>4, <1>11, <2>1, <2>2 DEF CountsHigh
  <1>14. CountsExact'
    BY <1>1, <1>2, <1>4, <1>5, <1>11, <1>12 DEF CountsExact
  <1>15. SystemsWhole'
    <2> SUFFICES ASSUME ~sysTorn, NEW t \in Systems
                 PROVE  /\ sysShm'.numprocs[t] # 0 => SysReady(t)
                        /\ sysShm'.numprocs[t] = 0 => Making(t)' \/ Bare(t)
      BY <1>1 DEF SystemsWhole, SysReady, Bare
    <2>1. CASE t = s
      <3>1. HandlesFit(p)
        BY DEF HandlesFitAll
      <3>2. SysReady(s)
        BY <1>1, <3>1 DEF HandlesFit, SysReady, Segments
      <3>3. sysShm'.numprocs[s] # 0
        BY <1>2, <1>5, <1>12 DEF CountsExact
      <3> QED  BY <2>1, <3>2, <3>3
    <2>2. CASE t # s
      <3>1. ~Making(t)
        BY <1>6, <2>2 DEF Making, Calling
      <3> QED  BY <1>5, <2>2, <3>1 DEF SystemsWhole
    <2> QED  BY <2>1, <2>2
  <1>16. HandlesFitAll'
    <2>1. \A q \in SysProcs : q # p => HandlesFit(q)'
      BY <1>1, <1>6, OthersFit
    <2>2. HandlesFit(p)
      BY DEF HandlesFitAll
    <2>3. HandlesFit(p)'
      BY <1>1, <2>2 DEF HandlesFit, MemberPcs
    <2> QED  BY <2>1, <2>3 DEF HandlesFitAll
  <1>17. FaultFree'
    BY <1>1, <1>4, <1>11, GivenKeepsGen, FaultFreeStays
  <1> QED  BY <1>7, <1>8, <1>13, <1>14, <1>15, <1>16, <1>17

LEMMA LeaveKeeps ==
    ASSUME OneAtATime, SysInv, NEW p \in SysProcs, Leave(p)
    PROVE  SysInv'
  <1> USE DEF SysInv, SysShms
  <1> SUFFICES ASSUME NEW s \in Systems, s = sysOf[p] PROVE SysInv'
    BY DEF SysTypes
  <1> DEFINE left == sysShm.numprocs[s] - 1
             a == Area(p)
             emptied == [k \in Segments |-> IF segment[a][k] = handle[p][k] THEN 0 ELSE segment[a][k]]
  <1>1. /\ sysPc[p] = "leave" /\ sysPc'[p] = "detach" /\ sysPc' \in [SysProcs -> SysPcs] /\ OthersSame(p)
        /\ sysShm' = [sysShm EXCEPT !.numprocs = [sysShm.numprocs EXCEPT ![s] = left]]
        /\ IF left = 0 THEN /\ semSet' = [semSet EXCEPT ![a] = NoSemSet]
                            /\ segment' = [segment EXCEPT ![a] = emptied]
                       ELSE semSet' = semSet /\ segment' = segment
        /\ UNCHANGED <<sysSem, sysOf, handle, sysGen, sysFaults, sysCalls, sysTorn>>
    BY DEF Leave, LastOfSystem, SetGone, SysGoto, SysTypes, SysPcs, OthersSame
  <1>0. a \in Systems /\ (~sysTorn => a = s)
    BY AreaIs
  <1> HIDE DEF a
  <1>2. sysShm \in SysShms
    BY DEF SysTypes
  <1>3. left \in Int /\ [sysShm.numprocs EXCEPT ![s] = left] \in [Systems -> Int]
    BY <1>2
  <1>4. /\ sysShm' \in SysShms
        /\ sysShm'.there = sysShm.there /\ sysShm'.keyed = sysShm.keyed
        /\ sysShm'.numAttached = sysShm.numAttached
        /\ sysShm'.numprocs = [sysShm.numprocs EXCEPT ![s] = left]
    <2> HIDE DEF left
    <2> QED  BY <1>1, <1>2, <1>3
  <1>5. /\ sysShm'.numprocs[s] = left
        /\ \A t \in Systems : t # s => sysShm'.numprocs[t] = sysShm.numprocs[t]
    BY <1>2, <1>4
  <1>6. Calling(p) /\ \A q \in SysProcs : Calling(q) => q = p
    BY <1>1 DEF OneCaller, Calling
  <1>7. SysTypes'
    <2>1. NoSemSet \in [gen : Nat, val : [Segments -> Int]]
      BY DEF NoSemSet
    <2>2. emptied \in [Segments -> Nat]
      BY <1>0 DEF SysTypes
    <2>3. /\ semSet \in [Systems -> [gen : Nat, val : [Segments -> Int]]]
          /\ segment \in [Systems -> [Segments -> Nat]]
      BY DEF SysTypes
    <2> HIDE DEF left, emptied
    <2>4. semSet' \in [Systems -> [gen : Nat, val : [Segments -> Int]]]
      BY <1>0, <1>1, <2>1, <2>3
    <2>5. segment' \in [Systems -> [Segments -> Nat]]
      BY <1>0, <1>1, <2>2, <2>3
    <2> QED  BY <1>1, <1>4, <2>4, <2>5 DEF SysTypes
  <1>8. OneCaller'
    BY <1>1, <1>6, CallersStay
  <1>9. /\ \A t \in Systems : MembersOf(t)' = MembersOf(t) \ {p} /\ SysCounted(t)' = SysCounted(t) \ {p}
        /\ Attaching' = Attaching \cup {p} /\ SysHolding' = SysHolding \cup {p} /\ p \notin StillCounted
    BY <1>1, SetsMove DEF Joins, MemberPcs, AttachedPcs
  <1>10. /\ p \in Attaching /\ p \in SysHolding
         /\ \A t \in Systems : p \in MembersOf(t) <=> t = s
         /\ \A t \in Systems : p \in SysCounted(t) <=> t = s
    BY <1>1, <1>9 DEF Attaching, SysHolding, MembersOf, SysCounted, AttachedPcs, MemberPcs
  <1>11. Attaching' = Attaching /\ SysHolding' = SysHolding
    BY <1>9, <1>10
  <1>12. ASSUME NEW t \in Systems
         PROVE  /\ t # s => MembersOf(t)' = MembersOf(t) /\ SysCounted(t)' = SysCounted(t)
                /\ t = s => /\ Cardinality(MembersOf(t)') = Cardinality(MembersOf(t)) - 1
                            /\ Cardinality(SysCounted(t)') = Cardinality(SysCounted(t)) - 1
                /\ Cardinality(MembersOf(t)) \in Nat /\ Cardinality(SysCounted(t)) \in Nat
    <2>1. MembersOf(t) \in SUBSET SysProcs /\ SysCounted(t) \in SUBSET SysProcs
      BY DEF MembersOf, SysCounted, StillCounted
    <2>2. Cardinality(MembersOf(t)) \in Nat /\ Cardinality(SysCounted(t)) \in Nat
      BY <2>1, ProcessCounts
    <2>3. MembersOf(t)' = MembersOf(t) \ {p} /\ SysCounted(t)' = SysCounted(t) \ {p}
      BY <1>9
    <2>4. CASE t # s
      <3>1. p \notin MembersOf(t) /\ p \notin SysCounted(t)
        BY <1>10, <2>4
      <3> QED  BY <2>2, <2>3, <2>4, <3>1
    <2>5. CASE t = s
      <3>1. p \in MembersOf(t) /\ p \in SysCounted(t)
        BY <1>10, <2>5
      <3>2. /\ Cardinality(MembersOf(t) \ {p}) = Cardinality(MembersOf(t)) - 1
            /\ Cardinality(SysCounted(t) \ {p}) = Cardinality(SysCounted(t)) - 1
        BY <2>1, <3>1, ProcessCounts
      <3> QED  BY <2>2, <2>3, <2>5, <3>2
    <2> QED  BY <2>4, <2>5
  <1>13. CountsHigh'
    <2>1. sysShm.there
      BY <1>10, SegmentThere
    <2>2. \A t \in Systems : sysShm'.numprocs[t] >= Cardinality(MembersOf(t)')
      BY <1>2, <1>5, <1>12 DEF CountsHigh
    <2> QED  BY <1>1, <1>4, <1>11, <2>1, <2>2 DEF CountsHigh
  <1>14. CountsExact'
    BY <1>1, <1>2, <1>4, <1>5, <1>11, <1>12 DEF CountsExact
  <1>15. SystemsWhole'
    <2> SUFFICES ASSUME ~sysTorn, NEW t \in Systems
                 PROVE  /\ sysShm'.numprocs[t] # 0 => SysReady(t)'
                        /\ sysShm'.numprocs[t] = 0 => Bare(t)'
      BY <1>1 DEF SystemsWhole
    <2>0. a = s
      BY <1>0
    <2>1. ~Making(t)
      BY <1>1, <1>6 DEF Making, Calling
    <2>2. CASE t # s
      <3>1. semSet'[t] = semSet[t] /\ segment'[t] = segment[t]
        BY <1>1, <2>0, <2>2 DEF SysTypes
      <3> QED  BY <1>5, <2>1, <2>2, <3>1 DEF SystemsWhole, SysReady, Bare
    <2>3. CASE t = s /\ left = 0
      <3>1. HandlesFit(p)
        BY DEF HandlesFitAll
      <3>2. handle[p]["buffers"] = segment[s]["buffers"] /\ handle[p]["table"] = segment[s]["table"]
        BY <1>1, <3>1 DEF HandlesFit, MemberPcs
      <3>3. \A k \in Segments : emptied[k] = 0
        BY <2>0, <3>2 DEF Segments
      <3>4. semSet'[s] = NoSemSet /\ segment'[s] = emptied
        <4>1. semSet' = [semSet EXCEPT ![s] = NoSemSet] /\ segment' = [segment EXCEPT ![s] = emptied]
          BY <1>1, <2>0, <2>3
        <4> HIDE DEF emptied
        <4> QED  BY <4>1 DEF SysTypes
      <3> QED  BY <1>5, <2>3, <3>3, <3>4 DEF Bare
    <2>4. CASE t = s /\ left # 0
      <3>1. semSet' = semSet /\ segment' = segment
        BY <1>1, <2>4
      <3>2. sysShm.numprocs[s] # 0
        <4>1. Cardinality(SysCounted(s)) > 0 /\ SysCounted(s) \in SUBSET SysProcs
          <5>1. SysCounted(s) \in SUBSET SysProcs
            BY DEF SysCounted, MembersOf, StillCounted
          <5>2. p \in SysCounted(s)
            BY <1>10
          <5> QED  BY <5>1, <5>2, ProcessCounts
        <4> QED  BY <4>1 DEF CountsExact
      <3>3. SysReady(s)
        BY <3>2 DEF SystemsWhole
      <3> QED  BY <1>5, <2>4, <3>1, <3>3 DEF SysReady
    <2> QED  BY <2>2, <2>3, <2>4
  <1>16. HandlesFitAll'
    <2>1. ASSUME NEW q \in SysProcs, q # p, sysPc[q] = "in", ~sysTorn
          PROVE  semSet'[sysOf[q]] = semSet[sysOf[q]] /\ segment'[sysOf[q]] = segment[sysOf[q]]
      <3>1. CASE sysOf[q] # s
        BY <1>0, <1>1, <2>1, <3>1 DEF SysTypes
      <3>2. CASE sysOf[q] = s
        <4>1. q \in MembersOf(s)' /\ MembersOf(s)' \in SUBSET SysProcs
          BY <1>9, <2>1, <3>2 DEF MembersOf, MemberPcs
        <4>2. Cardinality(MembersOf(s)') > 0 /\ Cardinality(MembersOf(s)') \in Nat
          BY <4>1, ProcessCounts
        <4>3. sysShm.numprocs[s] >= Cardinality(MembersOf(s))
          BY DEF CountsHigh
        <4>4. left # 0
          BY <1>2, <1>12, <4>2, <4>3
        <4> QED  BY <1>1, <4>4
      <3> QED  BY <3>1, <3>2
    <2>2. \A q \in SysProcs : q # p => HandlesFit(q)'
      BY <1>1, <1>6, <2>1, OthersFit
    <2>3. HandlesFit(p)'
      BY <1>1 DEF HandlesFit, MemberPcs
    <2> QED  BY <2>2, <2>3 DEF HandlesFitAll
  <1>17. FaultFree'
    BY <1>1, <1>4, <1>11, FaultFreeStays
  <1> QED  BY <1>7, <1>8, <1>13, <1>14, <1>15, <1>16, <1>17

LEMMA DetachKeeps ==
    ASSUME OneAtATime, SysInv, NEW p \in SysProcs, Detach(p)
    PROVE  SysInv'
  <1> USE DEF SysInv, SysShms
  <1>1. /\ sysPc[p] = "detach" /\ sysPc'[p] = "out" /\ sysPc' \in [SysProcs -> SysPcs] /\ OthersSame(p)
        /\ handle' = [handle EXCEPT ![p] = NoHandle] /\ handle'[p] = NoHandle
        /\ UNCHANGED <<semSet, segment, sysOf, sysGen, sysFaults, sysCalls, sysTorn>>
    BY DEF Detach, SysGoto, SysTypes, SysPcs, OthersSame
  <1>2. sysShm \in SysShms
    BY DEF SysTypes
  <1>3. Calling(p) /\ \A q \in SysProcs : Calling(q) => q = p
    BY <1>1 DEF OneCaller, Calling
  <1>4. handle' \in [SysProcs -> [sem : Nat, set : Nat, buffers : Nat, table : Nat]]
    <2>1. NoHandle \in [sem : Nat, set : Nat, buffers : Nat, table : Nat]
      BY DEF NoHandle
    <2> QED  BY <1>1, <2>1 DEF SysTypes
  <1>5. OneCaller'
    BY <1>1, <1>3, CallersStay
  <1>6. HandlesFitAll'
    <2>1. \A q \in SysProcs : q # p => HandlesFit(q)'
      BY <1>1, <1>3, OthersFit
    <2>2. HandlesFit(p)'
      BY <1>1 DEF HandlesFit, MemberPcs
    <2> QED  BY <2>1, <2>2 DEF HandlesFitAll
  <1>7. /\ \A t \in Systems : MembersOf(t)' = MembersOf(t) \ {p} /\ SysCounted(t)' = SysCounted(t) \ {p}
        /\ Attaching' = Attaching \ {p} /\ SysHolding' = SysHolding \ {p} /\ p \notin StillCounted
    BY <1>1, SetsMove DEF Joins, MemberPcs, AttachedPcs
  <1>8. /\ p \in Attaching /\ p \in SysHolding
        /\ \A t \in Systems : p \notin MembersOf(t) /\ p \notin SysCounted(t)
    BY <1>1, <1>7 DEF Attaching, SysHolding, MembersOf, SysCounted, AttachedPcs, MemberPcs
  <1>9. \A t \in Systems : MembersOf(t)' = MembersOf(t) /\ SysCounted(t)' = SysCounted(t)
    BY <1>7, <1>8
  <1>10. /\ Attaching \in SUBSET SysProcs /\ SysHolding \in SUBSET SysProcs
         /\ \A t \in Systems : MembersOf(t) \subseteq Attaching /\ SysCounted(t) \subseteq SysHolding
    BY DEF Attaching, SysHolding, StillCounted, MembersOf, SysCounted, AttachedPcs
  <1>11. /\ Cardinality(Attaching) \in Nat /\ Cardinality(Attaching) > 0
         /\ Cardinality(Attaching') = Cardinality(Attaching) - 1
         /\ Cardinality(SysHolding) \in Nat /\ Cardinality(SysHolding) > 0
         /\ Cardinality(SysHolding') = Cardinality(SysHolding) - 1
    BY <1>7, <1>8, <1>10, ProcessCounts
  <1>12. sysShm.numAttached >= Cardinality(Attaching)
    BY DEF CountsHigh
  <1>13. \A t \in Systems : ~Making(t)
    BY <1>1, <1>3 DEF Making, Calling
  <1>14. CASE sysShm.numAttached = 1
    <2>1. sysShm' = NoShm /\ sysSem' = IF handle[p].sem = sysSem.gen THEN [gen |-> 0, val |-> 0] ELSE sysSem
      BY <1>14 DEF Detach
    <2>2. NoShm \in SysShms
      BY DEF NoShm
    <2>3. SysTypes'
      BY <1>1, <1>4, <2>1, <2>2 DEF SysTypes
    <2>4. Attaching = {p}
      BY <1>8, <1>10, <1>11, <1>12, <1>14, ProcessCounts
    <2>5. Attaching' = {} /\ \A t \in Systems : MembersOf(t)' = {}
      BY <1>7, <1>8, <1>9, <1>10, <2>4
    <2>6. CountsHigh'
      <3>1. Cardinality({}) = 0
        BY FS_EmptySet
      <3>2. \A t \in Systems : sysShm'.numprocs[t] >= Cardinality(MembersOf(t)')
        BY <2>1, <2>5, <3>1 DEF NoShm
      <3>3. /\ sysShm'.numAttached >= Cardinality(Attaching') /\ sysShm' = NoShm
            /\ ~sysShm'.there /\ sysShm'.keyed
        BY <2>1, <2>5, <3>1 DEF NoShm
      <3>4. NoShm' = NoShm
        BY DEF NoShm
      <3> QED  BY <3>2, <3>3, <3>4 DEF CountsHigh
    <2>7. ASSUME ~sysTorn
          PROVE  SysHolding' = {} /\ \A t \in Systems : SysCounted(t) = {} /\ SysCounted(t)' = {}
      <3>1. SysHolding = {p}
        <4>1. sysShm.numAttached >= Cardinality(SysHolding)
          BY <2>7 DEF CountsExact
        <4> QED  BY <1>8, <1>10, <1>11, <1>14, <4>1, ProcessCounts
      <3> QED  BY <1>7, <1>8, <1>9, <1>10, <3>1
    <2>8. CountsExact'
      BY SMTT(60), <1>1, <2>1, <2>7, FS_EmptySet DEF CountsExact, NoShm
    <2>9. SystemsWhole'
      <3> SUFFICES ASSUME ~sysTorn, NEW t \in Systems PROVE sysShm'.numprocs[t] = 0 /\ Bare(t)
        BY <1>1 DEF SystemsWhole, Bare
      <3>1. sysShm.numprocs[t] = 0
        BY <2>7, FS_EmptySet DEF CountsExact
      <3> QED  BY <1>13, <2>1, <3>1 DEF SystemsWhole, NoShm
    <2>10. FaultFree'
      <3> SUFFICES ASSUME sysFaults = 0
                   PROVE  /\ ~sysTorn
                          /\ sysShm'.numAttached = Cardinality(SysHolding')
                          /\ sysSem'.gen = 0
                          /\ \A q \in SysProcs : sysPc'[q] = "out"
        BY <1>1 DEF FaultFree
      <3>1. ~sysTorn
        BY DEF FaultFree
      <3>2. sysShm'.numAttached = Cardinality(SysHolding')
        BY <2>1, <2>7, <3>1, FS_EmptySet DEF NoShm
      <3>3. sysSem'.gen = 0
        BY <1>1, <2>1 DEF FaultFree
      <3>4. ASSUME NEW q \in SysProcs PROVE sysPc'[q] = "out"
        <4>1. CASE q = p  BY <1>1, <4>1
        <4>2. CASE q # p
          <5>1. sysPc[q] \in {"out", "in"}
            BY <1>3, <4>2 DEF FaultFree, Calling
          <5>2. sysPc[q] # "in"
            BY <2>4, <4>2 DEF Attaching, AttachedPcs, MemberPcs
          <5> QED  BY <1>1, <4>2, <5>1, <5>2 DEF OthersSame
        <4> QED  BY <4>1, <4>2
      <3> QED  BY <3>1, <3>2, <3>3, <3>4
    <2> QED  BY <1>5, <1>6, <2>3, <2>6, <2>8, <2>9, <2>10
  <1>15. CASE sysShm.numAttached # 1
    <2>1. sysShm' = [sysShm EXCEPT !.numAttached = sysShm.numAttached - 1] /\ sysSem' = Given(p)
      BY <1>15 DEF Detach
    <2>2. /\ sysShm' \in SysShms
          /\ sysShm'.there = sysShm.there /\ sysShm'.keyed = sysShm.keyed
          /\ sysShm'.numprocs = sysShm.numprocs
          /\ sysShm'.numAttached = sysShm.numAttached - 1
      BY <1>2, <2>1
    <2>3. SysTypes'
      BY <1>1, <1>4, <2>1, <2>2, GivenKeepsGen DEF SysTypes
    <2>4. CountsHigh'
      <3>1. sysShm.there
        BY <1>8, SegmentThere
      <3>2. sysShm'.numAttached > 0 /\ sysShm'.numAttached >= Cardinality(Attaching')
        BY <1>2, <1>11, <1>12, <1>15, <2>2
      <3>3. \A t \in Systems : sysShm'.numprocs[t] >= Cardinality(MembersOf(t)')
        BY <1>9, <2>2 DEF CountsHigh
      <3> QED  BY <1>1, <2>2, <3>1, <3>2, <3>3 DEF CountsHigh
    <2>5. CountsExact'
      <3> SUFFICES ASSUME ~sysTorn
                   PROVE  /\ \A t \in Systems : sysShm'.numprocs[t] = Cardinality(SysCounted(t)')
                          /\ sysShm'.numAttached >= Cardinality(SysHolding')
        BY <1>1 DEF CountsExact
      <3>1. \A t \in Systems : sysShm'.numprocs[t] = Cardinality(SysCounted(t)')
        BY <1>9, <2>2 DEF CountsExact
      <3>2. sysShm'.numAttached >= Cardinality(SysHolding')
        BY <1>2, <1>11, <2>2 DEF CountsExact
      <3> QED  BY <3>1, <3>2
    <2>6. SystemsWhole'
      BY <1>1, <2>2, WholeStays DEF MakingPcs, SysTypes
    <2>7. FaultFree'
      <3> SUFFICES ASSUME sysFaults = 0
                   PROVE  /\ ~sysTorn /\ \A q \in SysProcs : sysPc'[q] # "dead"
                          /\ sysShm'.numAttached = Cardinality(SysHolding')
                          /\ \A q \in SysProcs : sysPc'[q] # "out" => handle'[q].sem = sysSem.gen /\ sysSem.gen # 0
                          /\ \E q \in SysProcs : sysPc'[q] # "out"
        BY <1>1, <2>1, GivenKeepsGen DEF FaultFree
      <3>1. ~sysTorn /\ sysShm.numAttached = Cardinality(SysHolding)
        BY DEF FaultFree
      <3>2. sysShm'.numAttached = Cardinality(SysHolding')
        BY <1>11, <2>2, <3>1
      <3>3. \A q \in SysProcs : sysPc'[q] # "dead"
        BY <1>1 DEF FaultFree, OthersSame
      <3>4. \A q \in SysProcs : sysPc'[q] # "out" => handle'[q].sem = sysSem.gen /\ sysSem.gen # 0
        BY <1>1 DEF FaultFree, OthersSame
      <3>5. \E q \in SysProcs : sysPc'[q] # "out"
        <4>1. Cardinality(SysHolding') # 0
          BY <1>11, <1>15, <3>1
        <4>2. PICK q \in SysHolding' : TRUE
          BY <4>1, FS_EmptySet
        <4>3. q \in SysHolding /\ q # p
          BY <1>7, <4>2
        <4>4. q \in SysProcs /\ sysPc[q] # "out"
          BY <4>3 DEF SysHolding, Attaching, StillCounted, AttachedPcs, MemberPcs
        <4> QED  BY <1>1, <4>3, <4>4 DEF OthersSame
      <3> QED  BY <3>1, <3>2, <3>3, <3>4, <3>5
    <2> QED  BY <1>5, <1>6, <2>3, <2>4, <2>5, <2>6, <2>7
  <1> QED  BY <1>14, <1>15

LEMMA CrashKeeps ==
    ASSUME OneAtATime, SysInv, NEW p \in SysProcs, SysCrash(p)
    PROVE  SysInv'
  <1> USE DEF SysInv, SysShms
  <1>1. /\ sysPc[p] \notin {"out", "dead"} /\ sysPc'[p] = "dead" /\ sysPc' \in [SysProcs -> SysPcs]
        /\ OthersSame(p) /\ sysTorn' = (sysTorn \/ Inside(p)) /\ sysFaults' \in Nat /\ sysFaults' # 0
        /\ UNCHANGED <<sysSem, semSet, segment, sysOf, handle, sysGen, sysCalls>>
        /\ sysShm' = sysShm \/ (~sysShm.there /\ sysShm' = Zeroed /\ Inside(p))
    BY DEF SysCrash, Fault, SysTypes, SysPcs, OthersSame, Inside, Critical
  <1>2. sysTorn \in BOOLEAN /\ sysTorn' \in BOOLEAN
    BY <1>1 DEF SysTypes, Inside
  <1>3. SysTypes'
    <2>1. Zeroed \in SysShms
      BY ZeroedIs
    <2> QED  BY <1>1, <1>2, <2>1 DEF SysTypes
  <1>4. CASE sysTorn'
    BY <1>1, <1>3, <1>4, TornKeeps
  <1>5. CASE ~sysTorn'
    <2>1. ~sysTorn /\ sysPc[p] \in {"take", "in", "exitTake"} /\ sysShm' = sysShm
      BY <1>1, <1>2, <1>5 DEF Inside, Critical, SysTypes, SysPcs
    <2>2. OneCaller'
      BY <1>1 DEF OneCaller, Calling, OthersSame
    <2>3. CountsHigh'
      BY <1>1, <2>1, CountsOutlast
    <2>4. CountsExact'
      <3>1. HandlesFit(p)
        BY DEF HandlesFitAll
      <3>2. handle[p].table # 0 <=> sysPc[p] \in MemberPcs
        BY <2>1, <3>1 DEF HandlesFit, MemberPcs
      <3>3. SysHolding' = SysHolding
        BY <1>1, <2>1, <3>2 DEF SysHolding, Attaching, StillCounted, OthersSame, AttachedPcs, MemberPcs
      <3>4. \A t \in Systems : SysCounted(t)' = SysCounted(t)
        BY <1>1, <2>1, <3>2 DEF SysCounted, MembersOf, StillCounted, OthersSame, MemberPcs
      <3> QED  BY <2>1, <3>3, <3>4 DEF CountsExact
    <2>5. SystemsWhole'
      BY <1>1, <2>1, WholeStays DEF MakingPcs, SysTypes
    <2>6. HandlesFitAll'
      <3> SUFFICES ASSUME NEW q \in SysProcs PROVE HandlesFit(q)'
        BY DEF HandlesFitAll
      <3>1. HandlesFit(q)
        BY DEF HandlesFitAll
      <3>2. CASE q = p
        BY <1>1, <3>2 DEF HandlesFit, MemberPcs
      <3>3. CASE q # p
        BY <1>1, <2>1, <3>1, <3>3 DEF HandlesFit, OthersSame
      <3> QED  BY <3>2, <3>3
    <2>7. FaultFree'
      BY <1>1 DEF FaultFree
    <2> QED  BY <1>3, <2>2, <2>3, <2>4, <2>5, <2>6, <2>7
  <1> QED  BY <1>4, <1>5

-----------------------------------------------------------------------------
(* The theorems *)

LEMMA SysInitInv == SysInit => SysInv
  <1> SUFFICES ASSUME SysInit PROVE SysInv
    OBVIOUS
  <1>1. SysTypes
    <2>1. NoShm \in SysShms
      BY DEF NoShm, SysShms
    <2>2. NoSemSet \in [gen : Nat, val : [Segments -> Int]]
      BY DEF NoSemSet
    <2>3. NoHandle \in [sem : Nat, set : Nat, buffers : Nat, table : Nat]
      BY DEF NoHandle
    <2>4. (CHOOSE s \in Systems : TRUE) \in Systems
      BY SysAssumption
    <2>5. sysPc \in [SysProcs -> SysPcs] /\ sysOf \in [SysProcs -> Systems]
      BY <2>4 DEF SysInit, SysPcs
    <2>6. sysSem \in [gen : Nat, val : Int] /\ sysShm \in SysShms
      BY <2>1 DEF SysInit
    <2>7. semSet \in [Systems -> [gen : Nat, val : [Segments -> Int]]]
      BY <2>2 DEF SysInit
    <2>8. segment \in [Systems -> [Segments -> Nat]]
      BY DEF SysInit
    <2>9. handle \in [SysProcs -> [sem : Nat, set : Nat, buffers : Nat, table : Nat]]
      BY <2>3 DEF SysInit
    <2>10. sysTorn \in BOOLEAN /\ sysGen \in Nat /\ sysFaults \in Nat /\ sysCalls \in Nat
      BY DEF SysInit
    <2> QED  BY <2>5, <2>6, <2>7, <2>8, <2>9, <2>10 DEF SysTypes
  <1>2. OneCaller /\ HandlesFitAll
    BY DEF SysInit, OneCaller, Calling, HandlesFitAll, HandlesFit, MemberPcs
  <1>3. /\ Attaching = {} /\ StillCounted = {} /\ \A t \in Systems : MembersOf(t) = {}
    BY DEF SysInit, Attaching, StillCounted, MembersOf, AttachedPcs, MemberPcs
  <1>4. SysHolding = {} /\ \A t \in Systems : SysCounted(t) = {}
    BY <1>3 DEF SysHolding, SysCounted
  <1>5. Cardinality({}) = 0
    BY FS_EmptySet
  <1>6. /\ sysShm = NoShm /\ ~NoShm.there /\ NoShm.keyed /\ NoShm.numAttached = 0
        /\ \A t \in Systems : NoShm.numprocs[t] = 0
    BY DEF SysInit, NoShm
  <1>7. CountsHigh
    BY <1>3, <1>5, <1>6 DEF CountsHigh
  <1>8. CountsExact
    BY <1>4, <1>5, <1>6 DEF CountsExact
  <1>9. SystemsWhole
    BY <1>6 DEF SystemsWhole, SysInit, Bare
  <1>10. FaultFree
    BY <1>4, <1>5, <1>6 DEF FaultFree, SysInit
  <1> QED  BY <1>1, <1>2, <1>7, <1>8, <1>9, <1>10 DEF SysInv

LEMMA SysNextInv ==
    ASSUME OneAtATime, SysInv, [SysNext]_sysVars
    PROVE  SysInv'
  <1>1. ASSUME NEW p \in SysProcs, NEW s \in Systems, semInit(p, s) PROVE SysInv'
    BY <1>1, InitKeeps
  <1>2. ASSUME NEW p \in SysProcs, InitTake(p) PROVE SysInv'
    <2>1. OnlyMoves(p, "take", "shm")
      BY <1>2 DEF InitTake, Taken, OnlyMoves
    <2> QED  BY <2>1, MovingKeeps
  <1>3. ASSUME NEW p \in SysProcs, SystemExit(p) PROVE SysInv'
    <2>1. OnlyMoves(p, "in", "exitTake") /\ \A q \in SysProcs : ~Calling(q)
      BY <1>3 DEF SystemExit, NewCall, OnlyMoves
    <2> QED  BY <2>1, MovingKeeps
  <1>4. ASSUME NEW p \in SysProcs, ExitTake(p) PROVE SysInv'
    <2>1. OnlyMoves(p, "exitTake", "leave")
      BY <1>4 DEF ExitTake, Taken, OnlyMoves
    <2> QED  BY <2>1, MovingKeeps
  <1>5. CASE UNCHANGED sysVars
    <2> USE <1>5 DEF sysVars, SysInv
    <2>1. SysTypes'  BY DEF SysTypes
    <2>2. OneCaller'  BY DEF OneCaller, Calling
    <2>3. /\ Attaching' = Attaching /\ SysHolding' = SysHolding
          /\ \A s \in Systems : MembersOf(s)' = MembersOf(s) /\ SysCounted(s)' = SysCounted(s)
      BY DEF Attaching, SysHolding, MembersOf, SysCounted, StillCounted
    <2>4. CountsHigh'  BY <2>3 DEF CountsHigh
    <2>5. CountsExact'  BY <2>3 DEF CountsExact
    <2>6. SystemsWhole'  BY DEF SystemsWhole, SysReady, Making, Bare
    <2>7. HandlesFitAll'  BY DEF HandlesFitAll, HandlesFit
    <2>8. FaultFree'  BY <2>3 DEF FaultFree
    <2> QED  BY <2>1, <2>2, <2>4, <2>5, <2>6, <2>7, <2>8
  <1> QED  BY <1>1, <1>2, <1>3, <1>4, <1>5, AttachShmKeeps, GetSemsKeeps, GetBuffersKeeps,
              GetTableKeeps, EnterKeeps, LeaveKeeps, DetachKeeps, CrashKeeps DEF SysNext

LEMMA SystemSoundFollows ==
    ASSUME SysInv
    PROVE  SystemSound
  <1> USE DEF SysInv, SysShms
  <1>1. MembersHaveFacilities
    <2> SUFFICES ASSUME ~sysTorn, NEW p \in SysProcs, sysPc[p] \in MemberPcs, NEW s, s = sysOf[p]
                 PROVE  /\ handle[p].set = semSet[s].gen
                        /\ \A k \in Segments : handle[p][k] = segment[s][k] /\ semSet[s].val[k] = 1
                        /\ sysShm.numprocs[s] > 0
      BY DEF MembersHaveFacilities, MemberPcs
    <2>1. HandlesFit(p)
      BY DEF HandlesFitAll
    <2>2. /\ handle[p].set = semSet[s].gen
          /\ handle[p].buffers = segment[s]["buffers"] /\ semSet[s].val["buffers"] = 1
          /\ handle[p].table = segment[s]["table"] /\ semSet[s].val["table"] = 1
      BY <2>1 DEF HandlesFit
    <2>3. sysShm.numprocs[s] > 0
      BY MembersAreCounted
    <2>4. ASSUME NEW k \in Segments PROVE handle[p][k] = segment[s][k] /\ semSet[s].val[k] = 1
      <3>1. CASE k = "buffers"  BY <2>2, <3>1
      <3>2. CASE k = "table"  BY <2>2, <3>2
      <3> QED  BY <3>1, <3>2 DEF Segments
    <2> QED  BY <2>2, <2>3, <2>4
  <1>2. CountsNeverLow
    <2> DEFINE In(s) == {p \in SysProcs : sysPc[p] \in {"in", "exitTake", "leave"} /\ sysOf[p] = s}
    <2>1. \A s \in Systems : In(s) = MembersOf(s)
      BY DEF MembersOf, MemberPcs
    <2>2. \A s \in Systems : sysShm.numprocs[s] >= Cardinality(In(s))
      BY <2>1 DEF CountsHigh
    <2>3. UNION {In(s) : s \in Systems} \subseteq Attaching /\ Attaching \in SUBSET SysProcs
      BY DEF Attaching, AttachedPcs, MemberPcs
    <2> DEFINE U == UNION {In(s) : s \in Systems}
    <2>4. Cardinality(U) <= Cardinality(Attaching) /\ Cardinality(U) \in Nat /\ Cardinality(Attaching) \in Nat
      <3>1. U \subseteq Attaching /\ U \in SUBSET SysProcs /\ Attaching \in SUBSET SysProcs
        BY <2>3
      <3> HIDE DEF U
      <3>2. Cardinality(U) <= Cardinality(Attaching)
        BY <3>1, FewerProcesses
      <3>3. Cardinality(Attaching) \in Nat /\ Cardinality(U) \in Nat
        <4>1. IsFiniteSet(U) /\ IsFiniteSet(Attaching)
          BY <3>1, SysAssumption, FS_Subset
        <4> QED  BY <4>1, FS_CardinalityType
      <3> QED  BY <3>2, <3>3
    <2>5. sysShm.numAttached >= Cardinality(U)
      <3> HIDE DEF U
      <3> QED  BY <2>4 DEF CountsHigh, SysTypes, SysShms
    <2> QED  BY <2>2, <2>5 DEF CountsNeverLow
  <1>3. NothingLeftBehind
    <2> SUFFICES ASSUME sysFaults = 0, \A p \in SysProcs : sysPc[p] = "out"
                 PROVE  /\ sysShm = NoShm /\ sysSem.gen = 0 /\ \A s \in Systems : Bare(s)
      BY DEF NothingLeftBehind, Bare
    <2>1. SysHolding = {} /\ \A s \in Systems : SysCounted(s) = {}
      BY DEF SysHolding, Attaching, StillCounted, SysCounted, MembersOf, AttachedPcs, MemberPcs
    <2>2. ~sysTorn /\ sysShm.numAttached = 0 /\ sysSem.gen = 0
      BY <2>1, FS_EmptySet DEF FaultFree
    <2>3. sysShm = NoShm
      BY <2>2 DEF CountsHigh
    <2>4. \A s \in Systems : sysShm.numprocs[s] = 0 /\ ~Making(s)
      BY <2>3 DEF NoShm, Making
    <2> QED  BY <2>2, <2>3, <2>4 DEF SystemsWhole
  <1> QED  BY <1>1, <1>2, <1>3 DEF SystemSound

\* radSystemInit and radSystemExit, called one at a time by any number of
\* processes of any number of systems: a member of a system has the semaphores
\* and segments that exist, with the semaphores set up, unless a process died inside
\* or a failed call left a segment it had made; the counts are never too low,
\* whatever fails and whoever dies; and without faults the last process leaves
\* no object behind.
THEOREM SystemStaysSound ==
    ASSUME OneAtATime
    PROVE  SysSpec => []SystemSound
  <1>1. SysInv /\ [SysNext]_sysVars => SysInv'
    BY SysNextInv
  <1>2. SysInv => SystemSound
    BY SystemSoundFollows
  <1> QED  BY <1>1, <1>2, SysInitInv, PTL DEF SysSpec

-----------------------------------------------------------------------------
(* The main loop: the inductive invariant *)

\* What a slot of the user may hold, and all descriptors there are.
OwnFds == {Stdin} \cup UserFds
AllFds == OwnFds \cup {PipeRead, PipeWrite, QueueFd}

\* The table: no descriptor is in it twice, and the set and the maximum are of it.
TableFits ==
    /\ fds \in [Slots -> AllFds \cup {NoFd}]
    /\ fds[PIPE_READ] = PipeRead /\ fds[PIPE_WRITE] = PipeWrite /\ fds[MSG_QUEUE] = QueueFd
    /\ \A i \in UserSlots : fds[i] \in OwnFds \cup {NoFd}
    /\ \A i, j \in Slots : fds[i] = fds[j] /\ fds[i] # NoFd => i = j
    /\ fdSet = Registered
    /\ fdMax \in Nat /\ \A fd \in fdSet : fd <= fdMax

\* The kernel: what is registered is open until a search has missed it.
OpenFits ==
    /\ {Stdin, PipeRead, PipeWrite, QueueFd} \subseteq openFds
    /\ missed \in BOOLEAN
    /\ ~missed => Registered \subseteq openFds

\* The slots radProcessWait still comes to.
ToScan == {i \in UserSlots : IF loop = "scan" THEN i >= slot ELSE i > slot}

\* Without late registrations, what is ready in them has something to read.
ScanFits ==
    /\ loop \in {"idle", "tested", "select", "scan", "callback", "stopped"}
    /\ slot \in Nat /\ readFds \subseteq AllFds \ {PipeWrite}
    /\ staleServe \in BOOLEAN
    /\ loop \in {"scan", "callback"} /\ ~LateRegister /\ ~missed =>
          \A i \in ToScan : fds[i] \in readFds => fds[i] \in hasData
    /\ ServedHasData

\* The buffers: only a running callback holds one.
BuffersFit ==
    /\ freeBufs \in Nat /\ kept \in Nat
    /\ selfEvents \in Seq(Events) /\ inbox \in Seq(Events \cup {"msg"})
    /\ holding \in {"none", "release", "keep"}
    /\ loop # "callback" => holding = "none"
    /\ BuffersAccounted

LoopInv == TableFits /\ OpenFits /\ ScanFits /\ BuffersFit

-----------------------------------------------------------------------------
(* The main loop: the table *)

LEMMA FdsAre ==
  /\ \A fd \in OwnFds : fd \in Nat /\ fd # NoFd /\ fd \notin {PipeRead, PipeWrite, QueueFd}
  /\ \A fd \in AllFds : fd \in Nat /\ fd # NoFd
  /\ UserFds \subseteq OwnFds /\ OwnFds \subseteq AllFds
  /\ {Stdin, PipeRead, PipeWrite, QueueFd} \subseteq AllFds
  /\ \A fd \in UserFds : fd \notin {Stdin, PipeRead, PipeWrite, QueueFd}
BY ProcessAssumption DEF OwnFds, AllFds, UserFds, Stdin, PipeRead, PipeWrite, QueueFd, NoFd

LEMMA SlotsAre ==
  /\ UserSlots \subseteq Slots /\ Slots \subseteq Nat
  /\ \A i \in Slots : i \in UserSlots \/ i \in {PIPE_READ, PIPE_WRITE, MSG_QUEUE}
  /\ {PIPE_READ, PIPE_WRITE, MSG_QUEUE} \subseteq Slots
  /\ \A i \in UserSlots : i \notin {PIPE_READ, PIPE_WRITE, MSG_QUEUE}
  /\ PIPE_WRITE \notin {PIPE_READ, MSG_QUEUE} /\ PIPE_READ # MSG_QUEUE
BY ProcessAssumption DEF Slots, UserSlots, PIPE_READ, PIPE_WRITE, MSG_QUEUE, USER_FIRST

LEMMA RegisteredIs ==
  \A fd : fd \in Registered <=> fd # NoFd /\ \E i \in Slots \ {PIPE_WRITE} : fds[i] = fd
BY DEF Registered

\* A set of naturals with a bound has a greatest member.
LEMMA GreatestNat ==
  ASSUME NEW T \in SUBSET Nat, T # {}, NEW b \in Nat, \A x \in T : x <= b
  PROVE  Max(T) \in T /\ \A x \in T : x <= Max(T)
<1> DEFINE B == {n \in Nat : \A x \in T : x <= n}
<1>1. PICK m \in B : \A n \in B : m <= n
  <2>1. B \in SUBSET Nat /\ B # {}
    OBVIOUS
  <2> HIDE DEF B
  <2> QED BY <2>1, LeastNat
<1>2. m \in T
  <2> SUFFICES ASSUME m \notin T PROVE FALSE
    OBVIOUS
  <2>1. PICK x \in T : TRUE
    OBVIOUS
  <2>2. \A y \in T : y <= m - 1
    OBVIOUS
  <2>3. m - 1 \in Nat
    BY <2>1, <2>2
  <2>4. m - 1 \in B
    BY <2>2, <2>3
  <2> QED BY <1>1, <2>4
<1>3. \E x \in T : \A y \in T : x >= y
  BY <1>2
<1>4. Max(T) \in T /\ \A y \in T : Max(T) >= y
  BY <1>3 DEF Max
<1> QED BY <1>4

\* The new maximum is above what remains.
LEMMA MaxWithoutIs ==
  ASSUME TableFits, NEW i \in Slots
  PROVE  /\ MaxWithout(i) \in Nat
         /\ \A j \in Slots \ {i} : fds[j] # NoFd => fds[j] <= MaxWithout(i)
<1> DEFINE T == {0} \cup {fds[j] : j \in Slots \ {i}}
           P == T \cap Nat
<1>1. \A j \in Slots : fds[j] \in AllFds \cup {NoFd}
  BY DEF TableFits
<1>2. \A x \in T : x \in Nat \/ x = NoFd
  BY <1>1, FdsAre
<1>3. P \in SUBSET Nat /\ 0 \in P /\ \A x \in P : x <= FdLast + 4
  BY <1>1, ProcessAssumption DEF AllFds, OwnFds, UserFds, Stdin, PipeRead, PipeWrite, QueueFd, NoFd
<1>4. Max(P) \in P /\ \A x \in P : x <= Max(P)
  <2>1. FdLast + 4 \in Nat /\ P # {}
    BY <1>3, ProcessAssumption
  <2> HIDE DEF P
  <2> QED BY <1>3, <2>1, GreatestNat
<1>5. \A x \in T : x \in P \/ x = NoFd
  BY <1>2
<1>6. \E x \in T : \A y \in T : x >= y
  <2>1. Max(P) \in T /\ Max(P) \in Nat
    BY <1>4
  <2>2. ASSUME NEW y \in T PROVE Max(P) >= y
    <3>1. CASE y \in P
      BY <1>4, <2>1, <3>1
    <3>2. CASE y = NoFd
      BY <2>1, <3>2 DEF NoFd
    <3> QED BY <1>5, <3>1, <3>2
  <2> QED BY <2>1, <2>2
<1>7. Max(T) \in T /\ \A y \in T : Max(T) >= y
  BY <1>6 DEF Max
<1>8. Max(T) \in Nat
  <2>1. 0 \in T /\ Max(T) >= 0
    BY <1>7
  <2>2. Max(T) \in Nat \/ Max(T) = NoFd
    BY <1>2, <1>7
  <2>3. ~(NoFd >= 0)
    BY DEF NoFd
  <2> QED BY <2>1, <2>2, <2>3
<1>9. MaxWithout(i) = Max(T)
  BY DEF MaxWithout
<1>10. \A j \in Slots \ {i} : fds[j] # NoFd => fds[j] \in Nat
  BY <1>1, FdsAre
<1> QED BY <1>7, <1>8, <1>9, <1>10

\* procAllocIOBlock for a descriptor that is not in the table.
LEMMA AllocKeeps ==
  ASSUME TableFits, NEW i \in FreeSlots, NEW fd \in OwnFds, fd \notin Registered,
         procAllocIOBlock(i, fd)
  PROVE  TableFits' /\ Registered' = Registered \cup {fd}
<1>1. /\ fds' = [fds EXCEPT ![i] = fd] /\ fdMax' = (IF fd > fdMax THEN fd ELSE fdMax)
      /\ fdSet' = fdSet \cup {fd}
  BY DEF procAllocIOBlock
<1>2. i \in UserSlots /\ fds[i] = NoFd /\ i \in Slots \ {PIPE_READ, PIPE_WRITE, MSG_QUEUE}
  BY SlotsAre DEF FreeSlots
<1>3. fds \in [Slots -> AllFds \cup {NoFd}] /\ fd \in AllFds /\ fd \in Nat /\ fd # NoFd /\ fd # PipeWrite
  BY FdsAre DEF TableFits
<1>4. fds'[i] = fd /\ \A j \in Slots \ {i} : fds'[j] = fds[j]
  BY <1>1, <1>2, <1>3
<1>5. Registered' = Registered \cup {fd}
  <2>1. \A x : x \in Registered' <=> x # NoFd /\ \E j \in Slots \ {PIPE_WRITE} : fds'[j] = x
    BY DEF Registered
  <2> QED BY <1>2, <1>3, <1>4, <2>1, RegisteredIs
<1>6. \A j \in Slots : fds[j] # fd
  <2>1. \A j \in Slots \ {PIPE_WRITE} : fds[j] # fd
    BY <1>3, RegisteredIs
  <2> QED BY <1>3, <2>1 DEF TableFits
<1>7. \A j, k \in Slots : fds'[j] = fds'[k] /\ fds'[j] # NoFd => j = k
  BY <1>4, <1>6 DEF TableFits
<1>8. fdMax' \in Nat /\ \A x \in fdSet' : x <= fdMax'
  <2>1. fdMax \in Nat /\ \A x \in fdSet : x \in Nat /\ x <= fdMax
    <3>1. \A x \in Registered : x \in AllFds
      BY RegisteredIs DEF TableFits
    <3> QED BY <3>1, FdsAre DEF TableFits
  <2> QED BY <1>1, <1>3, <2>1
<1>9. fds' \in [Slots -> AllFds \cup {NoFd}]
  BY <1>1, <1>3
<1>10. /\ fds'[PIPE_READ] = PipeRead /\ fds'[PIPE_WRITE] = PipeWrite /\ fds'[MSG_QUEUE] = QueueFd
       /\ \A j \in UserSlots : fds'[j] \in OwnFds \cup {NoFd}
  BY <1>2, <1>4, SlotsAre DEF TableFits
<1>11. fdSet' = Registered'
  BY <1>1, <1>5 DEF TableFits
<1> QED BY <1>5, <1>7, <1>8, <1>9, <1>10, <1>11 DEF TableFits

\* procFreeIOBlock for a slot of the user.
LEMMA FreeKeeps ==
  ASSUME TableFits, NEW i \in UserSlots, fds[i] # NoFd, procFreeIOBlock(i)
  PROVE  /\ TableFits' /\ Registered' = Registered \ {fds[i]} /\ fds[i] \in OwnFds
         /\ fds'[i] = NoFd /\ \A j \in Slots \ {i} : fds'[j] = fds[j]
<1>1. /\ fdSet' = fdSet \ {fds[i]} /\ fds' = [fds EXCEPT ![i] = NoFd]
      /\ fdMax' = (IF fdMax = fds[i] THEN MaxWithout(i) ELSE fdMax)
  BY DEF procFreeIOBlock
<1>2. i \in Slots \ {PIPE_READ, PIPE_WRITE, MSG_QUEUE} /\ fds \in [Slots -> AllFds \cup {NoFd}]
  BY SlotsAre DEF TableFits
<1>3. fds'[i] = NoFd /\ \A j \in Slots \ {i} : fds'[j] = fds[j]
  BY <1>1, <1>2
<1>4. fds[i] \in OwnFds
  BY DEF TableFits
<1>5. Registered' = Registered \ {fds[i]}
  <2>1. \A x : x \in Registered' <=> x # NoFd /\ \E j \in Slots \ {PIPE_WRITE} : fds'[j] = x
    BY DEF Registered
  <2>2. \A j \in Slots \ {i} : fds[j] # fds[i]
    BY <1>2 DEF TableFits
  <2> QED BY <1>2, <1>3, <2>1, <2>2, RegisteredIs
<1>6. \A j, k \in Slots : fds'[j] = fds'[k] /\ fds'[j] # NoFd => j = k
  BY <1>3 DEF TableFits
<1>7. fdMax' \in Nat /\ \A x \in fdSet' : x <= fdMax'
  <2>1. CASE fdMax = fds[i]
    <3>1. fdMax' = MaxWithout(i) /\ MaxWithout(i) \in Nat
      BY <1>1, <1>2, <2>1, MaxWithoutIs
    <3>2. \A x \in fdSet' : \E j \in Slots \ {i} : fds[j] = x /\ x # NoFd
      BY <1>1, RegisteredIs DEF TableFits
    <3> QED BY <1>2, <3>1, <3>2, MaxWithoutIs
  <2>2. CASE fdMax # fds[i]
    BY <1>1, <2>2 DEF TableFits
  <2> QED BY <2>1, <2>2
<1>8. fds' \in [Slots -> AllFds \cup {NoFd}]
  BY <1>1, <1>2
<1>9. /\ fds'[PIPE_READ] = PipeRead /\ fds'[PIPE_WRITE] = PipeWrite /\ fds'[MSG_QUEUE] = QueueFd
      /\ \A j \in UserSlots : fds'[j] \in OwnFds \cup {NoFd}
  BY <1>2, <1>3, SlotsAre DEF TableFits
<1>10. fdSet' = Registered'
  BY <1>1, <1>5 DEF TableFits
<1> QED BY <1>3, <1>4, <1>5, <1>6, <1>7, <1>8, <1>9, <1>10 DEF TableFits

-----------------------------------------------------------------------------
(* The main loop: the steps *)

LEMMA FitsStay ==
  /\ TableFits /\ UNCHANGED tableVars => TableFits' /\ Registered' = Registered
  /\ OpenFits /\ Registered' = Registered /\ UNCHANGED <<openFds, missed>> => OpenFits'
  /\ BuffersFit /\ UNCHANGED msgVars /\ (loop = "callback" => loop' = "callback") => BuffersFit'
<1>1. TableFits /\ UNCHANGED tableVars => TableFits' /\ Registered' = Registered
  BY DEF tableVars, TableFits, Registered
<1>2. OpenFits /\ Registered' = Registered /\ UNCHANGED <<openFds, missed>> => OpenFits'
  BY DEF OpenFits
<1>3. BuffersFit /\ UNCHANGED msgVars /\ (loop = "callback" => loop' = "callback") => BuffersFit'
  BY DEF msgVars, BuffersFit, BuffersAccounted
<1> QED BY <1>1, <1>2, <1>3

\* Between waits nothing is being scanned.
LEMMA RestFits ==
  ASSUME ScanFits, loop' \in {"idle", "tested", "select", "stopped"}, slot' \in Nat,
         readFds' \subseteq AllFds \ {PipeWrite}, UNCHANGED histVars
  PROVE  ScanFits'
BY DEF ScanFits, ServedHasData, histVars

\* What the program does during a scan takes slots out of the table, and data
\* from the descriptors that were in them, unless it registers new ones.
LEMMA CallFits ==
  ASSUME ScanFits, Running, UNCHANGED waitVars, staleServe' = staleServe,
         missed' \in BOOLEAN, missed => missed',
         loop = "callback" /\ ~LateRegister /\ ~missed' =>
            \A i \in UserSlots : fds'[i] \in AllFds =>
                fds'[i] = fds[i] /\ (fds[i] \in hasData => fds'[i] \in hasData')
  PROVE  ScanFits'
<1>1. loop' = loop /\ slot' = slot /\ readFds' = readFds /\ readFds \subseteq AllFds
  BY DEF waitVars, ScanFits
<1>2. ToScan' = ToScan
  BY <1>1 DEF ToScan
<1>3. ServedHasData'
  BY DEF ScanFits, ServedHasData
<1>4. ASSUME loop \in {"scan", "callback"}, ~LateRegister, ~missed', NEW i \in ToScan,
             fds'[i] \in readFds
      PROVE  fds'[i] \in hasData'
  <2>1. loop = "callback" /\ ~missed /\ i \in UserSlots
    BY <1>4 DEF Running, ToScan
  <2>2. fds'[i] = fds[i] /\ (fds[i] \in hasData => fds'[i] \in hasData')
    BY <1>1, <1>4, <2>1
  <2> QED BY <1>4, <2>1, <2>2 DEF ScanFits
<1> QED BY <1>1, <1>2, <1>3, <1>4 DEF ScanFits

LEMMA RegisterKeeps ==
  ASSUME LoopInv, radProcessIORegisterDescriptor PROVE LoopInv'
<1> DEFINE fd == Min(UserFds \ openFds)
<1>1. /\ MayRegister /\ UserFds \ openFds # {}
      /\ UNCHANGED <<exitFlag, hasData, msgVars, waitVars, histVars>>
  BY DEF radProcessIORegisterDescriptor
<1>2. Running /\ (loop = "callback" => LateRegister) /\ ~missed
  BY <1>1 DEF MayRegister, Running
<1>3. ScanFits'
  BY <1>1, <1>2, CallFits DEF LoopInv, histVars, OpenFits
<1>4. loop' = loop /\ BuffersFit' /\ missed' = missed
  BY <1>1, FitsStay DEF LoopInv, waitVars, histVars
<1>5. CASE FreeSlots = {}
  <2>1. UNCHANGED <<tableVars, openFds>>
    BY <1>5 DEF radProcessIORegisterDescriptor
  <2> QED BY <1>3, <1>4, <2>1, FitsStay DEF LoopInv
<1>6. CASE FreeSlots # {}
  <2>1. procAllocIOBlock(Min(FreeSlots), fd) /\ openFds' = openFds \cup {fd}
    BY <1>6 DEF radProcessIORegisterDescriptor
  <2>2. fd \in UserFds \ openFds
    <3>1. UserFds \ openFds \in SUBSET Nat
      BY FdsAre
    <3> QED BY <1>1, <3>1, LeastNat DEF Min
  <2>3. Min(FreeSlots) \in FreeSlots
    <3>1. FreeSlots \in SUBSET Nat
      BY SlotsAre DEF FreeSlots
    <3> QED BY <1>6, <3>1, LeastNat DEF Min
  <2> HIDE DEF fd
  <2>4. fd \in OwnFds /\ fd \notin Registered
    BY <1>2, <2>2, FdsAre DEF LoopInv, OpenFits
  <2>5. TableFits' /\ Registered' = Registered \cup {fd}
    BY <2>1, <2>3, <2>4, AllocKeeps DEF LoopInv
  <2>6. OpenFits'
    BY <1>4, <2>1, <2>5 DEF LoopInv, OpenFits
  <2> QED BY <1>3, <1>4, <2>5, <2>6 DEF LoopInv
<1> QED BY <1>5, <1>6

LEMMA RegisterStdinKeeps ==
  ASSUME LoopInv, radProcessIORegisterSTDIN PROVE LoopInv'
<1>1. /\ MayRegister /\ Stdin \notin Registered /\ FreeSlots # {}
      /\ procAllocIOBlock(Min(FreeSlots), Stdin)
      /\ UNCHANGED <<exitFlag, openFds, hasData, msgVars, waitVars, histVars>>
  BY DEF radProcessIORegisterSTDIN
<1>2. Running /\ (loop = "callback" => LateRegister)
  BY <1>1 DEF MayRegister
<1>3. ScanFits'
  BY <1>1, <1>2, CallFits DEF LoopInv, histVars, OpenFits
<1>4. loop' = loop /\ BuffersFit' /\ missed' = missed
  BY <1>1, FitsStay DEF LoopInv, waitVars, histVars
<1>5. Min(FreeSlots) \in FreeSlots
  <2>1. FreeSlots \in SUBSET Nat
    BY SlotsAre DEF FreeSlots
  <2> QED BY <1>1, <2>1, LeastNat DEF Min
<1>6. TableFits' /\ Registered' = Registered \cup {Stdin}
  BY <1>1, <1>5, AllocKeeps DEF LoopInv, OwnFds
<1>7. OpenFits'
  BY <1>1, <1>4, <1>6 DEF LoopInv, OpenFits
<1> QED BY <1>3, <1>4, <1>6, <1>7 DEF LoopInv

LEMMA DeRegisterKeeps ==
  ASSUME LoopInv, NEW i \in UserSlots, radProcessIODeRegisterDescriptor(i) PROVE LoopInv'
<1>1. /\ Running /\ fds[i] # NoFd /\ procFreeIOBlock(i)
      /\ openFds' = openFds \ ({fds[i]} \ {Stdin})
      /\ hasData' = hasData \ ({fds[i]} \ {Stdin})
      /\ UNCHANGED <<exitFlag, msgVars, waitVars, histVars>>
  BY DEF radProcessIODeRegisterDescriptor
<1>2. /\ TableFits' /\ Registered' = Registered \ {fds[i]} /\ fds[i] \in OwnFds
      /\ fds'[i] = NoFd /\ \A j \in Slots \ {i} : fds'[j] = fds[j]
  BY <1>1, FreeKeeps DEF LoopInv
<1>3. loop' = loop /\ BuffersFit' /\ missed' = missed /\ staleServe' = staleServe
  BY <1>1, FitsStay DEF LoopInv, waitVars, histVars
<1>4. OpenFits'
  BY <1>1, <1>2, <1>3, FdsAre DEF LoopInv, OpenFits
<1>5. \A j \in UserSlots : fds'[j] \in AllFds =>
         fds'[j] = fds[j] /\ (fds[j] \in hasData => fds'[j] \in hasData')
  <2>1. SUFFICES ASSUME NEW j \in UserSlots, fds'[j] \in AllFds
                 PROVE  fds'[j] = fds[j] /\ fds[j] # fds[i]
    BY <1>1
  <2>2. j # i
    BY <1>2, <2>1, FdsAre
  <2> QED BY <1>1, <1>2, <2>2, SlotsAre DEF LoopInv, TableFits
<1>6. ScanFits'
  BY <1>1, <1>3, <1>5, CallFits DEF LoopInv, OpenFits
<1> QED BY <1>2, <1>3, <1>4, <1>6 DEF LoopInv

LEMMA DeRegisterByFdKeeps ==
  ASSUME LoopInv, NEW fd \in UserFds, radProcessIODeRegisterDescriptorByFd(fd) PROVE LoopInv'
<1> DEFINE found == {i \in ByFdSearched : fds[i] = fd}
<1>1. /\ Running /\ openFds' = openFds \ {fd} /\ hasData' = hasData \ {fd}
      /\ UNCHANGED <<exitFlag, msgVars, waitVars, staleServe>>
  BY DEF radProcessIODeRegisterDescriptorByFd
<1>2. loop' = loop /\ BuffersFit' /\ ~missed
  BY <1>1, FitsStay DEF LoopInv, waitVars, Running
<1>3. CASE found = {}
  <2>1. UNCHANGED tableVars /\ missed' = TRUE
    BY <1>3 DEF radProcessIODeRegisterDescriptorByFd
  <2>2. TableFits' /\ OpenFits'
    BY <1>1, <2>1, FitsStay, FdsAre DEF LoopInv, OpenFits
  <2>3. ScanFits'
    BY <1>1, <2>1, CallFits DEF LoopInv
  <2> QED BY <1>2, <2>2, <2>3 DEF LoopInv
<1>4. CASE found # {}
  <2> DEFINE i == Min(found)
  <2>1. procFreeIOBlock(i) /\ missed' = missed
    BY <1>4 DEF radProcessIODeRegisterDescriptorByFd
  <2>2. i \in UserSlots /\ fds[i] = fd
    <3>1. ByFdSearched \subseteq UserSlots
      BY ProcessAssumption DEF ByFdSearched, UserSlots, USER_FIRST
    <3>2. found \in SUBSET Nat
      BY <3>1, SlotsAre
    <3>3. i \in found
      BY <1>4, <3>2, LeastNat DEF Min
    <3> QED BY <3>1, <3>3
  <2> HIDE DEF i, found
  <2>3. /\ TableFits' /\ Registered' = Registered \ {fd}
        /\ fds'[i] = NoFd /\ \A j \in Slots \ {i} : fds'[j] = fds[j]
    BY <2>1, <2>2, FreeKeeps, FdsAre DEF LoopInv
  <2>4. OpenFits'
    BY <1>1, <2>1, <2>3, FdsAre DEF LoopInv, OpenFits
  <2>5. \A j \in UserSlots : fds'[j] \in AllFds =>
           fds'[j] = fds[j] /\ (fds[j] \in hasData => fds'[j] \in hasData')
    <3>1. SUFFICES ASSUME NEW j \in UserSlots, fds'[j] \in AllFds
                   PROVE  fds'[j] = fds[j] /\ fds[j] # fd
      BY <1>1
    <3>2. j # i
      BY <2>3, <3>1, FdsAre
    <3>3. fd # NoFd
      BY FdsAre
    <3> QED BY <2>2, <2>3, <3>2, <3>3, SlotsAre DEF LoopInv, TableFits
  <2>6. ScanFits'
    BY <1>1, <2>1, <2>5, CallFits DEF LoopInv, OpenFits
  <2> QED BY <1>2, <2>3, <2>4, <2>6 DEF LoopInv
<1> QED BY <1>3, <1>4

LEMMA DataKeeps ==
  ASSUME LoopInv, NEW fd \in UserFds \cup {Stdin}, DataArrives(fd) PROVE LoopInv'
<1>1. /\ hasData' = hasData \cup {fd}
      /\ UNCHANGED <<tableVars, exitFlag, openFds, msgVars, waitVars, histVars>>
  BY DEF DataArrives
<1>2. UNCHANGED <<loop, slot, readFds, missed, staleServe, fds>>
  BY <1>1 DEF waitVars, histVars, tableVars
<1>3. TableFits' /\ OpenFits' /\ BuffersFit'
  BY <1>1, <1>2, FitsStay DEF LoopInv
<1>4. ScanFits'
  BY <1>1, <1>2 DEF LoopInv, ScanFits, ToScan, ServedHasData
<1> QED BY <1>3, <1>4 DEF LoopInv

\* Sends and releases move buffers and nothing else.
LEMMA BufferCallsKeep ==
  ASSUME LoopInv, \/ \E e \in Events : SendSelf(e) \/ PeerSends(e)
                  \/ PeerSends("msg") \/ ReleaseKept
  PROVE  LoopInv'
<1>1. UNCHANGED <<tableVars, openFds, hasData, holding, waitVars, histVars>>
  BY DEF SendSelf, PeerSends, ReleaseKept
<1>2. UNCHANGED <<loop, slot, readFds, missed, staleServe, fds>>
  BY <1>1 DEF waitVars, histVars, tableVars
<1>3. TableFits' /\ OpenFits'
  BY <1>1, <1>2, FitsStay DEF LoopInv
<1>4. ScanFits'
  BY <1>1, <1>2 DEF LoopInv, ScanFits, ToScan, ServedHasData
<1>5. /\ freeBufs \in Nat /\ kept \in Nat
      /\ selfEvents \in Seq(Events) /\ inbox \in Seq(Events \cup {"msg"})
      /\ BuffersAccounted /\ loop' = loop
  BY <1>2 DEF LoopInv, BuffersFit
<1>6. ASSUME NEW e \in Events, SendSelf(e) PROVE BuffersFit'
  <2>1. /\ freeBufs > 0 /\ freeBufs' = freeBufs - 1 /\ kept' = kept /\ inbox' = inbox
        /\ selfEvents' = Append(selfEvents, e)
    BY <1>6 DEF SendSelf
  <2>2. selfEvents' \in Seq(Events) /\ Len(selfEvents') = Len(selfEvents) + 1
    BY <1>5, <2>1
  <2>3. freeBufs' \in Nat /\ freeBufs' + Len(selfEvents') = freeBufs + Len(selfEvents)
    BY <1>5, <2>1, <2>2
  <2> QED BY <1>1, <1>2, <1>5, <2>1, <2>2, <2>3 DEF LoopInv, BuffersFit, BuffersAccounted
<1>7. ASSUME NEW m \in Events \cup {"msg"}, PeerSends(m) PROVE BuffersFit'
  <2>1. /\ freeBufs > 0 /\ freeBufs' = freeBufs - 1 /\ kept' = kept /\ selfEvents' = selfEvents
        /\ inbox' = Append(inbox, m)
    BY <1>7 DEF PeerSends
  <2>2. inbox' \in Seq(Events \cup {"msg"}) /\ Len(inbox') = Len(inbox) + 1
    BY <1>5, <2>1
  <2>3. freeBufs' \in Nat /\ freeBufs' + Len(inbox') = freeBufs + Len(inbox)
    BY <1>5, <2>1, <2>2
  <2> QED BY <1>1, <1>2, <1>5, <2>1, <2>2, <2>3 DEF LoopInv, BuffersFit, BuffersAccounted
<1>8. ASSUME ReleaseKept PROVE BuffersFit'
  <2>1. /\ kept > 0 /\ kept' = kept - 1 /\ freeBufs' = freeBufs + 1
        /\ UNCHANGED <<selfEvents, inbox>>
    BY <1>8 DEF ReleaseKept
  <2>2. freeBufs' \in Nat /\ kept' \in Nat /\ freeBufs' + kept' = freeBufs + kept
    BY <1>5, <2>1
  <2> QED BY <1>1, <1>2, <1>5, <2>1, <2>2 DEF LoopInv, BuffersFit, BuffersAccounted
<1> QED BY <1>3, <1>4, <1>6, <1>7, <1>8 DEF LoopInv

\* The loop away from the scan.
LEMMA RestKeeps ==
  ASSUME LoopInv, \/ WaitEnter \/ SelectFails \/ SelectBlocks \/ SelectTimesOut
                  \/ AlarmSignal \/ ScanEnds
  PROVE  LoopInv'
<1>1. /\ UNCHANGED <<tableVars, openFds, msgVars, histVars>> /\ loop # "callback"
      /\ loop' \in {"idle", "tested", "select", "stopped"}
      /\ slot' \in {slot, 0} /\ readFds' \in {readFds, fdSet, {}}
  BY DEF WaitEnter, SelectFails, SelectBlocks, SelectTimesOut, AlarmSignal, ScanEnds
<1>2. missed' = missed /\ TableFits' /\ OpenFits' /\ BuffersFit'
  BY <1>1, FitsStay DEF LoopInv, histVars
<1>3. slot' \in Nat
  BY <1>1 DEF LoopInv, ScanFits
<1>4. readFds' \subseteq AllFds \ {PipeWrite}
  <2>1. ASSUME NEW fd \in Registered PROVE fd \in AllFds \ {PipeWrite}
    <3>1. PICK i \in Slots \ {PIPE_WRITE} : fds[i] = fd /\ fd # NoFd
      BY <2>1, RegisteredIs
    <3> QED BY <3>1, SlotsAre DEF LoopInv, TableFits
  <2> QED BY <1>1, <2>1 DEF LoopInv, ScanFits, TableFits
<1> QED BY <1>1, <1>2, <1>3, <1>4, RestFits DEF LoopInv

LEMMA SignalKeeps == ASSUME LoopInv, ExitSignal PROVE LoopInv'
<1>1. /\ UNCHANGED <<tableVars, openFds, hasData, msgVars, slot, readFds, histVars>>
      /\ loop' = (IF loop = "select" THEN "stopped" ELSE loop)
  BY DEF ExitSignal
<1>2. missed' = missed /\ staleServe' = staleServe /\ fds' = fds
  BY <1>1 DEF histVars, tableVars
<1>3. TableFits' /\ OpenFits' /\ BuffersFit'
  BY <1>1, <1>2, FitsStay DEF LoopInv
<1>4. ScanFits'
  BY <1>1, <1>2 DEF LoopInv, ScanFits, ToScan, ServedHasData
<1> QED BY <1>3, <1>4 DEF LoopInv

\* What select leaves has something to read.
LEMMA SelectReadyKeeps == ASSUME LoopInv, SelectReady PROVE LoopInv'
<1>1. /\ loop \in {"tested", "select"} /\ readFds' = ReadyFds /\ loop' = "scan" /\ slot' = 0
      /\ UNCHANGED <<tableVars, openFds, hasData, msgVars, histVars>>
  BY DEF SelectReady
<1>2. missed' = missed /\ staleServe' = staleServe /\ fds' = fds
  BY <1>1 DEF histVars, tableVars
<1>3. TableFits' /\ OpenFits' /\ BuffersFit'
  BY <1>1, <1>2, FitsStay DEF LoopInv
<1>4. ReadyFds \subseteq AllFds \ {PipeWrite}
  BY DEF ReadyFds, Examined, LoopInv, ScanFits
<1>5. ASSUME NEW i \in UserSlots, fds[i] \in ReadyFds PROVE fds[i] \in hasData
  <2>1. fds[i] \in OwnFds
    BY <1>4, <1>5, FdsAre DEF LoopInv, TableFits
  <2> QED BY <1>5, <2>1, FdsAre DEF ReadyFds, Ready
<1>6. ScanFits'
  BY <1>1, <1>2, <1>4, <1>5 DEF LoopInv, ScanFits, ToScan, ServedHasData
<1> QED BY <1>3, <1>6 DEF LoopInv

\* A callback starts: the pipe's and the queue's take a buffer, another reads
\* what is there, and nobody else's.
LEMMA ServeKeeps == ASSUME LoopInv, ScanServes PROVE LoopInv'
<1>1. /\ loop = "scan" /\ Chirping # {} /\ slot' = Min(Chirping) /\ loop' = "callback"
      /\ CASE slot' = PIPE_READ -> procPipeReadCB
           [] slot' = MSG_QUEUE -> procQueueReadCB
           [] OTHER -> UserCallback(fds[slot'])
      /\ UNCHANGED <<tableVars, openFds, freeBufs, kept, readFds, missed>>
  BY DEF ScanServes
<1>2. fds' = fds /\ TableFits' /\ OpenFits'
  BY <1>1, FitsStay DEF LoopInv, tableVars
<1> DEFINE i == Min(Chirping)
<1>3. i \in Chirping /\ i \in Slots /\ i \in Nat /\ i >= slot
  <2>1. Chirping \in SUBSET Nat /\ \A j \in Chirping : j \in Slots /\ j >= slot
    BY ProcessAssumption DEF Chirping, Slots, PIPE_READ, LoopInv, ScanFits
  <2> QED BY <1>1, <2>1, LeastNat DEF Min
<1>4. fds[i] # NoFd /\ fds[i] \in readFds /\ i # PIPE_WRITE
  BY <1>3 DEF Chirping, LoopInv, ScanFits, TableFits
<1> HIDE DEF i
<1>5. slot' = i
  BY <1>1 DEF i
<1>6. /\ freeBufs \in Nat /\ kept \in Nat /\ holding = "none"
      /\ selfEvents \in Seq(Events) /\ inbox \in Seq(Events \cup {"msg"})
      /\ BuffersAccounted /\ UNCHANGED <<freeBufs, kept>>
  BY <1>1 DEF LoopInv, BuffersFit
<1>7. ASSUME NEW j \in ToScan' PROVE j \in ToScan /\ j # i
  BY <1>1, <1>3, <1>5, <1>7, SlotsAre DEF ToScan, LoopInv, ScanFits
<1>8. CASE i = PIPE_READ
  <2>1. procPipeReadCB
    BY <1>1, <1>5, <1>8, SlotsAre
  <2>2. /\ selfEvents # <<>> /\ selfEvents' = Tail(selfEvents) /\ holding' = "release"
        /\ UNCHANGED <<inbox, hasData, staleServe>>
    BY <2>1 DEF procPipeReadCB
  <2>3. selfEvents' \in Seq(Events) /\ Len(selfEvents') + 1 = Len(selfEvents)
    BY <1>6, <2>2
  <2>4. BuffersFit'
    BY <1>1, <1>6, <2>2, <2>3 DEF BuffersFit, BuffersAccounted
  <2>5. ScanFits'
    BY <1>1, <1>2, <1>3, <1>5, <1>7, <2>2 DEF LoopInv, ScanFits, ServedHasData
  <2> QED BY <1>2, <2>4, <2>5 DEF LoopInv
<1>9. CASE i = MSG_QUEUE
  <2>1. procQueueReadCB
    BY <1>1, <1>5, <1>9, SlotsAre
  <2>2. /\ inbox # <<>> /\ inbox' = Tail(inbox) /\ holding' \in {"release", "keep"}
        /\ UNCHANGED <<selfEvents, hasData, staleServe>>
    BY <2>1 DEF procQueueReadCB
  <2>3. inbox' \in Seq(Events \cup {"msg"}) /\ Len(inbox') + 1 = Len(inbox)
    BY <1>6, <2>2
  <2>4. BuffersFit'
    BY <1>1, <1>6, <2>2, <2>3 DEF BuffersFit, BuffersAccounted
  <2>5. ScanFits'
    BY <1>1, <1>2, <1>3, <1>5, <1>7, <2>2 DEF LoopInv, ScanFits, ServedHasData
  <2> QED BY <1>2, <2>4, <2>5 DEF LoopInv
<1>10. CASE i \notin {PIPE_READ, MSG_QUEUE}
  <2>1. UserCallback(fds[i]) /\ i \in UserSlots
    BY <1>1, <1>3, <1>4, <1>5, <1>10, SlotsAre
  <2>2. /\ staleServe' = (staleServe \/ fds[i] \notin hasData)
        /\ hasData' = hasData \ {fds[i]} /\ UNCHANGED <<selfEvents, inbox, holding>>
    BY <2>1 DEF UserCallback
  <2>3. BuffersFit'
    BY <1>1, <1>6, <2>2 DEF BuffersFit, BuffersAccounted
  <2>4. LateRegister \/ missed \/ fds[i] \in hasData
    BY <1>1, <1>3, <1>4, <2>1 DEF LoopInv, ScanFits, ToScan
  <2>5. ASSUME NEW j \in ToScan', ~LateRegister, ~missed, fds[j] \in readFds
        PROVE  fds[j] \in hasData'
    <3>1. j \in ToScan /\ j # i /\ j \in UserSlots
      BY <1>7, <2>5 DEF ToScan
    <3>2. fds[j] \in hasData
      BY <1>1, <2>5, <3>1 DEF LoopInv, ScanFits
    <3>3. fds[j] # fds[i]
      BY <1>3, <1>4, <3>1, SlotsAre DEF LoopInv, TableFits
    <3> QED BY <2>2, <3>2, <3>3
  <2>6. ScanFits'
    BY <1>1, <1>2, <1>3, <1>5, <2>2, <2>4, <2>5 DEF LoopInv, ScanFits, ServedHasData
  <2> QED BY <1>2, <2>3, <2>6 DEF LoopInv
<1> QED BY <1>8, <1>9, <1>10

LEMMA ReturnKeeps == ASSUME LoopInv, CallbackReturns PROVE LoopInv'
<1>1. /\ loop = "callback" /\ freeBufs' = freeBufs + Released
      /\ kept' = kept + (IF holding = "keep" THEN 1 ELSE 0)
      /\ holding' = "none" /\ loop' = "scan" /\ slot' = slot + 1
      /\ UNCHANGED <<tableVars, openFds, hasData, selfEvents, inbox, readFds, histVars>>
  BY DEF CallbackReturns, NextSlot
<1>2. missed' = missed /\ staleServe' = staleServe /\ fds' = fds
  BY <1>1 DEF histVars, tableVars
<1>3. TableFits' /\ OpenFits'
  BY <1>1, <1>2, FitsStay DEF LoopInv
<1>4. BuffersFit'
  <2>1. /\ freeBufs \in Nat /\ kept \in Nat /\ holding \in {"none", "release", "keep"}
        /\ selfEvents \in Seq(Events) /\ inbox \in Seq(Events \cup {"msg"})
        /\ BuffersAccounted
    BY DEF LoopInv, BuffersFit
  <2>2. /\ freeBufs' \in Nat /\ kept' \in Nat
        /\ freeBufs' + kept' = freeBufs + kept + (IF holding = "none" THEN 0 ELSE 1)
    BY <1>1, <2>1 DEF Released
  <2>3. Len(selfEvents) \in Nat /\ Len(inbox) \in Nat
    BY <2>1
  <2> QED BY <1>1, <2>1, <2>2, <2>3 DEF BuffersFit, BuffersAccounted
<1>5. slot' \in Nat /\ ToScan' = ToScan
  <2>1. slot \in Nat /\ \A j \in UserSlots : j \in Nat
    BY SlotsAre DEF LoopInv, ScanFits
  <2>2. \A j \in UserSlots : j >= slot + 1 <=> j > slot
    BY <2>1
  <2> QED BY <1>1, <2>1, <2>2 DEF ToScan
<1>6. ScanFits'
  BY <1>1, <1>2, <1>5 DEF LoopInv, ScanFits, ServedHasData
<1> QED BY <1>3, <1>4, <1>6 DEF LoopInv

LEMMA ProcInitInv == ProcInit => LoopInv
<1> SUFFICES ASSUME ProcInit PROVE LoopInv
  OBVIOUS
<1>1. /\ fds = [i \in Slots |-> IF i = PIPE_READ THEN PipeRead
                                ELSE IF i = PIPE_WRITE THEN PipeWrite
                                ELSE IF i = MSG_QUEUE THEN QueueFd ELSE NoFd]
      /\ fdSet = {PipeRead, QueueFd} /\ fdMax = QueueFd
      /\ openFds = {Stdin, PipeRead, PipeWrite, QueueFd}
      /\ selfEvents = <<>> /\ inbox = <<>> /\ freeBufs = SysBufs /\ kept = 0
      /\ holding = "none" /\ loop = "idle" /\ slot = 0 /\ readFds = {}
      /\ missed = FALSE /\ staleServe = FALSE
  BY DEF ProcInit
<1>2. PipeRead # PipeWrite /\ PipeRead # QueueFd /\ PipeWrite # QueueFd
  BY DEF PipeRead, PipeWrite, QueueFd
<1>3. \A i \in Slots : /\ i = PIPE_READ => fds[i] = PipeRead
                       /\ i = PIPE_WRITE => fds[i] = PipeWrite
                       /\ i = MSG_QUEUE => fds[i] = QueueFd
                       /\ i \in UserSlots => fds[i] = NoFd
  BY <1>1, SlotsAre
<1>4. Registered = {PipeRead, QueueFd}
  <2>1. ASSUME NEW fd PROVE fd \in Registered <=> fd \in {PipeRead, QueueFd}
    <3>1. CASE fd \in {PipeRead, QueueFd}
      BY <1>3, <3>1, RegisteredIs, SlotsAre, FdsAre
    <3>2. CASE fd \in Registered
      BY <1>3, <3>2, RegisteredIs, SlotsAre
    <3> QED BY <3>1, <3>2
  <2> QED BY <2>1
<1>5. TableFits
  <2>1. fds \in [Slots -> AllFds \cup {NoFd}]
    BY <1>1, FdsAre
  <2>2. \A i, j \in Slots : fds[i] = fds[j] /\ fds[i] # NoFd => i = j
    BY <1>2, <1>3, SlotsAre
  <2>3. fdMax \in Nat /\ \A fd \in fdSet : fd <= fdMax
    BY <1>1 DEF PipeRead, QueueFd
  <2>4. /\ fds[PIPE_READ] = PipeRead /\ fds[PIPE_WRITE] = PipeWrite /\ fds[MSG_QUEUE] = QueueFd
        /\ \A i \in UserSlots : fds[i] = NoFd
    BY <1>3, SlotsAre
  <2> QED BY <1>1, <1>4, <2>1, <2>2, <2>3, <2>4 DEF TableFits
<1>6. OpenFits
  BY <1>1, <1>4 DEF OpenFits
<1>7. ScanFits
  BY <1>1 DEF ScanFits, ServedHasData
<1>8. BuffersFit
  BY <1>1, ProcessAssumption DEF BuffersFit, BuffersAccounted
<1> QED BY <1>5, <1>6, <1>7, <1>8 DEF LoopInv

LEMMA ProcNextInv == LoopInv /\ [ProcNext]_procVars => LoopInv'
<1> SUFFICES ASSUME LoopInv, [ProcNext]_procVars PROVE LoopInv'
  OBVIOUS
<1>1. CASE WaitStep
  BY <1>1, RestKeeps, SelectReadyKeeps, ServeKeeps, ReturnKeeps DEF WaitStep
<1>2. CASE SelectTimesOut \/ ExitSignal \/ AlarmSignal
  BY <1>2, RestKeeps, SignalKeeps
<1>3. CASE radProcessIORegisterDescriptor \/ radProcessIORegisterSTDIN \/ ReleaseKept
  BY <1>3, RegisterKeeps, RegisterStdinKeeps, BufferCallsKeep
<1>4. CASE \/ \E i \in UserSlots : radProcessIODeRegisterDescriptor(i)
           \/ \E fd \in UserFds : radProcessIODeRegisterDescriptorByFd(fd)
  BY <1>4, DeRegisterKeeps, DeRegisterByFdKeeps
<1>5. CASE \E fd \in UserFds \cup {Stdin} : DataArrives(fd)
  BY <1>5, DataKeeps
<1>6. CASE (\E e \in Events : SendSelf(e) \/ PeerSends(e)) \/ PeerSends("msg")
  BY <1>6, BufferCallsKeep
<1>7. CASE UNCHANGED procVars
  <2>1. /\ UNCHANGED <<tableVars, openFds, hasData, msgVars, waitVars, histVars>>
    BY <1>7 DEF procVars, tableVars, msgVars, waitVars, histVars
  <2>2. UNCHANGED <<loop, slot, readFds, missed, staleServe, fds>>
    BY <2>1 DEF waitVars, histVars, tableVars
  <2>3. TableFits' /\ OpenFits' /\ BuffersFit'
    BY <2>1, <2>2, FitsStay DEF LoopInv
  <2>4. ScanFits'
    BY <2>1, <2>2 DEF LoopInv, ScanFits, ToScan, ServedHasData
  <2> QED BY <2>3, <2>4 DEF LoopInv
<1> QED BY <1>1, <1>2, <1>3, <1>4, <1>5, <1>6, <1>7 DEF ProcNext

\* LoopConsistent (radprocess.c, procAllocIOBlock, procFreeIOBlock and
\* radProcessWait): for any number of slots, descriptors, events and buffers,
\* and however callbacks, signals and messages interleave, select is asked about
\* what is registered, all of it open and none above fdMax, until a descriptor
\* was closed that the search by number missed; no callback reads where there is
\* nothing unless callbacks register descriptors; and no buffer is lost.
THEOREM LoopStaysConsistent == ProcSpec => []LoopConsistent
<1>1. LoopInv => LoopConsistent
  BY DEF LoopInv, TableFits, OpenFits, ScanFits, BuffersFit, LoopConsistent, SelectSeesTable
<1> QED BY ProcInitInv, ProcNextInv, <1>1, PTL DEF ProcSpec

-----------------------------------------------------------------------------
(* The program: the inductive invariant *)

Stages == {"sysInit", "system", "process", "lock", "config", "stdin", "states", "timers",
           "dummy", "loop", "leaving", "leavingTwice", "ended"}
Active(c) == at[c] \notin {"sysInit", "leaving", "leavingTwice", "ended"}
Users == {c \in Copies : InSystem(c)}

CopyTypes ==
    /\ lockFile \in BOOLEAN /\ numprocs \in Int /\ semTaken \in BOOLEAN /\ leaked \in Nat
    /\ at \in [Copies -> Stages] /\ exiting \in [Copies -> BOOLEAN]
    /\ mstate \in [Copies -> States] /\ stateProc \in [Copies -> [States -> States \cup {Stub}]]
    /\ running \in [Copies -> SUBSET Timers] /\ expired \in [Copies -> SUBSET Timers]

\* Without a race one copy at most is between the test of the lock file and the
\* way out, and the lock file is there from its creation on.
OneActive ==
    raced = {} => /\ \A c, d \in Copies : Active(c) /\ Active(d) => c = d
                  /\ \A c \in Copies : Catching(c) => lockFile

\* The state machine of a copy between its creation and the loop's end.
MachineFits(c) ==
    /\ at[c] \in {"timers", "dummy", "loop"} => stateProc[c] = [s \in States |-> s]
    /\ at[c] \in {"timers", "dummy"} => mstate[c] = "IDLE"
    /\ at[c] = "loop" /\ mstate[c] = "RUN" => running[c] \cup expired[c] = Timers

CopiesInv ==
    /\ CopyTypes /\ OneActive /\ StaleLockHasCause /\ SystemCountRight
    /\ \A c \in Copies : MachineFits(c)

-----------------------------------------------------------------------------
(* The program: the parts of the invariant *)

LEMMA GotoStage ==
  ASSUME CopyTypes, NEW c \in Copies, NEW stage \in Stages, TmplGoto(c, stage)
  PROVE  /\ at'[c] = stage /\ \A d \in Copies \ {c} : at'[d] = at[d]
         /\ at' \in [Copies -> Stages]
BY DEF CopyTypes, TmplGoto

\* Who does not step is where he was.
OthersStay(c) ==
    \A d \in Copies \ {c} : /\ at'[d] = at[d] /\ mstate'[d] = mstate[d]
                            /\ stateProc'[d] = stateProc[d]
                            /\ running'[d] = running[d] /\ expired'[d] = expired[d]

\* One enters the radlib system, or leaves it, or neither.
LEMMA UsersMove ==
  ASSUME CopyTypes, NEW c \in Copies, \A d \in Copies \ {c} : at'[d] = at[d]
  PROVE  /\ Cardinality(Users) \in Nat
         /\ InSystem(c)' /\ ~InSystem(c) => Cardinality(Users') = Cardinality(Users) + 1
         /\ ~InSystem(c)' /\ InSystem(c) => Cardinality(Users') = Cardinality(Users) - 1
         /\ (InSystem(c)' <=> InSystem(c)) => Cardinality(Users') = Cardinality(Users)
<1>1. IsFiniteSet(Users) /\ Cardinality(Users) \in Nat
  <2>1. Users \subseteq Copies
    BY DEF Users
  <2> QED BY <2>1, CopiesAssumption, FS_Subset, FS_CardinalityType
<1>2. \A d \in Copies \ {c} : d \in Users' <=> d \in Users
  BY DEF Users, InSystem
<1>3. (c \in Users <=> InSystem(c)) /\ (c \in Users' <=> InSystem(c)') /\ Users' \subseteq Copies /\ Users \subseteq Copies
  BY DEF Users
<1>4. CASE InSystem(c)' /\ ~InSystem(c)
  <2>1. Users' = Users \cup {c} /\ c \notin Users
    BY <1>2, <1>3, <1>4
  <2> QED BY <1>1, <1>4, <2>1, FS_AddElement
<1>5. CASE ~InSystem(c)' /\ InSystem(c)
  <2>1. Users' = Users \ {c} /\ c \in Users
    BY <1>2, <1>3, <1>5
  <2> QED BY <1>1, <1>5, <2>1, FS_RemoveElement
<1>6. CASE InSystem(c)' <=> InSystem(c)
  <2>1. Users' = Users
    BY <1>2, <1>3, <1>6
  <2> QED BY <1>1, <1>6, <2>1
<1> QED BY <1>1, <1>4, <1>5, <1>6

LEMMA CountIs == SystemCountRight <=> numprocs = Cardinality(Users) + leaked
BY DEF SystemCountRight, Users

\* The lock file, for a step of a copy that does not come past its test.
LEMMA LockKeeps ==
  ASSUME CopiesInv, NEW c \in Copies, raced' = raced, Active(c)' => Active(c),
         \A d \in Copies \ {c} : at'[d] = at[d],
         \/ lockFile' = lockFile
         \/ lockFile' = TRUE /\ Catching(c)'
         \/ lockFile' = FALSE /\ Active(c) /\ ~Active(c)',
         Catching(c)' => Catching(c) \/ lockFile' = TRUE,
         Catching(c) /\ ~Catching(c)' => lockFile' = FALSE \/ crashed' \cup lockLeft' # {},
         crashed \cup lockLeft \subseteq crashed' \cup lockLeft'
  PROVE  OneActive' /\ StaleLockHasCause'
<1>1. \A d \in Copies \ {c} : (Active(d)' <=> Active(d)) /\ (Catching(d)' <=> Catching(d))
  BY DEF Active, Catching
<1>2. \A d \in Copies : (Catching(d) => Active(d)) /\ (Catching(d)' => Active(d)')
  BY DEF Active, Catching
<1>3. OneActive'
  <2> SUFFICES ASSUME raced = {}
               PROVE  /\ \A d, e \in Copies : Active(d)' /\ Active(e)' => d = e
                      /\ \A d \in Copies : Catching(d)' => lockFile'
    BY DEF OneActive
  <2>1. /\ \A d, e \in Copies : Active(d) /\ Active(e) => d = e
        /\ \A d \in Copies : Catching(d) => lockFile
    BY DEF CopiesInv, OneActive
  <2>2. \A d \in Copies : Active(d)' => Active(d)
    BY <1>1
  <2>3. Catching(c)' => lockFile'
    BY <1>2, <2>1
  <2>4. \A d \in Copies \ {c} : Catching(d)' => lockFile'
    BY <1>1, <1>2, <2>1
  <2> QED BY <2>1, <2>2, <2>3, <2>4
<1>4. StaleLockHasCause'
  <2> SUFFICES ASSUME lockFile', raced = {}, crashed' \cup lockLeft' = {}
               PROVE  \E d \in Copies : Catching(d)'
    BY DEF StaleLockHasCause, PastLock
  <2>1. CASE lockFile' = lockFile
    <3>1. PICK d \in Copies : Catching(d)
      BY <2>1 DEF CopiesInv, StaleLockHasCause, PastLock
    <3> QED BY <1>1, <2>1, <3>1
  <2> QED BY <2>1
<1> QED BY <1>3, <1>4

\* A step that moves no copy.
LEMMA LockStays ==
  ASSUME CopiesInv, UNCHANGED <<at, lockFile, raced, crashed, lockLeft, numprocs, leaked>>
  PROVE  OneActive' /\ StaleLockHasCause' /\ SystemCountRight'
BY DEF CopiesInv, OneActive, StaleLockHasCause, SystemCountRight, Active, Catching, PastLock,
       InSystem

LEMMA OtherCopiesFit ==
  ASSUME CopiesInv, NEW c \in Copies, OthersStay(c), MachineFits(c)'
  PROVE  \A d \in Copies : MachineFits(d)'
<1>1. \A d \in Copies \ {c} : MachineFits(d)'
  BY DEF CopiesInv, MachineFits, OthersStay
<1> QED BY <1>1

\* The count, when c has come or gone, or died.
LEMMA CountKeeps ==
  ASSUME CopiesInv, NEW c \in Copies, \A d \in Copies \ {c} : at'[d] = at[d],
         numprocs' \in Int, leaked' \in Nat,
         numprocs' - leaked' = numprocs - leaked + (IF InSystem(c)' THEN 1 ELSE 0)
                                                 - (IF InSystem(c) THEN 1 ELSE 0)
  PROVE  SystemCountRight'
<1> DEFINE x == IF InSystem(c)' THEN 1 ELSE 0
           y == IF InSystem(c) THEN 1 ELSE 0
<1>1. numprocs = Cardinality(Users) + leaked /\ numprocs \in Int /\ leaked \in Nat
  BY CountIs DEF CopiesInv, CopyTypes
<1>2. Cardinality(Users) \in Nat /\ Cardinality(Users') = Cardinality(Users) + x - y
  BY UsersMove DEF CopiesInv
<1>3. x \in Int /\ y \in Int
  OBVIOUS
<1> HIDE DEF x, y
<1>4. numprocs' = Cardinality(Users') + leaked'
  BY <1>1, <1>2, <1>3 DEF x, y
<1> QED BY <1>4 DEF SystemCountRight, Users

\* A step of c from stage to stage that is no step of the state machine.
LEMMA StageKeeps ==
  ASSUME CopiesInv, NEW c \in Copies, NEW stage \in Stages, TmplGoto(c, stage), Active(c)' => Active(c),
         UNCHANGED <<mstate, stateProc, running, expired, exiting, raced>>,
         numprocs' \in Int, leaked' \in Nat, semTaken' \in BOOLEAN,
         stage \in {"timers", "dummy", "loop"} => at[c] = "timers" /\ stage = "dummy",
         lockFile' = lockFile \/ (lockFile' = TRUE /\ Catching(c)'),
         Catching(c)' => Catching(c) \/ lockFile' = TRUE,
         Catching(c) /\ ~Catching(c)' => lockFile' = FALSE \/ crashed' \cup lockLeft' # {},
         crashed \cup lockLeft \subseteq crashed' \cup lockLeft',
         numprocs' - leaked' = numprocs - leaked + (IF InSystem(c)' THEN 1 ELSE 0)
                                                 - (IF InSystem(c) THEN 1 ELSE 0)
  PROVE  CopiesInv'
<1>1. /\ at'[c] = stage /\ \A d \in Copies \ {c} : at'[d] = at[d]
      /\ at' \in [Copies -> Stages] /\ CopyTypes
  BY GotoStage DEF CopiesInv
<1>2. CopyTypes'
  BY <1>1 DEF CopyTypes
<1>4. OneActive' /\ StaleLockHasCause'
  BY <1>1, LockKeeps
<1>5. SystemCountRight'
  BY <1>1, CountKeeps
<1>6. MachineFits(c)'
  BY <1>1 DEF CopiesInv, MachineFits
<1>7. \A d \in Copies : MachineFits(d)'
  BY <1>1, <1>6, OtherCopiesFit DEF OthersStay
<1> QED BY <1>2, <1>4, <1>5, <1>7 DEF CopiesInv

-----------------------------------------------------------------------------
(* The program: the steps *)

\* The test of the lock file: without a race nobody else is past it.
LEMMA BeginKeeps ==
  ASSUME CopiesInv, NEW c \in Copies, templateSysInit(c) PROVE CopiesInv'
<1>1. /\ at[c] = "sysInit"
      /\ UNCHANGED <<lockFile, numprocs, semTaken, machineVars, exiting, crashed, lockLeft, leaked>>
      /\ \/ TmplGoto(c, "ended") /\ UNCHANGED raced
         \/ /\ TmplGoto(c, "system") /\ ~lockFile
            /\ raced' = raced \cup {{c, d} : d \in InWindow}
  BY DEF templateSysInit, LockSeen, countVars
<1>2. /\ at'[c] \in {"ended", "system"} /\ \A d \in Copies \ {c} : at'[d] = at[d]
      /\ at' \in [Copies -> Stages] /\ CopyTypes
  BY <1>1, GotoStage DEF CopiesInv, Stages
<1>3. UNCHANGED <<mstate, stateProc, running, expired>>
  BY <1>1 DEF machineVars
<1>4. CopyTypes'
  BY <1>1, <1>2, <1>3 DEF CopyTypes
<1>5. ~InSystem(c) /\ ~InSystem(c)' /\ ~Catching(c) /\ ~Catching(c)'
  BY <1>1, <1>2 DEF InSystem, Catching
<1>6. \A d \in Copies \ {c} : (Active(d)' <=> Active(d)) /\ (Catching(d)' <=> Catching(d))
  BY <1>2 DEF Active, Catching
<1>7. SystemCountRight'
  BY <1>1, <1>2, <1>4, <1>5, CountKeeps DEF CopyTypes
<1>8. OneActive'
  <2> SUFFICES ASSUME raced' = {}
               PROVE  /\ \A d, e \in Copies : Active(d)' /\ Active(e)' => d = e
                      /\ \A d \in Copies : Catching(d)' => lockFile'
    BY DEF OneActive
  <2>1. raced = {} /\ \A d, e \in Copies : Active(d) /\ Active(e) => d = e
    BY <1>1 DEF CopiesInv, OneActive
  <2>2. \A d \in Copies : Catching(d) => lockFile
    BY <2>1 DEF CopiesInv, OneActive
  <2>3. CASE TmplGoto(c, "ended")
    <3>1. ~Active(c)'
      BY <2>3, GotoStage DEF Active, CopiesInv, Stages
    <3> QED BY <1>1, <1>5, <1>6, <2>1, <2>2, <3>1
  <2>4. CASE ~lockFile /\ raced' = raced \cup {{c, d} : d \in InWindow}
    <3>1. InWindow = {}
      BY <2>4
    <3>2. \A d \in Copies : Active(d) => d \in InWindow \/ Catching(d)
      <4>1. \A d \in Copies : at[d] \in Stages
        BY <1>2 DEF CopyTypes
      <4> QED BY <4>1 DEF Active, InWindow, Catching, Stages
    <3>3. \A d \in Copies : ~Active(d)
      BY <2>2, <2>4, <3>1, <3>2
    <3> QED BY <1>1, <1>5, <1>6, <2>2, <3>3
  <2> QED BY <1>1, <2>3, <2>4
<1>9. StaleLockHasCause'
  <2>1. raced' = {} => raced = {}
    BY <1>1
  <2> QED BY <1>1, <1>5, <1>6, <2>1 DEF CopiesInv, StaleLockHasCause, PastLock
<1>10. MachineFits(c)'
  BY <1>2 DEF MachineFits
<1>11. \A d \in Copies : MachineFits(d)'
  BY <1>2, <1>3, <1>10, OtherCopiesFit DEF OthersStay
<1> QED BY <1>4, <1>7, <1>8, <1>9, <1>11 DEF CopiesInv

\* radSystemInit, and a death in it.
LEMMA SystemKeeps ==
  ASSUME CopiesInv, NEW c \in Copies, SystemInit(c) \/ DiesInSystemInit(c) PROVE CopiesInv'
<1>1. UNCHANGED <<lockFile, mstate, stateProc, running, expired, exiting, raced, lockLeft>>
  BY DEF SystemInit, DiesInSystemInit, fileVars, machineVars, endVars
<1>2. CopyTypes /\ numprocs \in Int /\ leaked \in Nat
  BY DEF CopiesInv, CopyTypes
<1>3. /\ at[c] = "system" /\ semTaken' \in BOOLEAN /\ crashed \subseteq crashed'
      /\ \/ TmplGoto(c, "process") /\ numprocs' = numprocs + 1 /\ leaked' = leaked
         \/ TmplGoto(c, "ended") /\ numprocs' = numprocs + 1 /\ leaked' = leaked + 1
         \/ TmplGoto(c, "ended") /\ numprocs' = numprocs /\ leaked' = leaked
  BY DEF SystemInit, DiesInSystemInit, endVars
<1>4. PICK stage \in {"process", "ended"} : TmplGoto(c, stage) /\ at'[c] = stage
  <2>1. "process" \in Stages /\ "ended" \in Stages
    BY DEF Stages
  <2> QED BY <1>2, <1>3, <2>1, GotoStage
<1>5. stage \in Stages /\ Active(c) /\ ~Catching(c) /\ ~Catching(c)' /\ ~InSystem(c)
  BY <1>3, <1>4 DEF Active, Catching, InSystem, Stages
<1>6. /\ numprocs' \in Int /\ leaked' \in Nat
      /\ numprocs' - leaked' = numprocs - leaked + (IF InSystem(c)' THEN 1 ELSE 0)
                                                 - (IF InSystem(c) THEN 1 ELSE 0)
  <2>1. CASE TmplGoto(c, "process") /\ numprocs' = numprocs + 1 /\ leaked' = leaked
    <3>1. InSystem(c)'
      BY <1>2, <2>1, GotoStage DEF Stages, InSystem
    <3> QED BY <1>2, <1>5, <2>1, <3>1
  <2>2. CASE TmplGoto(c, "ended") /\ \/ numprocs' = numprocs + 1 /\ leaked' = leaked + 1
                                     \/ numprocs' = numprocs /\ leaked' = leaked
    <3>1. ~InSystem(c)'
      BY <1>2, <2>2, GotoStage DEF Stages, InSystem
    <3> QED BY <1>2, <1>5, <2>2, <3>1
  <2> QED BY <1>3, <2>1, <2>2
<1> QED BY <1>1, <1>3, <1>4, <1>5, <1>6, StageKeeps

\* From stage to stage within the radlib system: on, or to the way out.
LEMMA LaterKeeps ==
  ASSUME CopiesInv, NEW c \in Copies,
         \/ ProcessInit(c) \/ CreateLock(c)
         \/ Configure(c) \/ RegisterAndJoin(c) \/ CreateTimers(c)
         \/ CreateMachine(c) /\ TemplateGivesUp(c) /\ UNCHANGED <<mstate, stateProc>>
  PROVE  CopiesInv'
<1>1. UNCHANGED <<countVars, mstate, stateProc, running, expired, exiting, raced, crashed, leaked>>
  BY DEF ProcessInit, CreateLock, Configure, RegisterAndJoin, CreateTimers, CreateMachine,
         machineVars, fileVars, endVars
<1>2. CopyTypes /\ numprocs \in Int /\ leaked \in Nat /\ semTaken \in BOOLEAN
  BY DEF CopiesInv, CopyTypes
<1>3. PICK stage \in {"lock", "config", "stdin", "states", "dummy", "leaving", "leavingTwice"} :
         /\ TmplGoto(c, stage)
         /\ at[c] \in {"process", "lock", "config", "stdin", "states", "timers"}
         /\ stage = "dummy" => at[c] = "timers"
         /\ at[c] \in {"process", "lock"} =>
              /\ stage \in {"lock", "config", "leaving", "leavingTwice"} /\ lockLeft' = lockLeft
              /\ IF stage = "config" THEN lockFile' = TRUE ELSE lockFile' = lockFile
         /\ at[c] \notin {"process", "lock"} =>
              /\ lockFile' = lockFile /\ stage \in {"stdin", "states", "dummy", "leaving"}
              /\ lockLeft' = IF stage = "leaving" THEN lockLeft \cup {c} ELSE lockLeft
  <2>1. CASE ProcessInit(c)
    BY <2>1 DEF ProcessInit, fileVars, endVars
  <2>2. CASE CreateLock(c)
    BY <2>2 DEF CreateLock, endVars
  <2>3. CASE Configure(c)
    BY <2>3 DEF Configure, TemplateGivesUp
  <2>4. CASE RegisterAndJoin(c)
    BY <2>4 DEF RegisterAndJoin, TemplateGivesUp, fileVars
  <2>5. CASE CreateTimers(c)
    BY <2>5 DEF CreateTimers, TemplateGivesUp, fileVars
  <2>6. CASE CreateMachine(c) /\ TemplateGivesUp(c)
    BY <2>6 DEF CreateMachine, TemplateGivesUp, fileVars
  <2> QED BY <2>1, <2>2, <2>3, <2>4, <2>5, <2>6
<1>4. stage \in Stages /\ at'[c] = stage
  BY <1>2, <1>3, GotoStage DEF Stages
<1>5. /\ Active(c) /\ InSystem(c) /\ InSystem(c)'
      /\ Catching(c) <=> at[c] \notin {"process", "lock"}
      /\ Catching(c)' <=> stage \in {"config", "stdin", "states", "dummy"}
  BY <1>3, <1>4 DEF Active, Catching, InSystem
<1>6. /\ numprocs' \in Int /\ leaked' \in Nat /\ semTaken' \in BOOLEAN
      /\ numprocs' - leaked' = numprocs - leaked + (IF InSystem(c)' THEN 1 ELSE 0)
                                                 - (IF InSystem(c) THEN 1 ELSE 0)
  BY <1>1, <1>2, <1>5 DEF countVars
<1>7. /\ crashed \cup lockLeft \subseteq crashed' \cup lockLeft'
      /\ Catching(c) /\ ~Catching(c)' => crashed' \cup lockLeft' # {}
      /\ Catching(c)' => Catching(c) \/ lockFile' = TRUE
      /\ lockFile' = lockFile \/ (lockFile' = TRUE /\ Catching(c)')
  BY <1>1, <1>3, <1>5
<1> QED BY <1>1, <1>3, <1>4, <1>5, <1>6, <1>7, StageKeeps

\* Out of the radlib system, or dead.
LEMMA GoneKeeps ==
  ASSUME CopiesInv, NEW c \in Copies, LeaveSystem(c) \/ DiesInSystemExit(c) \/ Killed(c)
  PROVE  CopiesInv'
<1>1. /\ UNCHANGED <<lockFile, mstate, stateProc, running, expired, exiting, raced, lockLeft>>
      /\ TmplGoto(c, "ended")
  BY DEF LeaveSystem, DiesInSystemExit, Killed, fileVars, machineVars, endVars
<1>2. CopyTypes /\ numprocs \in Int /\ leaked \in Nat /\ semTaken \in BOOLEAN
  BY DEF CopiesInv, CopyTypes
<1>3. \/ /\ at[c] \in {"leaving", "leavingTwice"} /\ numprocs' = numprocs - 1 /\ leaked' = leaked
         /\ crashed \subseteq crashed' /\ semTaken' \in BOOLEAN
      \/ /\ numprocs' = numprocs /\ leaked' = leaked + (IF InSystem(c) THEN 1 ELSE 0)
         /\ crashed' = crashed \cup {c} /\ semTaken' = semTaken
  <2>1. CASE LeaveSystem(c)
    BY <1>2, <2>1 DEF LeaveSystem, Leaving, endVars
  <2>2. CASE DiesInSystemExit(c)
    BY <2>2 DEF DiesInSystemExit, Leaving
  <2>3. CASE Killed(c)
    BY <2>3 DEF Killed, countVars
  <2> QED BY <2>1, <2>2, <2>3
<1>4. "ended" \in Stages /\ at'[c] = "ended"
  BY <1>1, <1>2, GotoStage DEF Stages
<1>5. /\ ~Active(c)' /\ ~InSystem(c)' /\ ~Catching(c)'
      /\ at[c] \in {"leaving", "leavingTwice"} => InSystem(c) /\ ~Catching(c)
  BY <1>4 DEF Active, Catching, InSystem
<1>6. /\ numprocs' \in Int /\ leaked' \in Nat /\ semTaken' \in BOOLEAN
      /\ numprocs' - leaked' = numprocs - leaked + (IF InSystem(c)' THEN 1 ELSE 0)
                                                 - (IF InSystem(c) THEN 1 ELSE 0)
  BY <1>2, <1>3, <1>5
<1>7. /\ crashed \cup lockLeft \subseteq crashed' \cup lockLeft'
      /\ Catching(c) => crashed' \cup lockLeft' # {}
  BY <1>1, <1>3, <1>5
<1> QED BY <1>1, <1>4, <1>5, <1>6, <1>7, StageKeeps

\* The machine gets its handlers.
LEMMA MachineKeeps ==
  ASSUME CopiesInv, NEW c \in Copies, CreateMachine(c) PROVE CopiesInv'
<1>1. CASE TemplateGivesUp(c) /\ UNCHANGED <<mstate, stateProc>>
  BY <1>1, LaterKeeps
<1>2. CASE /\ TmplGoto(c, "timers")
           /\ stateProc' = [stateProc EXCEPT ![c] = [s \in States |-> s]]
           /\ mstate' = [mstate EXCEPT ![c] = "IDLE"]
           /\ UNCHANGED lockLeft
  <2>1. UNCHANGED <<lockFile, numprocs, semTaken, running, expired, exiting, raced, crashed,
                    lockLeft, leaked>>
    BY <1>2 DEF CreateMachine, fileVars, countVars
  <2>2. at[c] = "states" /\ CopyTypes
    BY DEF CreateMachine, CopiesInv
  <2>3. /\ at'[c] = "timers" /\ \A d \in Copies \ {c} : at'[d] = at[d]
        /\ at' \in [Copies -> Stages]
    BY <1>2, <2>2, GotoStage DEF Stages
  <2>4. [s \in States |-> s] \in [States -> States \cup {Stub}] /\ "IDLE" \in States
    BY DEF States
  <2>5. /\ mstate' \in [Copies -> States] /\ mstate'[c] = "IDLE"
        /\ stateProc' \in [Copies -> [States -> States \cup {Stub}]]
        /\ stateProc'[c] = [s \in States |-> s]
        /\ \A d \in Copies \ {c} : mstate'[d] = mstate[d] /\ stateProc'[d] = stateProc[d]
    <3>1. mstate \in [Copies -> States] /\ stateProc \in [Copies -> [States -> States \cup {Stub}]]
      BY <2>2 DEF CopyTypes
    <3> HIDE DEF CopiesInv
    <3> QED BY <1>2, <2>4, <3>1
  <2>6. CopyTypes'
    BY <2>1, <2>2, <2>3, <2>5 DEF CopyTypes
  <2>7. Active(c) /\ Catching(c) /\ Catching(c)' /\ InSystem(c) /\ InSystem(c)'
    BY <2>2, <2>3 DEF Active, Catching, InSystem
  <2>8. OneActive' /\ StaleLockHasCause'
    BY <2>1, <2>3, <2>7, LockKeeps
  <2>9. SystemCountRight'
    <3>1. numprocs \in Int /\ leaked \in Nat
      BY <2>2 DEF CopyTypes
    <3> QED BY <2>1, <2>3, <2>7, <3>1, CountKeeps
  <2>10. MachineFits(c)'
    BY <2>3, <2>5 DEF MachineFits
  <2>11. \A d \in Copies : MachineFits(d)'
    BY <2>1, <2>3, <2>5, <2>10, OtherCopiesFit DEF OthersStay
  <2> QED BY <2>6, <2>8, <2>9, <2>11 DEF CopiesInv
<1> QED BY <1>1, <1>2 DEF CreateMachine

-----------------------------------------------------------------------------
(* The program: the steps of the state machine *)

\* What a handler returns: a state, and timers to start; RUN is entered with all
\* of them, and left only by an error.
LEMMA ProcessedIs ==
  ASSUME CopyTypes, NEW c \in Copies, NEW stim, stateProc[c] = [s \in States |-> s]
  PROVE  /\ Processed(c, stim).state \in States /\ Processed(c, stim).start \in SUBSET Timers
         /\ mstate[c] = "IDLE" =>
              Processed(c, stim) = IF stim = "dummy" THEN Result("RUN", Timers)
                                                     ELSE Result("IDLE", {})
         /\ mstate[c] = "RUN" /\ stim \in Timers => stim \in Processed(c, stim).start
         /\ mstate[c] = "ERROR" => Processed(c, stim).state = "ERROR"
<1>1. mstate[c] \in States /\ stateProc[c][mstate[c]] = mstate[c]
  BY DEF CopyTypes
<1>2. CASE mstate[c] = "IDLE"
  <2>1. Processed(c, stim) = templateIdleState(stim)
    BY <1>1, <1>2 DEF Processed
  <2> QED BY <1>2, <2>1 DEF templateIdleState, Result, States
<1>3. CASE mstate[c] = "RUN"
  <2>1. Processed(c, stim) = templateRunState(stim)
    BY <1>1, <1>3 DEF Processed
  <2> QED BY <1>3, <2>1 DEF templateRunState, Result, States
<1>4. CASE mstate[c] = "ERROR"
  <2>1. Processed(c, stim) = templateErrorState(stim)
    BY <1>1, <1>4 DEF Processed
  <2> QED BY <1>4, <2>1 DEF templateErrorState, Result, States
<1> QED BY <1>1, <1>2, <1>3, <1>4 DEF States

\* radStatesProcess on one copy, its timers in hand or not.
LEMMA ProcessMoves ==
  ASSUME CopyTypes, NEW c \in Copies, NEW stim, radStatesProcess(c, stim),
         stateProc[c] = [s \in States |-> s]
  PROVE  /\ stateProc' = stateProc
         /\ mstate' \in [Copies -> States] /\ running' \in [Copies -> SUBSET Timers]
         /\ mstate'[c] = Processed(c, stim).state
         /\ running'[c] = running[c] \cup Processed(c, stim).start
         /\ \A d \in Copies \ {c} : mstate'[d] = mstate[d] /\ running'[d] = running[d]
<1> DEFINE state == Processed(c, stim).state
           start == Processed(c, stim).start
<1>1. state \in States /\ start \in SUBSET Timers
  BY ProcessedIs
<1>2. /\ mstate' = [mstate EXCEPT ![c] = state]
      /\ running' = [running EXCEPT ![c] = @ \cup start] /\ stateProc' = stateProc
  BY DEF radStatesProcess
<1>3. mstate \in [Copies -> States] /\ running \in [Copies -> SUBSET Timers]
  BY DEF CopyTypes
<1> HIDE DEF state, start
<1>4. /\ mstate' \in [Copies -> States] /\ running' \in [Copies -> SUBSET Timers]
      /\ mstate'[c] = state /\ running'[c] = running[c] \cup start
      /\ \A d \in Copies \ {c} : mstate'[d] = mstate[d] /\ running'[d] = running[d]
  BY <1>1, <1>2, <1>3
<1> QED BY <1>2, <1>4 DEF state, start

LEMMA KickoffKeeps ==
  ASSUME CopiesInv, NEW c \in Copies, Kickoff(c) PROVE CopiesInv'
<1>1. /\ at[c] = "dummy" /\ TmplGoto(c, "loop") /\ radStatesProcess(c, "dummy")
      /\ UNCHANGED <<lockFile, numprocs, semTaken, expired, exiting, raced, crashed, lockLeft, leaked>>
  BY DEF Kickoff, fileVars, countVars, endVars
<1>2. CopyTypes /\ stateProc[c] = [s \in States |-> s] /\ mstate[c] = "IDLE"
  BY <1>1 DEF CopiesInv, MachineFits
<1>3. /\ at'[c] = "loop" /\ \A d \in Copies \ {c} : at'[d] = at[d]
      /\ at' \in [Copies -> Stages]
  BY <1>1, <1>2, GotoStage DEF Stages
<1>4. /\ stateProc' = stateProc
      /\ mstate' \in [Copies -> States] /\ running' \in [Copies -> SUBSET Timers]
      /\ mstate'[c] = Processed(c, "dummy").state
      /\ running'[c] = running[c] \cup Processed(c, "dummy").start
      /\ \A d \in Copies \ {c} : mstate'[d] = mstate[d] /\ running'[d] = running[d]
  BY <1>1, <1>2, ProcessMoves
<1>5. Processed(c, "dummy").state = "RUN" /\ Processed(c, "dummy").start = Timers
  BY <1>2, ProcessedIs DEF Result
<1>6. CopyTypes'
  BY <1>1, <1>2, <1>3, <1>4 DEF CopyTypes
<1>7. Active(c) /\ Catching(c) /\ Catching(c)' /\ InSystem(c) /\ InSystem(c)'
  BY <1>1, <1>3 DEF Active, Catching, InSystem
<1>8. OneActive' /\ StaleLockHasCause'
  BY <1>1, <1>3, <1>7, LockKeeps
<1>9. SystemCountRight'
  <2>1. numprocs \in Int /\ leaked \in Nat
    BY <1>2 DEF CopyTypes
  <2> QED BY <1>1, <1>3, <1>7, <2>1, CountKeeps
<1>10. MachineFits(c)'
  <2>1. running'[c] \cup expired'[c] = Timers
    <3>1. running[c] \subseteq Timers /\ expired'[c] \subseteq Timers
      BY <1>1, <1>2 DEF CopyTypes
    <3> QED BY <1>4, <1>5, <3>1
  <2> QED BY <1>2, <1>3, <1>4, <2>1 DEF MachineFits
<1>11. \A d \in Copies : MachineFits(d)'
  BY <1>1, <1>3, <1>4, <1>10, OtherCopiesFit DEF OthersStay
<1> QED BY <1>6, <1>8, <1>9, <1>11 DEF CopiesInv

\* A step of the loop that leaves the copy where it is.
LEMMA LoopKeeps ==
  ASSUME CopiesInv, NEW c \in Copies, at[c] = "loop",
         UNCHANGED <<lockFile, numprocs, semTaken, at, exiting, raced, crashed, lockLeft, leaked,
                     stateProc>>,
         mstate' \in [Copies -> States], running' \in [Copies -> SUBSET Timers],
         expired' \in [Copies -> SUBSET Timers],
         \A d \in Copies \ {c} : /\ mstate'[d] = mstate[d]
                                 /\ running'[d] = running[d] /\ expired'[d] = expired[d],
         mstate'[c] = "RUN" =>
            mstate[c] = "RUN" /\ running[c] \cup expired[c] \subseteq running'[c] \cup expired'[c]
  PROVE  CopiesInv'
<1>1. CopyTypes'
  BY DEF CopiesInv, CopyTypes
<1>2. OneActive' /\ StaleLockHasCause' /\ SystemCountRight'
  BY LockStays
<1>3. MachineFits(c)'
  <2>1. running'[c] \subseteq Timers /\ expired'[c] \subseteq Timers
    OBVIOUS
  <2>2. MachineFits(c)
    BY DEF CopiesInv
  <2> QED BY <2>1, <2>2 DEF MachineFits
<1>4. \A d \in Copies : MachineFits(d)'
  BY <1>3, OtherCopiesFit DEF OthersStay
<1> QED BY <1>1, <1>2, <1>4 DEF CopiesInv

LEMMA ExpiryKeeps ==
  ASSUME CopiesInv, NEW c \in Copies, NEW t \in Timers, TimerExpiry(c, t) PROVE CopiesInv'
<1>1. /\ at[c] = "loop" /\ t \in running[c]
      /\ running' = [running EXCEPT ![c] = @ \ {t}] /\ expired' = [expired EXCEPT ![c] = @ \cup {t}]
      /\ UNCHANGED <<lockFile, numprocs, semTaken, at, mstate, stateProc, exiting, raced, crashed,
                     lockLeft, leaked>>
  BY DEF TimerExpiry, fileVars, countVars, endVars
<1>2. /\ mstate \in [Copies -> States]
      /\ running \in [Copies -> SUBSET Timers] /\ expired \in [Copies -> SUBSET Timers]
  BY DEF CopiesInv, CopyTypes
<1>3. /\ running' \in [Copies -> SUBSET Timers] /\ expired' \in [Copies -> SUBSET Timers]
      /\ running'[c] = running[c] \ {t} /\ expired'[c] = expired[c] \cup {t}
      /\ \A d \in Copies \ {c} : running'[d] = running[d] /\ expired'[d] = expired[d]
  BY <1>1, <1>2
<1>4. running[c] \cup expired[c] \subseteq running'[c] \cup expired'[c]
  BY <1>3
<1> QED BY <1>1, <1>2, <1>3, <1>4, LoopKeeps

LEMMA StimulusKeeps ==
  ASSUME CopiesInv, NEW c \in Copies, NEW stim, stim # "dummy",
         \/ stim \in Timers /\ TimerHandler(c, stim)
         \/ OtherStimulus(c, stim)
  PROVE  CopiesInv'
<1>1. /\ at[c] = "loop" /\ radStatesProcess(c, stim)
      /\ UNCHANGED <<lockFile, numprocs, semTaken, at, exiting, raced, crashed, lockLeft, leaked>>
      /\ \/ stim \in Timers /\ expired' = [expired EXCEPT ![c] = @ \ {stim}]
         \/ expired' = expired
  BY DEF TimerHandler, OtherStimulus, fileVars, countVars, endVars
<1>2. CopyTypes /\ stateProc[c] = [s \in States |-> s]
  BY <1>1 DEF CopiesInv, MachineFits
<1>3. /\ mstate[c] \in States /\ expired \in [Copies -> SUBSET Timers]
  BY <1>2 DEF CopyTypes
<1>4. /\ expired' \in [Copies -> SUBSET Timers]
      /\ \A d \in Copies \ {c} : expired'[d] = expired[d]
      /\ \A t \in expired[c] : t \in Timers /\ (t \in expired'[c] \/ t = stim)
  <2>1. CASE expired' = expired
    BY <1>3, <2>1
  <2>2. CASE expired' = [expired EXCEPT ![c] = @ \ {stim}]
    <3>1. expired' \in [Copies -> SUBSET Timers] /\ expired'[c] = expired[c] \ {stim}
      BY <1>3, <2>2
    <3>2. \A d \in Copies \ {c} : expired'[d] = expired[d]
      BY <1>3, <2>2
    <3> QED BY <1>3, <3>1, <3>2
  <2> QED BY <1>1, <2>1, <2>2
<1>5. /\ stateProc' = stateProc
      /\ mstate' \in [Copies -> States] /\ running' \in [Copies -> SUBSET Timers]
      /\ mstate'[c] = Processed(c, stim).state
      /\ running'[c] = running[c] \cup Processed(c, stim).start
      /\ \A d \in Copies \ {c} : mstate'[d] = mstate[d] /\ running'[d] = running[d]
  BY <1>1, <1>2, ProcessMoves
<1>6. ASSUME mstate'[c] = "RUN"
      PROVE  mstate[c] = "RUN" /\ running[c] \cup expired[c] \subseteq running'[c] \cup expired'[c]
  <2>1. mstate[c] = "RUN"
    <3>1. mstate[c] = "IDLE" => Processed(c, stim).state = "IDLE"
      BY <1>2, ProcessedIs DEF Result
    <3>2. mstate[c] = "ERROR" => Processed(c, stim).state = "ERROR"
      BY <1>2, ProcessedIs
    <3> QED BY <1>3, <1>5, <1>6, <3>1, <3>2 DEF States
  <2>2. stim \in Timers => stim \in running'[c]
    BY <1>2, <1>5, <2>1, ProcessedIs
  <2> QED BY <1>4, <1>5, <2>1, <2>2
<1> QED BY <1>1, <1>4, <1>5, <1>6, LoopKeeps

-----------------------------------------------------------------------------
(* The program: the way out *)

LEMMA KillSignalKeeps ==
  ASSUME CopiesInv, NEW c \in Copies, defaultSigHandler(c) PROVE CopiesInv'
<1>1. /\ exiting' = [exiting EXCEPT ![c] = TRUE]
      /\ UNCHANGED <<lockFile, numprocs, semTaken, at, mstate, stateProc, running, expired,
                     raced, crashed, lockLeft, leaked>>
  BY DEF defaultSigHandler, fileVars, countVars, machineVars, endVars
<1>2. CopyTypes'
  <2>1. exiting' \in [Copies -> BOOLEAN]
    BY <1>1 DEF CopiesInv, CopyTypes
  <2> QED BY <1>1, <2>1 DEF CopiesInv, CopyTypes
<1>3. OneActive' /\ StaleLockHasCause' /\ SystemCountRight'
  BY <1>1, LockStays
<1>4. \A d \in Copies : MachineFits(d)'
  BY <1>1 DEF CopiesInv, MachineFits
<1> QED BY <1>2, <1>3, <1>4 DEF CopiesInv

LEMMA ExitKeeps ==
  ASSUME CopiesInv, NEW c \in Copies, templateSysExit(c) PROVE CopiesInv'
<1>1. /\ at[c] = "loop" /\ TmplGoto(c, "leaving")
      /\ \/ lockFile' = FALSE /\ lockLeft' = lockLeft
         \/ lockFile' = lockFile /\ lockLeft' = lockLeft \cup {c}
      /\ running' = [running EXCEPT ![c] = {}] /\ expired' = [expired EXCEPT ![c] = {}]
      /\ stateProc' = [stateProc EXCEPT ![c] = [s \in States |-> Stub]]
      /\ UNCHANGED <<numprocs, semTaken, mstate, exiting, raced, crashed, leaked>>
  BY DEF templateSysExit, LockRemoved, countVars
<1>2. CopyTypes /\ numprocs \in Int /\ leaked \in Nat
  BY DEF CopiesInv, CopyTypes
<1>3. /\ at'[c] = "leaving" /\ \A d \in Copies \ {c} : at'[d] = at[d]
      /\ at' \in [Copies -> Stages]
  BY <1>1, <1>2, GotoStage DEF Stages
<1>4. /\ running' \in [Copies -> SUBSET Timers] /\ expired' \in [Copies -> SUBSET Timers]
      /\ \A d \in Copies \ {c} : running'[d] = running[d] /\ expired'[d] = expired[d]
  BY <1>1, <1>2 DEF CopyTypes
<1>5. /\ stateProc' \in [Copies -> [States -> States \cup {Stub}]]
      /\ \A d \in Copies \ {c} : stateProc'[d] = stateProc[d]
  <2>1. [s \in States |-> Stub] \in [States -> States \cup {Stub}]
    OBVIOUS
  <2>2. stateProc \in [Copies -> [States -> States \cup {Stub}]]
    BY <1>2 DEF CopyTypes
  <2> QED BY <1>1, <2>1, <2>2
<1>6. CopyTypes'
  <2>1. lockFile' \in BOOLEAN
    BY <1>1, <1>2 DEF CopyTypes
  <2> QED BY <1>1, <1>2, <1>3, <1>4, <1>5, <2>1 DEF CopyTypes
<1>7. Active(c) /\ ~Active(c)' /\ ~Catching(c)' /\ InSystem(c) /\ InSystem(c)'
  BY <1>1, <1>3 DEF Active, Catching, InSystem
<1>8. OneActive' /\ StaleLockHasCause'
  BY <1>1, <1>3, <1>7, LockKeeps
<1>9. SystemCountRight'
  BY <1>1, <1>2, <1>3, <1>7, CountKeeps
<1>10. MachineFits(c)'
  BY <1>3 DEF MachineFits
<1>11. \A d \in Copies : MachineFits(d)'
  BY <1>1, <1>3, <1>4, <1>5, <1>10, OtherCopiesFit DEF OthersStay
<1> QED BY <1>6, <1>8, <1>9, <1>11 DEF CopiesInv

-----------------------------------------------------------------------------
(* The program: the theorem *)

LEMMA CopiesInit == TemplateInit => CopiesInv
<1> SUFFICES ASSUME TemplateInit PROVE CopiesInv
  OBVIOUS
<1>1. /\ \A c \in Copies : at[c] = "sysInit" /\ mstate[c] = "IDLE"
      /\ lockFile = FALSE /\ numprocs = 0 /\ leaked = 0 /\ raced = {}
  BY DEF TemplateInit
<1>2. CopyTypes
  <2>1. at \in [Copies -> Stages] /\ mstate \in [Copies -> States]
    BY DEF TemplateInit, Stages, States
  <2>2. stateProc \in [Copies -> [States -> States \cup {Stub}]]
    BY DEF TemplateInit
  <2>3. running \in [Copies -> SUBSET Timers] /\ expired \in [Copies -> SUBSET Timers]
    BY DEF TemplateInit
  <2>4. exiting \in [Copies -> BOOLEAN] /\ lockFile \in BOOLEAN /\ semTaken \in BOOLEAN
    BY DEF TemplateInit
  <2>5. numprocs \in Int /\ leaked \in Nat
    BY <1>1
  <2> QED BY <2>1, <2>2, <2>3, <2>4, <2>5 DEF CopyTypes
<1>3. OneActive /\ StaleLockHasCause
  BY <1>1 DEF OneActive, StaleLockHasCause, Active, Catching
<1>4. SystemCountRight
  <2>1. Users = {}
    BY <1>1 DEF Users, InSystem
  <2>2. Cardinality(Users) = 0
    BY <2>1, FS_EmptySet
  <2> QED BY <1>1, <2>2, CountIs
<1>5. \A c \in Copies : MachineFits(c)
  BY <1>1 DEF MachineFits
<1> QED BY <1>2, <1>3, <1>4, <1>5 DEF CopiesInv

LEMMA CopiesStutter == ASSUME CopiesInv, UNCHANGED templateVars PROVE CopiesInv'
<1>1. UNCHANGED <<lockFile, numprocs, semTaken, at, mstate, stateProc, running, expired, exiting,
                  raced, crashed, lockLeft, leaked>>
  BY DEF templateVars
<1>2. CopyTypes'
  BY <1>1 DEF CopiesInv, CopyTypes
<1>3. OneActive' /\ StaleLockHasCause' /\ SystemCountRight'
  BY <1>1, LockStays
<1>4. \A d \in Copies : MachineFits(d)'
  BY <1>1 DEF CopiesInv, MachineFits
<1> QED BY <1>2, <1>3, <1>4 DEF CopiesInv

LEMMA CopiesStep == CopiesInv /\ [TemplateNext]_templateVars => CopiesInv'
<1> SUFFICES ASSUME CopiesInv, [TemplateNext]_templateVars PROVE CopiesInv'
  OBVIOUS
<1>1. CASE TemplateNext
  <2> PICK c \in Copies :
        \/ templateSysInit(c) \/ SystemInit(c) \/ ProcessInit(c) \/ CreateLock(c) \/ Configure(c)
        \/ RegisterAndJoin(c) \/ CreateMachine(c) \/ CreateTimers(c) \/ Kickoff(c)
        \/ defaultSigHandler(c) \/ templateSysExit(c) \/ LeaveSystem(c)
        \/ DiesInSystemExit(c) \/ DiesInSystemInit(c) \/ Killed(c)
        \/ \E t \in Timers : TimerExpiry(c, t) \/ TimerHandler(c, t)
        \/ \E stim \in {"message", "readError"} : OtherStimulus(c, stim)
    BY <1>1 DEF TemplateNext
  <2>1. CASE templateSysInit(c)
    BY <2>1, BeginKeeps
  <2>2. CASE SystemInit(c) \/ DiesInSystemInit(c)
    BY <2>2, SystemKeeps
  <2>3. CASE ProcessInit(c) \/ CreateLock(c) \/ Configure(c) \/ RegisterAndJoin(c) \/ CreateTimers(c)
    BY <2>3, LaterKeeps
  <2>4. CASE CreateMachine(c)
    BY <2>4, MachineKeeps
  <2>5. CASE Kickoff(c)
    BY <2>5, KickoffKeeps
  <2>6. CASE defaultSigHandler(c)
    BY <2>6, KillSignalKeeps
  <2>7. CASE templateSysExit(c)
    BY <2>7, ExitKeeps
  <2>8. CASE LeaveSystem(c) \/ DiesInSystemExit(c) \/ Killed(c)
    BY <2>8, GoneKeeps
  <2>9. CASE \E t \in Timers : TimerExpiry(c, t)
    BY <2>9, ExpiryKeeps
  <2>10. CASE \E t \in Timers : TimerHandler(c, t)
    <3>1. "dummy" \notin Timers
      BY DEF Timers
    <3> QED BY <2>10, <3>1, StimulusKeeps
  <2>11. CASE \E stim \in {"message", "readError"} : OtherStimulus(c, stim)
    BY <2>11, StimulusKeeps
  <2> QED BY <2>1, <2>2, <2>3, <2>4, <2>5, <2>6, <2>7, <2>8, <2>9, <2>10, <2>11
<1>2. CASE UNCHANGED templateVars
  BY <1>2, CopiesStutter
<1> QED BY <1>1, <1>2

\* template.c, for any number of copies, failures and kills: without a race at
\* the lock file one copy at most is past it, the file outlives a copy only when
\* that died, gave up or could not remove it, the count of the radlib system is the
\* processes in it and those that died in it, and a running copy's timers all run
\* or wait.
THEOREM ProgramsComeAndGo == TemplateSpec => []ProgramComesAndGoes
<1>1. CopiesInv => ProgramComesAndGoes
  <2> SUFFICES ASSUME CopiesInv PROVE ProgramComesAndGoes
    OBVIOUS
  <2>1. OneCopyUnlessRaced
    BY DEF CopiesInv, OneActive, OneCopyUnlessRaced, PastLock, Catching, Active
  <2>2. RunKeepsTimers
    BY DEF CopiesInv, MachineFits, RunKeepsTimers
  <2> QED BY <2>1, <2>2 DEF CopiesInv, ProgramComesAndGoes
<1> QED BY <1>1, CopiesInit, CopiesStep, PTL DEF TemplateSpec

-----------------------------------------------------------------------------
(* The sockets: the inductive invariant *)

\* The units behind the first a, up to the b-th.
Units(a, b) == [k \in 1..(b - a) |-> a + k]

SockTypes ==
    /\ sockFd \in SUBSET SockIds /\ sockHeld \in SUBSET SockIds
    /\ sockConn \in [SockIds -> SockIds \cup {NoSock}]
    /\ connecting \in SUBSET SockIds /\ pending \in SUBSET SockIds
    /\ answer \in [SockIds -> {"none", "awaited", "connected", "refused", "given up"}]
    /\ nonBlock \in SUBSET SockIds /\ askedNonBlock \in SUBSET SockIds
    /\ wouldBlock \in SUBSET SockIds /\ sockIo = [j \in SockIds |-> sockIo[j]]
    /\ stream \in [Directions -> Seq(Nat)] /\ got \in [Directions -> Seq(Nat)]
    /\ noWrites \in [SockIds -> Nat] /\ ioFailed \in SUBSET Directions

\* An id is a client that connects or an object that a caller has, and it is
\* non-blocking while it connects or because its caller asked for it.
ModesFit ==
    /\ NoDescriptorLost /\ sockHeld \cap connecting = {}
    /\ nonBlock \subseteq askedNonBlock \cup connecting
    /\ ShortReadHasCause

\* radSocketServerAcceptConnection made this socket.
Accepter(i) == sockConn[i] \notin {i, NoSock}

\* A connection has its client and one accepted socket at most, none while it waits
\* to be accepted.
EndsFit ==
    /\ \A i \in SockIds : answer[i] \in {"none", "awaited"} => sockConn[i] # i
    /\ \A i \in connecting : sockConn[i] \in {i, NoSock}
    /\ \A i \in SockIds : answer[i] = "awaited" => i \in connecting
    /\ \A i \in SockIds : sockConn[i] # NoSock => sockConn[sockConn[i]] = sockConn[i]
    /\ \A i, j \in SockIds : Accepter(i) /\ Accepter(j) /\ sockConn[i] = sockConn[j] => i = j
    /\ \A c \in pending : sockConn[c] = c /\ \A i \in SockIds : sockConn[i] = c => i = c

\* A call under way is one of an object that its caller has, with a connection.
IoFits(i) ==
    /\ \/ sockIo[i] = NoIo
       \/ /\ noWrites[i] > 0
          /\ \E n \in 0..(IoLen - 1) : sockIo[i] = [op |-> "write", done |-> n]
       \/ \E b \in Seq(Nat) : sockIo[i] = [op |-> "read", buf |-> b]
    /\ sockIo[i] # NoIo => i \in sockHeld /\ sockConn[i] # NoSock
    /\ sockConn[i] = NoSock => noWrites[i] = 0

Writer(i, d) == sockConn[i] # NoSock /\ OutOf(i) = d
Reading(j, d) == sockConn[j] # NoSock /\ Into(j) = d /\ sockIo[j].op = "read"

\* The units of a direction: the first g were handed out, those up to b are in the
\* buffer of the read under way, those up to w in the stream; w are written.
UnitsFit(d, g, b, w) ==
    /\ g <= b /\ b <= w
    /\ got[d] = Units(0, g) /\ stream[d] = Units(b, w)
    /\ \A i \in SockIds : Writer(i, d) => w = Accepted(i)
    /\ (\A i \in SockIds : ~Writer(i, d)) => w = 0
    /\ \A j \in SockIds : Reading(j, d) => sockIo[j].buf = Units(g, b)
    /\ (\A j \in SockIds : ~Reading(j, d)) => g = b

DirectionFits(d) == d \notin ioFailed => \E g, b, w \in Nat : UnitsFit(d, g, b, w)

SockInv ==
    /\ SockTypes /\ ModesFit /\ EndsFit
    /\ \A i \in SockIds : IoFits(i)
    /\ \A d \in Directions : DirectionFits(d)

-----------------------------------------------------------------------------
(* The sockets: units and calls *)

LEMMA UnitsAre ==
  ASSUME NEW a \in Nat, NEW b \in Nat, a <= b
  PROVE  /\ Units(a, b) \in Seq(Nat) /\ Len(Units(a, b)) = b - a
         /\ \A k \in 1..(b - a) : Units(a, b)[k] = a + k
         /\ a = b <=> Units(a, b) = << >>
<1>1. b - a \in Nat /\ \A k \in 1..(b - a) : a + k \in Nat
  OBVIOUS
<1>2. Units(a, b) \in Seq(Nat) /\ Len(Units(a, b)) = b - a
  BY <1>1, IsASeq DEF Units
<1>3. \A k \in 1..(b - a) : Units(a, b)[k] = a + k
  BY DEF Units
<1>4. a = b <=> Units(a, b) = << >>
  <2>1. Units(a, b) = << >> <=> Len(Units(a, b)) = 0
    BY <1>2, EmptySeq
  <2> QED BY <1>2, <2>1
<1> QED BY <1>2, <1>3, <1>4

LEMMA UnitsJoin ==
  ASSUME NEW a \in Nat, NEW b \in Nat, NEW c \in Nat, a <= b, b <= c
  PROVE  Units(a, b) \o Units(b, c) = Units(a, c)
<1> DEFINE s == Units(a, b)
           t == Units(b, c)
           u == Units(a, c)
<1>1. /\ s \in Seq(Nat) /\ t \in Seq(Nat) /\ u \in Seq(Nat)
      /\ Len(s) = b - a /\ Len(t) = c - b /\ Len(u) = c - a
      /\ \A k \in 1..(b - a) : s[k] = a + k
      /\ \A k \in 1..(c - b) : t[k] = b + k
      /\ \A k \in 1..(c - a) : u[k] = a + k
  <2>1. s \in Seq(Nat) /\ Len(s) = b - a /\ \A k \in 1..(b - a) : s[k] = a + k
    BY UnitsAre
  <2>2. t \in Seq(Nat) /\ Len(t) = c - b /\ \A k \in 1..(c - b) : t[k] = b + k
    BY UnitsAre
  <2>3. a <= c
    OBVIOUS
  <2>4. u \in Seq(Nat) /\ Len(u) = c - a /\ \A k \in 1..(c - a) : u[k] = a + k
    BY <2>3, UnitsAre
  <2> QED BY <2>1, <2>2, <2>4
<1> HIDE DEF s, t, u
<1>2. s \o t \in Seq(Nat) /\ Len(s \o t) = c - a
  <2>1. s \o t \in Seq(Nat) /\ Len(s \o t) = Len(s) + Len(t)
    <3>1. s \in Seq(Nat) /\ t \in Seq(Nat)
      BY <1>1
    <3> QED BY <3>1, ConcatProperties
  <2> QED BY <1>1, <2>1
<1>3. ASSUME NEW k \in 1..(c - a) PROVE (s \o t)[k] = u[k]
  <2>1. (s \o t)[k] = IF k <= Len(s) THEN s[k] ELSE t[k - Len(s)]
    <3>1. /\ s \in Seq(Nat) /\ t \in Seq(Nat) /\ Len(s) + Len(t) = c - a
      BY <1>1
    <3> QED BY <3>1, ConcatProperties
  <2> QED BY <1>1, <2>1
<1>4. s \o t = u
  BY <1>1, <1>2, <1>3, SeqEqual
<1> QED BY <1>4 DEF s, t, u

LEMMA UnitsCut ==
  ASSUME NEW a \in Nat, NEW b \in Nat, a <= b, NEW n \in 0..(b - a)
  PROVE  /\ SubSeq(Units(a, b), 1, n) = Units(a, a + n)
         /\ SubSeq(Units(a, b), n + 1, Len(Units(a, b))) = Units(a + n, b)
<1> DEFINE s == Units(a, b)
           t == Units(a, a + n)
           u == Units(a + n, b)
<1>1. /\ s \in Seq(Nat) /\ Len(s) = b - a /\ \A k \in 1..(b - a) : s[k] = a + k
      /\ t \in Seq(Nat) /\ Len(t) = n /\ \A k \in 1..n : t[k] = a + k
      /\ u \in Seq(Nat) /\ Len(u) = b - a - n /\ \A k \in 1..(b - a - n) : u[k] = a + n + k
  <2>1. a + n \in Nat /\ a <= a + n /\ a + n <= b /\ (a + n) - a = n /\ b - (a + n) = b - a - n
    OBVIOUS
  <2>2. s \in Seq(Nat) /\ Len(s) = b - a /\ \A k \in 1..(b - a) : s[k] = a + k
    BY UnitsAre
  <2>3. t \in Seq(Nat) /\ Len(t) = n /\ \A k \in 1..n : t[k] = a + k
    BY <2>1, UnitsAre
  <2>4. u \in Seq(Nat) /\ Len(u) = b - (a + n) /\ \A k \in 1..(b - (a + n)) : u[k] = (a + n) + k
    BY <2>1, UnitsAre
  <2> QED BY <2>1, <2>2, <2>3, <2>4
<1> HIDE DEF s, t, u
<1>2. SubSeq(s, 1, n) = t
  <2>1. /\ SubSeq(s, 1, n) \in Seq(Nat) /\ Len(SubSeq(s, 1, n)) = n
        /\ \A k \in 1..n : SubSeq(s, 1, n)[k] = s[1 + k - 1]
    BY SMTT(60), <1>1, SubSeqProperties
  <2>2. \A k \in 1..n : SubSeq(s, 1, n)[k] = t[k]
    BY SMTT(60), <1>1, <2>1
  <2> QED BY <1>1, <2>1, <2>2, SeqEqual
<1>3. SubSeq(s, n + 1, Len(s)) = u
  <2>1. /\ SubSeq(s, n + 1, b - a) \in Seq(Nat)
        /\ Len(SubSeq(s, n + 1, b - a)) = b - a - n
        /\ \A k \in 1..(b - a - n) : SubSeq(s, n + 1, b - a)[k] = s[n + 1 + k - 1]
    BY SMTT(60), <1>1, SubSeqProperties
  <2>2. \A k \in 1..(b - a - n) : SubSeq(s, n + 1, b - a)[k] = u[k]
    BY <1>1, <2>1
  <2> QED BY ZenonT(30), <1>1, <2>1, <2>2, SeqEqual
<1> QED BY <1>2, <1>3 DEF s, t, u

LEMMA CallsTimes ==
  ASSUME NEW n \in Nat
  PROVE  n * IoLen \in Nat /\ (n + 1) * IoLen = n * IoLen + IoLen
         /\ (n > 0 => (n - 1) * IoLen = n * IoLen - IoLen /\ n * IoLen >= IoLen)
<1>1. IoLen \in Nat /\ IoLen > 0
  BY SockAssumption
<1>2. n * IoLen \in Nat /\ (n + 1) * IoLen = n * IoLen + IoLen
  BY <1>1
<1>3. n > 0 => (n - 1) * IoLen \in Nat /\ (n - 1) * IoLen = n * IoLen - IoLen
  BY <1>1
<1>4. n > 0 => n * IoLen >= IoLen
  BY <1>1, <1>2, <1>3
<1> QED BY <1>2, <1>3, <1>4

LEMMA AcceptedIs ==
  ASSUME SockTypes, NEW i \in SockIds, IoFits(i)
  PROVE  /\ Accepted(i) \in Nat
         /\ sockIo[i].op # "write" => Accepted(i) = noWrites[i] * IoLen
         /\ \A n \in 0..(IoLen - 1) : sockIo[i] = [op |-> "write", done |-> n] =>
              Accepted(i) = noWrites[i] * IoLen - (IoLen - n) /\ noWrites[i] > 0
         /\ sockConn[i] = NoSock => Accepted(i) = 0
<1>1. noWrites[i] \in Nat /\ IoLen \in Nat /\ IoLen > 0
  <2>1. noWrites \in [SockIds -> Nat]
    BY DEF SockTypes
  <2> QED BY <2>1, SockAssumption
<1>2. CASE sockIo[i].op # "write"
  <2>1. Accepted(i) = noWrites[i] * IoLen - 0
    BY <1>2 DEF Accepted
  <2>2. noWrites[i] * IoLen \in Nat
    BY <1>1, CallsTimes
  <2>3. Accepted(i) = noWrites[i] * IoLen
    BY <2>1, <2>2
  <2>4. sockConn[i] = NoSock => noWrites[i] = 0
    BY DEF IoFits
  <2>5. sockConn[i] = NoSock => Accepted(i) = 0
    BY <1>1, <2>3, <2>4
  <2> QED BY <1>2, <2>2, <2>3, <2>5
<1>3. CASE sockIo[i].op = "write"
  <2>1. PICK n \in 0..(IoLen - 1) : sockIo[i] = [op |-> "write", done |-> n] /\ noWrites[i] > 0
    <3>1. sockIo[i] # NoIo /\ \A b \in Seq(Nat) : sockIo[i] # [op |-> "read", buf |-> b]
      BY <1>3 DEF NoIo
    <3> QED BY <3>1 DEF IoFits
  <2>2. sockIo[i].done = n /\ sockIo[i] # NoIo
    BY <2>1 DEF NoIo
  <2>3. Accepted(i) = noWrites[i] * IoLen - (IoLen - n)
    BY <1>3, <2>2 DEF Accepted
  <2>4. noWrites[i] * IoLen \in Nat /\ noWrites[i] * IoLen >= IoLen
    BY <1>1, <2>1, CallsTimes
  <2>5. Accepted(i) \in Nat
    BY <1>1, <2>3, <2>4
  <2>6. sockConn[i] # NoSock
    BY <2>2 DEF IoFits
  <2>7. \A m \in 0..(IoLen - 1) : sockIo[i] = [op |-> "write", done |-> m] => m = n
    BY <2>2
  <2> QED BY <1>3, <2>1, <2>3, <2>5, <2>6, <2>7
<1> QED BY <1>2, <1>3

\* A direction has one writer and one reader.
LEMMA EndsAre ==
  ASSUME SockTypes, EndsFit, NEW i \in SockIds, sockConn[i] # NoSock
  PROVE  /\ OutOf(i) \in Directions /\ Into(i) \in Directions /\ Into(i) # OutOf(i)
         /\ \A j \in SockIds : Writer(j, OutOf(i)) => j = i
         /\ \A j \in SockIds : sockConn[j] # NoSock /\ Into(j) = Into(i) => j = i
<1>1. sockConn[i] \in SockIds
  BY DEF SockTypes
<1>2. OutOf(i) \in Directions /\ Into(i) \in Directions /\ Into(i) # OutOf(i)
  BY <1>1 DEF OutOf, Into, Directions
<1>3. ASSUME NEW j \in SockIds, sockConn[j] # NoSock, OutOf(j) = OutOf(i) \/ Into(j) = Into(i)
      PROVE  j = i
  <2>1. sockConn[j] = sockConn[i] /\ (sockConn[j] = j <=> sockConn[i] = i)
    BY <1>3 DEF OutOf, Into
  <2>2. CASE sockConn[i] = i
    BY <2>1, <2>2
  <2>3. CASE sockConn[i] # i
    BY <1>3, <2>1, <2>3 DEF Accepter, EndsFit
  <2> QED BY <2>2, <2>3
<1> QED BY <1>2, <1>3 DEF Writer

-----------------------------------------------------------------------------
(* The sockets: what a step leaves alone *)

LEMMA DirectionKept ==
  ASSUME SockInv, NEW d \in Directions, NEW i \in SockIds,
         sockConn' = sockConn, ioFailed \subseteq ioFailed',
         stream'[d] = stream[d], got'[d] = got[d],
         \A j \in SockIds \ {i} : sockIo'[j] = sockIo[j] /\ noWrites'[j] = noWrites[j],
         Writer(i, d) => Accepted(i)' = Accepted(i),
         Reading(i, d)' <=> Reading(i, d),
         Reading(i, d) => sockIo'[i] = sockIo[i]
  PROVE  DirectionFits(d)'
<1> SUFFICES ASSUME d \notin ioFailed'
             PROVE  \E g, b, w \in Nat : UnitsFit(d, g, b, w)'
  BY DEF DirectionFits
<1>1. PICK g \in Nat, b \in Nat, w \in Nat : UnitsFit(d, g, b, w)
  BY DEF SockInv, DirectionFits
<1>2. \A j \in SockIds : Writer(j, d)' <=> Writer(j, d)
  BY DEF Writer, OutOf
<1>3. \A j \in SockIds \ {i} : Accepted(j)' = Accepted(j)
  BY DEF Accepted
<1>4. \A j \in SockIds \ {i} : Reading(j, d)' <=> Reading(j, d)
  BY DEF Reading, Into
<1>5. \A j \in SockIds : Reading(j, d) => sockIo'[j] = sockIo[j]
  OBVIOUS
<1>6. /\ g <= b /\ b <= w /\ got'[d] = Units(0, g) /\ stream'[d] = Units(b, w)
      /\ (\A j \in SockIds : ~Writer(j, d)') => w = 0
      /\ (\A j \in SockIds : ~Reading(j, d)') => g = b
  BY <1>1, <1>2, <1>4 DEF UnitsFit
<1>7. \A j \in SockIds : Writer(j, d)' => w = Accepted(j)'
  BY <1>1, <1>2, <1>3 DEF UnitsFit
<1>8. \A j \in SockIds : Reading(j, d)' => sockIo'[j].buf = Units(g, b)
  BY <1>1, <1>4, <1>5 DEF UnitsFit
<1> QED BY <1>6, <1>7, <1>8 DEF UnitsFit

\* A step outside of the calls that read and write.
LEMMA DataStays ==
  ASSUME SockInv, sockHeld \subseteq sockHeld',
         UNCHANGED <<sockConn, sockIo, stream, got, noWrites, ioFailed>>
  PROVE  (\A i \in SockIds : IoFits(i)') /\ \A d \in Directions : DirectionFits(d)'
<1>1. \A i \in SockIds : IoFits(i)'
  BY DEF SockInv, IoFits
<1>2. \A d \in Directions : DirectionFits(d)'
  BY DEF SockInv, DirectionFits, UnitsFit, Writer, Reading, OutOf, Into, Accepted
<1> QED BY <1>1, <1>2

\* A socket gets its connection: it takes a direction that had no writer and one
\* that had no reader.
LEMMA ConnectionMade ==
  ASSUME SockInv, EndsFit', SockTypes', NEW i \in SockIds, NEW c \in SockIds,
         sockConn[i] = NoSock, sockConn' = [sockConn EXCEPT ![i] = c],
         sockHeld \subseteq sockHeld', UNCHANGED <<sockIo, stream, got, noWrites, ioFailed>>
  PROVE  (\A j \in SockIds : IoFits(j)') /\ \A d \in Directions : DirectionFits(d)'
<1>1. /\ sockConn'[i] = c /\ sockConn'[i] # NoSock
      /\ \A j \in SockIds \ {i} : sockConn'[j] = sockConn[j]
  <2>1. SockTypes
    BY DEF SockInv
  <2>2. sockConn \in [SockIds -> SockIds \cup {NoSock}]
    BY <2>1 DEF SockTypes
  <2>3. sockConn' = [sockConn EXCEPT ![i] = c] /\ i \in SockIds /\ c \in SockIds
    OBVIOUS
  <2> QED BY ONLY <2>2, <2>3, SockAssumption
<1>2. sockIo[i] = NoIo /\ noWrites[i] = 0 /\ Accepted(i) = 0
  BY AcceptedIs DEF SockInv, IoFits
<1>3. \A j \in SockIds : IoFits(j)'
  <2>1. ASSUME NEW j \in SockIds PROVE IoFits(j)'
    BY <1>1, <1>2 DEF SockInv, IoFits
  <2> QED BY <2>1
<1>4. ASSUME NEW d \in Directions PROVE DirectionFits(d)'
  <2> SUFFICES ASSUME d \notin ioFailed'
               PROVE  \E g, b, w \in Nat : UnitsFit(d, g, b, w)'
    BY DEF DirectionFits
  <2>1. PICK g \in Nat, b \in Nat, w \in Nat : UnitsFit(d, g, b, w)
    BY DEF SockInv, DirectionFits
  <2>2. \A j \in SockIds \ {i} : /\ Writer(j, d)' <=> Writer(j, d)
                                 /\ Reading(j, d)' <=> Reading(j, d)
    BY <1>1 DEF Writer, Reading, OutOf, Into
  <2>3. \A j \in SockIds : Accepted(j)' = Accepted(j)
    BY DEF Accepted
  <2>4. ~Writer(i, d) /\ ~Reading(i, d) /\ ~Reading(i, d)'
    BY <1>2 DEF Writer, Reading, NoIo
  <2>5. ASSUME NEW j \in SockIds, Writer(j, d)' PROVE w = Accepted(j)'
    <3>1. CASE j = i
      <4>1. ASSUME NEW k \in SockIds, Writer(k, d)' PROVE k = i
        <5>1. /\ sockConn'[k] # NoSock /\ sockConn'[k] = sockConn'[i]
              /\ sockConn'[k] = k <=> sockConn'[i] = i
          BY <2>5, <3>1, <4>1 DEF Writer, OutOf
        <5>2. Accepter(k)' /\ Accepter(i)' => k = i
          BY <5>1 DEF EndsFit
        <5> QED BY <5>1, <5>2 DEF Accepter
      <4>2. \A k \in SockIds : ~Writer(k, d)
        BY <2>2, <2>4, <4>1
      <4> QED BY <1>2, <2>1, <2>3, <3>1, <4>2 DEF UnitsFit
    <3>2. CASE j # i
      BY <2>1, <2>2, <2>3, <2>5, <3>2 DEF UnitsFit
    <3> QED BY <3>1, <3>2
  <2>6. (\A j \in SockIds : ~Writer(j, d)') => w = 0
    BY <2>1, <2>2, <2>4 DEF UnitsFit
  <2>7. /\ \A j \in SockIds : Reading(j, d)' => sockIo'[j].buf = Units(g, b)
        /\ (\A j \in SockIds : ~Reading(j, d)') => g = b
        /\ g <= b /\ b <= w /\ got'[d] = Units(0, g) /\ stream'[d] = Units(b, w)
    BY <2>1, <2>2, <2>4 DEF UnitsFit
  <2> QED BY <2>5, <2>6, <2>7 DEF UnitsFit
<1> QED BY <1>3, <1>4

\* A step of a call that reads or writes.
LEMMA SetupStays ==
  ASSUME SockInv, UNCHANGED <<setupVars, modeVars>>, ShortReadHasCause',
         NEW i \in SockIds, IoFits(i)',
         \A j \in SockIds \ {i} : sockIo'[j] = sockIo[j] /\ noWrites'[j] = noWrites[j]
  PROVE  /\ ModesFit' /\ EndsFit' /\ \A j \in SockIds : IoFits(j)'
         /\ UNCHANGED <<sockFd, sockHeld, listener, sockConn, connecting, answer, pending,
                        nonBlock, askedNonBlock>>
<1>1. UNCHANGED <<sockFd, sockHeld, listener, sockConn, connecting, answer, pending,
                  nonBlock, askedNonBlock>>
  BY DEF setupVars, modeVars
<1>2. ModesFit'
  BY <1>1 DEF SockInv, ModesFit, NoDescriptorLost
<1>3. EndsFit'
  BY <1>1 DEF SockInv, EndsFit, Accepter
<1>4. \A j \in SockIds \ {i} : IoFits(j)'
  BY ZenonT(60), <1>1 DEF SockInv, IoFits
<1> QED BY <1>1, <1>2, <1>3, <1>4

-----------------------------------------------------------------------------
(* The sockets: creating and destroying *)

LEMMA ServerCreateKeeps ==
  ASSUME SockInv, NEW i \in SockIds, radSocketServerCreate(i) PROVE SockInv'
<1>1. /\ Unused(i)
      /\ UNCHANGED <<sockConn, connecting, answer, pending, nonBlock, askedNonBlock, sockIo,
                     stream, got, noWrites, ioFailed, wouldBlock>>
      /\ \/ sockFd' = sockFd \cup {i} /\ sockHeld' = sockHeld \cup {i}
         \/ sockFd' = (sockFd \cup {i}) \ {i} /\ sockHeld' = sockHeld
  BY DEF radSocketServerCreate, GivenUp, modeVars, dataVars
<1>2. SockTypes'
  BY <1>1 DEF SockInv, SockTypes
<1>3. ModesFit'
  BY <1>1 DEF SockInv, ModesFit, NoDescriptorLost, ShortReadHasCause, Unused
<1>4. EndsFit'
  BY <1>1 DEF SockInv, EndsFit, Accepter
<1>5. (\A j \in SockIds : IoFits(j)') /\ \A d \in Directions : DirectionFits(d)'
  BY <1>1, DataStays
<1> QED BY <1>2, <1>3, <1>4, <1>5 DEF SockInv

LEMMA AcceptKeeps ==
  ASSUME SockInv, NEW i \in SockIds, radSocketServerAcceptConnection(i) PROVE SockInv'
<1>1. PICK c \in pending :
        /\ pending' = pending \ {c}
        /\ \/ /\ sockFd' = sockFd \cup {i} /\ sockHeld' = sockHeld \cup {i}
              /\ sockConn' = [sockConn EXCEPT ![i] = c]
           \/ /\ sockFd' = (sockFd \cup {i}) \ {i} /\ sockHeld' = sockHeld
              /\ sockConn' = sockConn
  BY DEF radSocketServerAcceptConnection, GivenUp
<1>2. /\ Unused(i) /\ c \in SockIds
      /\ UNCHANGED <<connecting, answer, nonBlock, askedNonBlock, sockIo,
                     stream, got, noWrites, ioFailed, wouldBlock>>
  BY DEF radSocketServerAcceptConnection, modeVars, dataVars, SockInv, SockTypes
<1>3. ModesFit'
  BY <1>1, <1>2 DEF SockInv, ModesFit, NoDescriptorLost, ShortReadHasCause, Unused
<1>4. CASE sockConn' = sockConn /\ sockHeld \subseteq sockHeld'
  <2>1. SockTypes'
    BY <1>1, <1>2 DEF SockInv, SockTypes
  <2>2. EndsFit'
    BY <1>1, <1>2, <1>4 DEF SockInv, EndsFit, Accepter
  <2>3. (\A j \in SockIds : IoFits(j)') /\ \A d \in Directions : DirectionFits(d)'
    BY <1>2, <1>4, DataStays
  <2> QED BY <1>3, <2>1, <2>2, <2>3 DEF SockInv
<1>5. CASE sockConn' = [sockConn EXCEPT ![i] = c] /\ sockHeld \subseteq sockHeld'
  <2>1. /\ sockConn[i] = NoSock /\ sockConn[c] = c /\ c # i /\ c # NoSock
        /\ i \notin connecting
        /\ sockConn' \in [SockIds -> SockIds \cup {NoSock}] /\ sockConn'[i] = c
        /\ \A j \in SockIds \ {i} : sockConn'[j] = sockConn[j]
    BY ZenonT(30), <1>2, <1>5, SockAssumption DEF SockInv, SockTypes, EndsFit, Unused, ModesFit, NoDescriptorLost
  <2>2. SockTypes'
    BY <1>1, <1>2, <2>1 DEF SockInv, SockTypes
  <2>3. EndsFit'
    <3>1. EndsFit
      BY DEF SockInv
    <3>2. \A j \in SockIds : answer'[j] \in {"none", "awaited"} => sockConn'[j] # j
      BY <1>2, <2>1, <3>1 DEF EndsFit
    <3>3. /\ \A j \in connecting' : sockConn'[j] \in {j, NoSock}
          /\ \A j \in SockIds : answer'[j] = "awaited" => j \in connecting'
      <4>1. /\ \A j \in connecting : sockConn[j] \in {j, NoSock}
            /\ \A j \in SockIds : answer[j] = "awaited" => j \in connecting
        BY <3>1 DEF EndsFit
      <4>2. connecting' = connecting /\ answer' = answer
        BY <1>2
      <4>3. connecting \subseteq SockIds
        <5>1. SockTypes
          BY DEF SockInv
        <5> QED BY ONLY <5>1 DEF SockTypes
      <4> QED BY ONLY <4>1, <4>2, <4>3, <2>1
    <3>4. \A j \in SockIds : sockConn'[j] # NoSock => sockConn'[sockConn'[j]] = sockConn'[j]
      <4>1. SockTypes
        BY DEF SockInv
      <4>2. ASSUME NEW j \in SockIds \ {i}, sockConn[j] # NoSock PROVE sockConn[j] \in SockIds \ {i}
        <5>1. sockConn[sockConn[j]] = sockConn[j] /\ sockConn[j] \in SockIds
          <6>1. sockConn \in [SockIds -> SockIds \cup {NoSock}]
            BY <4>1 DEF SockTypes
          <6> QED BY <3>1, <4>2, <6>1 DEF EndsFit
        <5> QED BY <2>1, <4>2, <5>1
      <4> QED BY <1>2, <2>1, <3>1, <4>2 DEF EndsFit
    <3>5. ASSUME NEW j \in SockIds, NEW k \in SockIds, Accepter(j)', Accepter(k)',
                 sockConn'[j] = sockConn'[k]
          PROVE  j = k
      <4>1. \A l \in SockIds : sockConn[l] = c => l = c
        BY <3>1 DEF EndsFit
      <4>2. \A l \in SockIds \ {i} : Accepter(l)' => Accepter(l) /\ sockConn[l] # c
        BY <2>1, <4>1 DEF Accepter
      <4> QED BY <2>1, <3>1, <3>5, <4>2 DEF EndsFit
    <3>6. \A e \in pending' : sockConn'[e] = e /\ \A j \in SockIds : sockConn'[j] = e => j = e
      <4>1. \A e \in pending : e \in SockIds /\ sockConn[e] = e
                               /\ \A j \in SockIds : sockConn[j] = e => j = e
        BY <3>1 DEF EndsFit, SockInv, SockTypes
      <4>2. \A e \in pending : e # i
        BY <2>1, <4>1, SockAssumption
      <4> QED BY <1>1, <1>2, <2>1, <4>1, <4>2
    <3> QED BY <3>2, <3>3, <3>4, <3>5, <3>6 DEF EndsFit
  <2>4. (\A j \in SockIds : IoFits(j)') /\ \A d \in Directions : DirectionFits(d)'
    BY <1>2, <1>5, <2>1, <2>2, <2>3, ConnectionMade
  <2> QED BY <1>3, <2>2, <2>3, <2>4 DEF SockInv
<1> QED BY <1>1, <1>4, <1>5

LEMMA ConnectsKeeps ==
  ASSUME SockInv, NEW i \in SockIds, ClientConnects(i) PROVE SockInv'
<1>1. /\ Unused(i)
      /\ UNCHANGED <<sockHeld, sockConn, pending, askedNonBlock, sockIo,
                     stream, got, noWrites, ioFailed, wouldBlock>>
      /\ \/ /\ sockFd' = sockFd \cup {i} /\ connecting' = connecting \cup {i}
            /\ answer' = [answer EXCEPT ![i] = "awaited"] /\ nonBlock' = nonBlock \cup {i}
         \/ /\ sockFd' = (sockFd \cup {i}) \ {i} /\ connecting' = connecting
            /\ answer' = [answer EXCEPT ![i] = "given up"] /\ nonBlock' = nonBlock
  BY DEF ClientConnects, GivenUp, dataVars
<1>2. /\ sockConn[i] = NoSock /\ i # NoSock
      /\ answer' \in [SockIds -> {"none", "awaited", "connected", "refused", "given up"}]
      /\ answer'[i] = "given up" \/ (answer'[i] = "awaited" /\ i \in connecting')
      /\ \A j \in SockIds \ {i} : answer'[j] = answer[j]
      /\ connecting \subseteq connecting' /\ connecting' \subseteq connecting \cup {i}
  BY <1>1, SockAssumption DEF SockInv, SockTypes, Unused
<1>3. SockTypes'
  BY ZenonT(60), <1>1, <1>2 DEF SockInv, SockTypes
<1>4. ModesFit'
  BY ZenonT(60), <1>1 DEF SockInv, ModesFit, NoDescriptorLost, ShortReadHasCause, Unused
<1>5. EndsFit'
  BY <1>1, <1>2 DEF SockInv, EndsFit, Accepter
<1>6. (\A j \in SockIds : IoFits(j)') /\ \A d \in Directions : DirectionFits(d)'
  BY <1>1, DataStays
<1> QED BY <1>3, <1>4, <1>5, <1>6 DEF SockInv

LEMMA AnsweredKeeps ==
  ASSUME SockInv, NEW i \in SockIds, ConnectAnswered(i) PROVE SockInv'
<1>1. /\ i \in connecting /\ answer[i] = "awaited"
      /\ UNCHANGED <<sockFd, sockHeld, connecting, nonBlock, askedNonBlock, sockIo,
                     stream, got, noWrites, ioFailed, wouldBlock>>
      /\ \/ /\ answer' = [answer EXCEPT ![i] = "connected"]
            /\ sockConn' = [sockConn EXCEPT ![i] = i] /\ pending' = pending \cup {i}
         \/ /\ answer' = [answer EXCEPT ![i] = "refused"]
            /\ sockConn' = sockConn /\ pending' = pending
  BY DEF ConnectAnswered, modeVars, dataVars
<1>2. /\ answer' \in [SockIds -> {"none", "awaited", "connected", "refused", "given up"}]
      /\ answer'[i] \notin {"none", "awaited"}
      /\ \A j \in SockIds \ {i} : answer'[j] = answer[j]
  BY <1>1 DEF SockInv, SockTypes
<1>3. ModesFit'
  BY <1>1 DEF SockInv, ModesFit, NoDescriptorLost, ShortReadHasCause
<1>4. CASE sockConn' = sockConn /\ pending' = pending
  <2>1. SockTypes'
    BY <1>1, <1>2, <1>4 DEF SockInv, SockTypes
  <2>2. EndsFit'
    BY <1>1, <1>2, <1>4 DEF SockInv, EndsFit, Accepter
  <2>3. (\A j \in SockIds : IoFits(j)') /\ \A d \in Directions : DirectionFits(d)'
    BY <1>1, <1>4, DataStays
  <2> QED BY <1>3, <2>1, <2>2, <2>3 DEF SockInv
<1>5. CASE sockConn' = [sockConn EXCEPT ![i] = i] /\ pending' = pending \cup {i}
  <2>1. /\ sockConn[i] = NoSock /\ i # NoSock
        /\ sockConn' \in [SockIds -> SockIds \cup {NoSock}] /\ sockConn'[i] = i
        /\ \A j \in SockIds \ {i} : sockConn'[j] = sockConn[j]
    BY ZenonT(30), <1>1, <1>5, SockAssumption DEF SockInv, SockTypes, EndsFit
  <2>2. SockTypes'
    <3>1. pending' \subseteq SockIds
      BY <1>5 DEF SockInv, SockTypes
    <3> QED BY <1>1, <1>2, <2>1, <3>1 DEF SockInv, SockTypes
  <2>3. \A j \in SockIds : sockConn[j] # i
    <3>1. \A j \in SockIds : sockConn[j] # NoSock => sockConn[sockConn[j]] = sockConn[j]
      BY DEF SockInv, EndsFit
    <3> QED BY <2>1, <3>1
  <2>4. EndsFit'
    <3>1. EndsFit
      BY DEF SockInv
    <3>2. \A j \in SockIds : answer'[j] \in {"none", "awaited"} => sockConn'[j] # j
      BY <1>2, <2>1, <3>1 DEF EndsFit
    <3>3. /\ \A j \in connecting' : sockConn'[j] \in {j, NoSock}
          /\ \A j \in SockIds : answer'[j] = "awaited" => j \in connecting'
      BY <1>1, <1>2, <2>1, <3>1 DEF EndsFit, SockInv, SockTypes
    <3>4. \A j \in SockIds : sockConn'[j] # NoSock => sockConn'[sockConn'[j]] = sockConn'[j]
      <4>1. ASSUME NEW j \in SockIds \ {i}, sockConn[j] # NoSock
            PROVE  sockConn[j] \in SockIds \ {i} /\ sockConn[sockConn[j]] = sockConn[j]
        BY ZenonT(30), <2>3, <3>1, <4>1 DEF EndsFit, SockInv, SockTypes
      <4> QED BY <2>1, <4>1
    <3>5. \A j, k \in SockIds : Accepter(j)' /\ Accepter(k)' /\ sockConn'[j] = sockConn'[k] => j = k
      <4>1. ~Accepter(i)'
        BY <2>1 DEF Accepter
      <4>2. \A l \in SockIds \ {i} : Accepter(l)' <=> Accepter(l)
        BY <2>1 DEF Accepter
      <4> QED BY <2>1, <3>1, <4>1, <4>2 DEF EndsFit
    <3>6. \A e \in pending' : sockConn'[e] = e /\ \A j \in SockIds : sockConn'[j] = e => j = e
      <4>1. \A e \in pending : e \in SockIds /\ sockConn[e] = e
                               /\ \A j \in SockIds : sockConn[j] = e => j = e
        BY <3>1 DEF EndsFit, SockInv, SockTypes
      <4>2. \A e \in pending : e # i
        BY <2>1, <4>1
      <4> QED BY <1>5, <2>1, <2>3, <4>1, <4>2
    <3> QED BY <3>2, <3>3, <3>4, <3>5, <3>6 DEF EndsFit
  <2>5. (\A j \in SockIds : IoFits(j)') /\ \A d \in Directions : DirectionFits(d)'
    BY <1>1, <1>5, <2>1, <2>2, <2>4, ConnectionMade
  <2> QED BY <1>3, <2>2, <2>4, <2>5 DEF SockInv
<1> QED BY <1>1, <1>4, <1>5

\* The ends of radSocketClientCreate: with a socket, or without.
LEMMA ClientEndsKeeps ==
  ASSUME SockInv, NEW i \in SockIds, ClientSelected(i) \/ ClientGivesUp(i) PROVE SockInv'
<1>1. /\ i \in connecting /\ connecting' = connecting \ {i} /\ nonBlock' = nonBlock \ {i}
      /\ UNCHANGED <<sockConn, pending, askedNonBlock, sockIo, stream, got, noWrites, ioFailed, wouldBlock>>
      /\ \/ /\ answer[i] # "awaited" /\ answer' = answer
            /\ sockHeld' = sockHeld \cup {i} /\ sockFd' = sockFd
         \/ /\ answer' = [answer EXCEPT ![i] = "given up"]
            /\ sockHeld' = sockHeld /\ sockFd' = sockFd \ {i}
  BY DEF ClientSelected, ClientGivesUp, Blocking, GivenUp, dataVars
<1>2. /\ answer' \in [SockIds -> {"none", "awaited", "connected", "refused", "given up"}]
      /\ answer'[i] # "awaited" /\ (answer'[i] = "none" => answer[i] = "none")
      /\ \A j \in SockIds \ {i} : answer'[j] = answer[j]
  BY <1>1 DEF SockInv, SockTypes
<1>3. SockTypes'
  BY <1>1, <1>2 DEF SockInv, SockTypes
<1>4. ModesFit'
  BY <1>1 DEF SockInv, ModesFit, NoDescriptorLost, ShortReadHasCause
<1>5. EndsFit'
  BY <1>1, <1>2 DEF SockInv, EndsFit, Accepter
<1>6. (\A j \in SockIds : IoFits(j)') /\ \A d \in Directions : DirectionFits(d)'
  BY <1>1, DataStays
<1> QED BY <1>3, <1>4, <1>5, <1>6 DEF SockInv

LEMMA DestroyKeeps ==
  ASSUME SockInv, NEW i \in SockIds, radSocketDestroy(i) PROVE SockInv'
<1>1. /\ i \in sockHeld /\ sockIo[i] = NoIo
      /\ sockHeld' = sockHeld \ {i} /\ sockFd' = sockFd \ {i}
      /\ pending' = {} \/ pending' = pending
      /\ nonBlock' = nonBlock \ {i} /\ askedNonBlock' = askedNonBlock \ {i}
      /\ wouldBlock' = wouldBlock \ {i}
      /\ UNCHANGED <<sockConn, connecting, answer, sockIo, stream, got, noWrites, ioFailed>>
  BY DEF radSocketDestroy
<1>2. SockTypes'
  BY <1>1 DEF SockInv, SockTypes
<1>3. ModesFit'
  BY <1>1 DEF SockInv, ModesFit, NoDescriptorLost, ShortReadHasCause
<1>4. EndsFit'
  BY <1>1 DEF SockInv, EndsFit, Accepter
<1>5. \A j \in SockIds : IoFits(j)'
  BY <1>1 DEF SockInv, IoFits
<1>6. \A d \in Directions : DirectionFits(d)'
  BY <1>1 DEF SockInv, DirectionFits, UnitsFit, Writer, Reading, OutOf, Into, Accepted
<1> QED BY <1>2, <1>3, <1>4, <1>5, <1>6 DEF SockInv

LEMMA BlockingKeeps ==
  ASSUME SockInv, NEW i \in SockIds, NEW isBlocking \in BOOLEAN,
         radSocketSetBlocking(i, isBlocking)
  PROVE  SockInv'
<1>1. /\ wouldBlock' = wouldBlock \ {i}
      /\ \/ nonBlock' = nonBlock \ {i} /\ askedNonBlock' = askedNonBlock \ {i}
         \/ nonBlock' = nonBlock \cup {i} /\ askedNonBlock' = askedNonBlock \cup {i}
      /\ UNCHANGED <<sockFd, sockHeld, listener, sockConn, connecting, answer, pending,
                     sockIo, stream, got, noWrites, ioFailed>>
  BY DEF radSocketSetBlocking, Blocking, setupVars
<1>2. SockTypes'
  BY <1>1 DEF SockInv, SockTypes
<1>3. ModesFit'
  BY <1>1 DEF SockInv, ModesFit, NoDescriptorLost, ShortReadHasCause
<1>4. EndsFit'
  BY <1>1 DEF SockInv, EndsFit, Accepter
<1>5. (\A j \in SockIds : IoFits(j)') /\ \A d \in Directions : DirectionFits(d)'
  BY <1>1, DataStays
<1> QED BY <1>2, <1>3, <1>4, <1>5 DEF SockInv

-----------------------------------------------------------------------------
(* The sockets: writing *)

LEMMA IoChanged ==
  ASSUME SockTypes, NEW i \in SockIds, NEW e, sockIo' = [sockIo EXCEPT ![i] = e]
  PROVE  /\ sockIo'[i] = e /\ \A j \in SockIds \ {i} : sockIo'[j] = sockIo[j]
         /\ sockIo' = [j \in SockIds |-> sockIo'[j]]
<1>1. sockIo = [j \in SockIds |-> sockIo[j]]
  BY DEF SockTypes
<1>2. DOMAIN sockIo = SockIds
  BY <1>1
<1> QED BY <1>2

\* What a call under way is, of an object with a connection.
LEMMA CallIs ==
  ASSUME SockInv, NEW i \in SockIds
  PROVE  /\ sockIo[i].op = "write" =>
              /\ i \in sockHeld /\ sockConn[i] # NoSock /\ noWrites[i] > 0
              /\ \E n \in 0..(IoLen - 1) : sockIo[i] = [op |-> "write", done |-> n]
         /\ sockIo[i].op = "read" =>
              /\ i \in sockHeld /\ sockConn[i] # NoSock
              /\ \E b \in Seq(Nat) : sockIo[i] = [op |-> "read", buf |-> b]
<1>1. IoFits(i)
  BY DEF SockInv
<1>2. CASE sockIo[i] = NoIo
  BY <1>2 DEF NoIo
<1>3. CASE noWrites[i] > 0 /\ \E n \in 0..(IoLen - 1) : sockIo[i] = [op |-> "write", done |-> n]
  <2>1. sockIo[i].op = "write" /\ sockIo[i] # NoIo
    BY <1>3 DEF NoIo
  <2> QED BY <1>1, <1>3, <2>1 DEF IoFits
<1>4. CASE \E b \in Seq(Nat) : sockIo[i] = [op |-> "read", buf |-> b]
  <2>1. sockIo[i].op = "read" /\ sockIo[i] # NoIo
    BY <1>4 DEF NoIo
  <2> QED BY <1>1, <1>4, <2>1 DEF IoFits
<1> QED BY <1>1, <1>2, <1>3, <1>4 DEF IoFits

LEMMA WriteStartsKeeps ==
  ASSUME SockInv, NEW i \in SockIds, WriteStarts(i) PROVE SockInv'
<1> DEFINE e == [op |-> "write", done |-> 0]
<1>1. /\ i \in sockHeld /\ sockConn[i] # NoSock /\ sockIo[i] = NoIo
      /\ noWrites' = [noWrites EXCEPT ![i] = @ + 1] /\ sockIo' = [sockIo EXCEPT ![i] = e]
      /\ UNCHANGED <<setupVars, modeVars>>
      /\ stream' = stream /\ got' = got /\ ioFailed' = ioFailed /\ wouldBlock' = wouldBlock
  BY DEF WriteStarts, Starts
<1>2. SockTypes /\ noWrites \in [SockIds -> Nat] /\ noWrites[i] \in Nat
  BY DEF SockInv, SockTypes
<1>3. /\ sockIo'[i] = e /\ \A j \in SockIds \ {i} : sockIo'[j] = sockIo[j]
      /\ sockIo' = [j \in SockIds |-> sockIo'[j]]
  BY <1>1, <1>2, IoChanged
<1>4. /\ noWrites' \in [SockIds -> Nat] /\ noWrites'[i] = noWrites[i] + 1
      /\ \A j \in SockIds \ {i} : noWrites'[j] = noWrites[j]
  BY <1>1, <1>2
<1>5. sockHeld' = sockHeld /\ sockConn' = sockConn /\ askedNonBlock' = askedNonBlock
  BY <1>1 DEF setupVars, modeVars
<1>6. IoFits(i)'
  <2>1. 0 \in 0..(IoLen - 1)
    BY SockAssumption
  <2>2. noWrites'[i] > 0
    BY <1>2, <1>4
  <2> QED BY <1>1, <1>3, <1>5, <2>1, <2>2 DEF IoFits
<1>7. ShortReadHasCause'
  BY <1>1, <1>5 DEF SockInv, ModesFit, ShortReadHasCause
<1>8. /\ ModesFit' /\ EndsFit' /\ \A j \in SockIds : IoFits(j)'
      /\ UNCHANGED <<sockFd, sockHeld, listener, sockConn, connecting, answer, pending,
                     nonBlock, askedNonBlock>>
  BY <1>1, <1>3, <1>4, <1>6, <1>7, SetupStays
<1>9. SockTypes'
  BY <1>1, <1>2, <1>3, <1>4, <1>8 DEF SockTypes
<1>10. Accepted(i)' = Accepted(i)
  <2>1. Accepted(i) = noWrites[i] * IoLen
    BY <1>1, <1>2, AcceptedIs DEF SockInv, NoIo
  <2>2. Accepted(i)' = noWrites'[i] * IoLen - (IoLen - 0)
    BY <1>3 DEF Accepted
  <2>3. noWrites[i] * IoLen \in Nat /\ (noWrites[i] + 1) * IoLen = noWrites[i] * IoLen + IoLen
    BY <1>2, CallsTimes
  <2>4. IoLen \in Nat
    BY SockAssumption
  <2> HIDE DEF e
  <2>5. Accepted(i)' = noWrites[i] * IoLen + IoLen - IoLen
    BY <1>4, <2>2, <2>3, <2>4
  <2> QED BY <2>1, <2>3, <2>4, <2>5
<1>11. ASSUME NEW d \in Directions PROVE DirectionFits(d)'
  <2>1. ~Reading(i, d) /\ ~Reading(i, d)'
    BY <1>1, <1>3 DEF Reading, NoIo
  <2> QED BY <1>1, <1>3, <1>4, <1>5, <1>10, <2>1, DirectionKept
<1> QED BY <1>8, <1>9, <1>11 DEF SockInv

\* The loop of radSocketWriteExact goes on where it was.
LEMMA WriteSomeKeeps ==
  ASSUME SockInv, NEW i \in SockIds, WriteSome(i) PROVE SockInv'
<1>1. PICK m \in 0..(IoLen - 1) : sockIo[i] = [op |-> "write", done |-> m]
  BY CallIs DEF WriteSome
<1>2. i \in sockHeld /\ sockConn[i] # NoSock /\ noWrites[i] > 0
  BY <1>1, CallIs
<1>3. SockTypes /\ noWrites[i] \in Nat /\ IoLen \in Nat
  BY SockAssumption DEF SockInv, SockTypes
<1>4. PICK d \in Directions : d = OutOf(i)
  BY <1>2, <1>3, EndsAre DEF SockInv
<1>5. PICK n \in 1..(IoLen - m) :
        /\ stream' = [stream EXCEPT ![d] = @ \o UnitsAt(i, n)]
        /\ sockIo' = [sockIo EXCEPT ![i] = IF m + n = IoLen THEN NoIo
                                           ELSE [op |-> "write", done |-> m + n]]
  <2>1. sockIo[i].done = m
    BY <1>1
  <2> QED BY <1>4, <2>1 DEF WriteSome
<1>6. /\ UNCHANGED <<setupVars, modeVars>>
      /\ got' = got /\ noWrites' = noWrites /\ ioFailed' = ioFailed /\ wouldBlock' = wouldBlock
  BY DEF WriteSome
<1>7. sockHeld' = sockHeld /\ sockConn' = sockConn /\ askedNonBlock' = askedNonBlock
  BY <1>6 DEF setupVars, modeVars
<1> DEFINE e == IF m + n = IoLen THEN NoIo ELSE [op |-> "write", done |-> m + n]
<1>8. /\ sockIo'[i] = e /\ \A j \in SockIds \ {i} : sockIo'[j] = sockIo[j]
      /\ sockIo' = [j \in SockIds |-> sockIo'[j]]
  <2>1. sockIo' = [sockIo EXCEPT ![i] = e]
    BY <1>5
  <2> HIDE DEF e
  <2> QED BY <1>3, <2>1, IoChanged
<1>9. PICK a \in Nat : a = Accepted(i) /\ a = noWrites[i] * IoLen - (IoLen - m)
  <2>1. IoFits(i)
    BY DEF SockInv
  <2> QED BY <1>1, <1>3, <2>1, AcceptedIs
<1>10. Accepted(i)' = a + n
  <2>1. CASE m + n = IoLen
    <3>1. Accepted(i)' = noWrites[i] * IoLen - 0
      BY <1>6, <1>8, <2>1 DEF Accepted, NoIo
    <3>2. noWrites[i] * IoLen \in Nat
      BY <1>3, CallsTimes
    <3> HIDE DEF e
    <3> QED BY <1>3, <1>9, <2>1, <3>1, <3>2
  <2>2. CASE m + n # IoLen
    <3>1. Accepted(i)' = noWrites[i] * IoLen - (IoLen - (m + n))
      BY <1>6, <1>8, <2>2 DEF Accepted
    <3>2. noWrites[i] * IoLen \in Nat
      BY <1>3, CallsTimes
    <3> HIDE DEF e
    <3> QED BY <1>3, <1>9, <3>1, <3>2
  <2> QED BY <2>1, <2>2
<1>11. UnitsAt(i, n) = Units(a, a + n)
  <2>1. /\ (noWrites[i] - 1) * IoLen = noWrites[i] * IoLen - IoLen
        /\ noWrites[i] * IoLen \in Nat
    BY <1>2, <1>3, CallsTimes
  <2>2. (noWrites[i] - 1) * IoLen + m = a /\ a + n - a = n /\ a \in Int
    BY <1>3, <1>9, <2>1
  <2>3. \A k \in 1..n : (noWrites[i] - 1) * IoLen + sockIo[i].done + k = a + k
    BY <1>1, <2>2
  <2> QED BY <2>2, <2>3 DEF UnitsAt, Units
<1>12. Units(a, a + n) \in Seq(Nat)
  <2>1. a + n \in Nat /\ a <= a + n
    OBVIOUS
  <2> QED BY <2>1, UnitsAre
<1>13. IoFits(i)'
  <2>1. CASE m + n = IoLen
    BY <1>2, <1>6, <1>7, <1>8, <2>1 DEF IoFits
  <2>2. CASE m + n # IoLen
    <3>1. m + n \in 0..(IoLen - 1)
      BY <1>3, <2>2
    <3> QED BY <1>2, <1>6, <1>7, <1>8, <2>2, <3>1 DEF IoFits
  <2> QED BY <2>1, <2>2
<1>14. ShortReadHasCause'
  BY <1>6, <1>7 DEF SockInv, ModesFit, ShortReadHasCause
<1>15. /\ ModesFit' /\ EndsFit' /\ \A j \in SockIds : IoFits(j)'
       /\ UNCHANGED <<sockFd, sockHeld, listener, sockConn, connecting, answer, pending,
                      nonBlock, askedNonBlock>>
  BY <1>6, <1>8, <1>13, <1>14, SetupStays
<1>16. /\ stream' \in [Directions -> Seq(Nat)]
       /\ stream'[d] = stream[d] \o Units(a, a + n)
       /\ \A f \in Directions \ {d} : stream'[f] = stream[f]
  <2>1. stream \in [Directions -> Seq(Nat)] /\ stream[d] \in Seq(Nat)
    BY <1>3 DEF SockTypes
  <2>2. stream[d] \o Units(a, a + n) \in Seq(Nat)
    BY <1>12, <2>1, ConcatProperties
  <2>3. stream' = [stream EXCEPT ![d] = stream[d] \o Units(a, a + n)]
    BY <1>5, <1>11
  <2> QED BY <2>1, <2>2, <2>3
<1>17. SockTypes'
  BY <1>3, <1>6, <1>8, <1>15, <1>16 DEF SockTypes
<1>18. \A f \in Directions : ~Reading(i, f) /\ ~Reading(i, f)'
  BY <1>1, <1>8 DEF Reading, NoIo
<1>19. ASSUME NEW f \in Directions \ {d} PROVE DirectionFits(f)'
  <2>1. ~Writer(i, f)
    BY <1>4 DEF Writer
  <2> QED BY <1>6, <1>7, <1>8, <1>16, <1>18, <2>1, DirectionKept
<1>20. DirectionFits(d)'
  <2> SUFFICES ASSUME d \notin ioFailed
               PROVE  \E g, b, w \in Nat : UnitsFit(d, g, b, w)'
    BY <1>6 DEF DirectionFits
  <2>1. PICK g \in Nat, b \in Nat, w \in Nat : UnitsFit(d, g, b, w)
    BY DEF SockInv, DirectionFits
  <2>2. w = a
    BY <1>2, <1>4, <1>9, <2>1 DEF UnitsFit, Writer
  <2>3. \A j \in SockIds : /\ Writer(j, d)' <=> Writer(j, d)
                           /\ Reading(j, d)' <=> Reading(j, d)
                           /\ Reading(j, d) => sockIo'[j] = sockIo[j]
    BY <1>7, <1>8, <1>18 DEF Writer, Reading, OutOf, Into
  <2>4. \A j \in SockIds : Writer(j, d) => j = i
    BY <1>2, <1>3, <1>4, EndsAre DEF SockInv
  <2>5. stream'[d] = Units(b, a + n)
    <3>1. b <= a /\ a <= a + n /\ a + n \in Nat /\ stream[d] = Units(b, a)
      BY <1>9, <2>1, <2>2 DEF UnitsFit
    <3>2. Units(b, a) \o Units(a, a + n) = Units(b, a + n)
      BY <3>1, UnitsJoin
    <3> QED BY <1>16, <3>1, <3>2
  <2>6. g <= b /\ b <= a + n /\ a + n \in Nat
    BY <1>9, <2>1, <2>2 DEF UnitsFit
  <2>7. \A j \in SockIds : Writer(j, d)' => a + n = Accepted(j)'
    BY <1>10, <2>3, <2>4
  <2>8. ~(\A j \in SockIds : ~Writer(j, d)')
    BY <1>2, <1>4, <2>3 DEF Writer
  <2>9. UnitsFit(d, g, b, a + n)'
    BY <1>6, <2>1, <2>3, <2>5, <2>6, <2>7, <2>8 DEF UnitsFit
  <2> QED BY <2>6, <2>9
<1> QED BY <1>15, <1>17, <1>19, <1>20 DEF SockInv

\* A failed write takes the direction out of what is claimed.
LEMMA WriteFailsKeeps ==
  ASSUME SockInv, NEW i \in SockIds, WriteFails(i) PROVE SockInv'
<1>1. /\ sockIo[i].op = "write" /\ sockConn[i] # NoSock
      /\ ioFailed' = ioFailed \cup {OutOf(i)} /\ sockIo' = [sockIo EXCEPT ![i] = NoIo]
      /\ UNCHANGED <<setupVars, modeVars>>
      /\ stream' = stream /\ got' = got /\ noWrites' = noWrites /\ wouldBlock' = wouldBlock
  BY CallIs DEF WriteFails
<1>2. SockTypes
  BY DEF SockInv
<1>3. /\ sockIo'[i] = NoIo /\ \A j \in SockIds \ {i} : sockIo'[j] = sockIo[j]
      /\ sockIo' = [j \in SockIds |-> sockIo'[j]]
  BY <1>1, <1>2, IoChanged
<1>4. sockHeld' = sockHeld /\ sockConn' = sockConn /\ askedNonBlock' = askedNonBlock
  BY <1>1 DEF setupVars, modeVars
<1>5. IoFits(i)'
  BY <1>1, <1>3, <1>4 DEF IoFits
<1>6. ShortReadHasCause'
  BY <1>1, <1>4 DEF SockInv, ModesFit, ShortReadHasCause
<1>7. /\ ModesFit' /\ EndsFit' /\ \A j \in SockIds : IoFits(j)'
      /\ UNCHANGED <<sockFd, sockHeld, listener, sockConn, connecting, answer, pending,
                     nonBlock, askedNonBlock>>
  BY <1>1, <1>3, <1>5, <1>6, SetupStays
<1>8. OutOf(i) \in Directions
  BY <1>1, <1>2, EndsAre DEF SockInv
<1>9. SockTypes'
  BY <1>1, <1>2, <1>3, <1>7, <1>8 DEF SockTypes
<1>10. ASSUME NEW d \in Directions PROVE DirectionFits(d)'
  <2>1. CASE d = OutOf(i)
    BY <1>1, <2>1 DEF DirectionFits
  <2>2. CASE d # OutOf(i)
    <3>1. ~Reading(i, d) /\ ~Reading(i, d)' /\ ~Writer(i, d)
      BY <1>1, <1>3, <2>2 DEF Reading, Writer, NoIo
    <3> QED BY <1>1, <1>3, <1>4, <3>1, DirectionKept
  <2> QED BY <2>1, <2>2
<1> QED BY <1>7, <1>9, <1>10 DEF SockInv

-----------------------------------------------------------------------------
(* The sockets: reading *)

\* What a step of a read does to its own direction, in units ...
LEMMA ReadFits ==
  ASSUME SockInv, NEW i \in SockIds, sockConn[i] # NoSock, NEW d \in Directions, d = Into(i),
         sockConn' = sockConn, noWrites' = noWrites,
         \A j \in SockIds \ {i} : sockIo'[j] = sockIo[j],
         NEW g \in Nat, NEW b \in Nat, NEW w \in Nat, UnitsFit(d, g, b, w),
         NEW g2 \in Nat, NEW b2 \in Nat, g2 <= b2, b2 <= w,
         got'[d] = Units(0, g2), stream'[d] = Units(b2, w),
         IF sockIo'[i].op = "read" THEN sockIo'[i].buf = Units(g2, b2) ELSE g2 = b2
  PROVE  UnitsFit(d, g2, b2, w)'
<1>1. Into(i) # OutOf(i) /\ \A j \in SockIds : Reading(j, d) => j = i
  BY EndsAre DEF SockInv, Reading
<1>2. \A j \in SockIds : Writer(j, d)' <=> Writer(j, d)
  BY DEF Writer, OutOf
<1>3. \A j \in SockIds : Writer(j, d) => j # i
  BY <1>1 DEF Writer
<1>4. \A j \in SockIds \ {i} : Accepted(j)' = Accepted(j) /\ (Reading(j, d)' <=> Reading(j, d))
  BY DEF Accepted, Reading, Into
<1>5. Reading(i, d)' <=> sockIo'[i].op = "read"
  BY DEF Reading, Into
<1>6. \A j \in SockIds : Reading(j, d)' => j = i
  BY <1>1, <1>4
<1>7. \A j \in SockIds : Writer(j, d)' => w = Accepted(j)'
  BY <1>2, <1>3, <1>4 DEF UnitsFit
<1>8. (\A j \in SockIds : ~Writer(j, d)') => w = 0
  BY <1>2 DEF UnitsFit
<1>9. /\ \A j \in SockIds : Reading(j, d)' => sockIo'[j].buf = Units(g2, b2)
      /\ (\A j \in SockIds : ~Reading(j, d)') => g2 = b2
  BY <1>5, <1>6
<1> QED BY <1>7, <1>8, <1>9 DEF UnitsFit

\* ... and to everything else.
LEMMA ReadKeeps ==
  ASSUME SockInv, NEW i \in SockIds, sockConn[i] # NoSock, i \in sockHeld,
         NEW d \in Directions, d = Into(i), sockIo[i].op # "write",
         NEW e, e = NoIo \/ (\E s \in Seq(Nat) : e = [op |-> "read", buf |-> s]),
         sockIo' = [sockIo EXCEPT ![i] = e],
         NEW t \in Seq(Nat), stream' = [stream EXCEPT ![d] = t],
         NEW u \in Seq(Nat), got' = [got EXCEPT ![d] = u],
         UNCHANGED <<setupVars, modeVars>>, noWrites' = noWrites,
         ioFailed \subseteq ioFailed', ioFailed' \in SUBSET Directions,
         wouldBlock' = wouldBlock \/ (wouldBlock' = wouldBlock \cup {i} /\ i \in nonBlock),
         DirectionFits(d)'
  PROVE  SockInv'
<1>1. SockTypes /\ IoFits(i)
  BY DEF SockInv
<1>2. /\ sockIo'[i] = e /\ \A j \in SockIds \ {i} : sockIo'[j] = sockIo[j]
      /\ sockIo' = [j \in SockIds |-> sockIo'[j]]
  BY <1>1, IoChanged
<1>3. sockHeld' = sockHeld /\ sockConn' = sockConn /\ askedNonBlock' = askedNonBlock
  BY DEF setupVars, modeVars
<1>4. IoFits(i)'
  BY <1>2, <1>3 DEF IoFits
<1>5. ShortReadHasCause'
  BY <1>3 DEF SockInv, ModesFit, ShortReadHasCause
<1>6. /\ ModesFit' /\ EndsFit' /\ \A j \in SockIds : IoFits(j)'
      /\ UNCHANGED <<sockFd, sockHeld, listener, sockConn, connecting, answer, pending,
                     nonBlock, askedNonBlock>>
  BY <1>2, <1>4, <1>5, SetupStays
<1>7. /\ stream' \in [Directions -> Seq(Nat)] /\ got' \in [Directions -> Seq(Nat)]
      /\ \A f \in Directions \ {d} : stream'[f] = stream[f] /\ got'[f] = got[f]
  <2>1. stream \in [Directions -> Seq(Nat)] /\ got \in [Directions -> Seq(Nat)]
    BY <1>1 DEF SockTypes
  <2> QED BY <2>1
<1>8. SockTypes'
  <2>1. wouldBlock' \in SUBSET SockIds
    BY <1>1 DEF SockTypes
  <2> QED BY <1>1, <1>2, <1>6, <1>7, <2>1 DEF SockTypes
<1>9. Accepted(i)' = Accepted(i)
  <2>1. e.op # "write"
    BY DEF NoIo
  <2> QED BY <1>2, <2>1 DEF Accepted
<1>10. ASSUME NEW f \in Directions \ {d} PROVE DirectionFits(f)'
  <2>1. ~Reading(i, f) /\ ~Reading(i, f)'
    BY <1>3 DEF Reading, Into
  <2> QED BY <1>2, <1>3, <1>7, <1>9, <2>1, DirectionKept
<1> QED BY <1>6, <1>8, <1>10 DEF SockInv

\* The function that assigns what it has.
LEMMA SameAt == ASSUME NEW S, NEW T, NEW f \in [S -> T], NEW x \in S PROVE f = [f EXCEPT ![x] = f[x]]
OBVIOUS

LEMMA ReadStartsKeeps ==
  ASSUME SockInv, NEW i \in SockIds, ReadStarts(i) PROVE SockInv'
<1> DEFINE e == [op |-> "read", buf |-> << >>]
<1>1. /\ i \in sockHeld /\ sockConn[i] # NoSock /\ sockIo[i] = NoIo
      /\ sockIo' = [sockIo EXCEPT ![i] = e] /\ UNCHANGED <<setupVars, modeVars>>
      /\ stream' = stream /\ got' = got /\ noWrites' = noWrites
      /\ ioFailed' = ioFailed /\ wouldBlock' = wouldBlock
  BY DEF ReadStarts, Starts
<1>2. SockTypes /\ stream \in [Directions -> Seq(Nat)] /\ got \in [Directions -> Seq(Nat)]
  BY DEF SockInv, SockTypes
<1>3. PICK d \in Directions : d = Into(i)
  BY <1>1, <1>2, EndsAre DEF SockInv
<1>4. sockIo'[i] = e /\ \A j \in SockIds \ {i} : sockIo'[j] = sockIo[j]
  BY <1>1, <1>2, IoChanged
<1>5. DirectionFits(d)'
  <2> SUFFICES ASSUME d \notin ioFailed
               PROVE  \E g, b, w \in Nat : UnitsFit(d, g, b, w)'
    BY <1>1 DEF DirectionFits
  <2>1. PICK g \in Nat, b \in Nat, w \in Nat : UnitsFit(d, g, b, w)
    BY DEF SockInv, DirectionFits
  <2>2. \A j \in SockIds : ~Reading(j, d)
    <3>1. \A j \in SockIds : Reading(j, d) => j = i
      BY <1>1, <1>2, <1>3, EndsAre DEF SockInv, Reading
    <3>2. ~Reading(i, d)
      BY <1>1 DEF Reading, NoIo
    <3> QED BY <3>1, <3>2
  <2>3. g = b /\ b <= w /\ got'[d] = Units(0, g) /\ stream'[d] = Units(b, w)
    BY <1>1, <2>1, <2>2 DEF UnitsFit
  <2>4. sockIo'[i].op = "read" /\ sockIo'[i].buf = Units(g, g)
    <3>1. Units(g, g) = << >>
      BY UnitsAre
    <3>2. e.op = "read" /\ e.buf = << >>
      OBVIOUS
    <3> HIDE DEF e
    <3> QED BY <1>4, <3>1, <3>2
  <2>5. sockConn' = sockConn
    BY <1>1 DEF setupVars
  <2>6. UnitsFit(d, g, g, w)'
    BY <1>1, <1>3, <1>4, <2>1, <2>3, <2>4, <2>5, ReadFits
  <2> QED BY <2>6
<1>6. stream' = [stream EXCEPT ![d] = stream[d]] /\ got' = [got EXCEPT ![d] = got[d]]
  BY <1>1, <1>2, SameAt
<1>7. stream[d] \in Seq(Nat) /\ got[d] \in Seq(Nat) /\ ioFailed' \in SUBSET Directions
  BY <1>1, <1>2 DEF SockTypes
<1>8. sockIo[i].op # "write" /\ \E s \in Seq(Nat) : e = [op |-> "read", buf |-> s]
  <2>1. << >> \in Seq(Nat) /\ sockIo[i].op # "write"
    BY <1>1 DEF NoIo
  <2> QED BY <2>1
<1> HIDE DEF e
<1> QED BY <1>1, <1>3, <1>5, <1>6, <1>7, <1>8, ReadKeeps

\* The loop of radSocketReadExact goes on, or fills its buffer.
LEMMA ReadSomeKeeps ==
  ASSUME SockInv, NEW i \in SockIds, ReadSome(i) PROVE SockInv'
<1>1. PICK s \in Seq(Nat) : sockIo[i] = [op |-> "read", buf |-> s]
  BY CallIs DEF ReadSome
<1>2. i \in sockHeld /\ sockConn[i] # NoSock
  BY <1>1, CallIs
<1>3. SockTypes /\ stream \in [Directions -> Seq(Nat)] /\ got \in [Directions -> Seq(Nat)]
  BY DEF SockInv, SockTypes
<1>4. PICK d \in Directions : d = Into(i)
  BY <1>2, <1>3, EndsAre DEF SockInv
<1>5. PICK v \in Seq(Nat), u \in Seq(Nat) : v = stream[d] /\ u = got[d]
  BY <1>3
<1>6. PICK n \in 1..Len(v) :
        /\ stream' = [stream EXCEPT ![d] = SubSeq(v, n + 1, Len(v))]
        /\ IF Len(s \o SubSeq(v, 1, n)) = IoLen
           THEN /\ got' = [got EXCEPT ![d] = u \o (s \o SubSeq(v, 1, n))]
                /\ sockIo' = [sockIo EXCEPT ![i] = NoIo] /\ wouldBlock' = wouldBlock
           ELSE /\ sockIo' = [sockIo EXCEPT ![i].buf = s \o SubSeq(v, 1, n)]
                /\ got' = got /\ wouldBlock' = wouldBlock
  <2>1. sockIo[i].buf = s
    BY <1>1
  <2> QED BY <1>4, <1>5, <2>1 DEF ReadSome, ReadReturns
<1>7. PICK now : now = s \o SubSeq(v, 1, n)
  OBVIOUS
<1>8. /\ now \in Seq(Nat) /\ u \o now \in Seq(Nat) /\ SubSeq(v, n + 1, Len(v)) \in Seq(Nat)
  <2>1. SubSeq(v, 1, n) \in Seq(Nat) /\ SubSeq(v, n + 1, Len(v)) \in Seq(Nat)
    BY SubSeqProperties
  <2>2. now \in Seq(Nat)
    BY <1>7, <2>1, ConcatProperties
  <2>3. u \o now \in Seq(Nat)
    BY <2>2, ConcatProperties
  <2> QED BY <2>1, <2>2, <2>3
<1>9. PICK e, x : /\ sockIo' = [sockIo EXCEPT ![i] = e] /\ got' = [got EXCEPT ![d] = x]
                  /\ \/ e = NoIo /\ x = u \o now
                     \/ e = [op |-> "read", buf |-> now] /\ x = u
  <2>1. CASE Len(now) = IoLen
    BY <1>6, <1>7, <2>1
  <2>2. CASE Len(now) # IoLen
    <3>1. sockIo' = [sockIo EXCEPT ![i] = [sockIo[i] EXCEPT !.buf = now]] /\ got' = got
      BY <1>6, <1>7, <2>2
    <3>2. [sockIo[i] EXCEPT !.buf = now] = [op |-> "read", buf |-> now]
      BY <1>1
    <3>3. got' = [got EXCEPT ![d] = u]
      BY <1>3, <1>5, <3>1, SameAt
    <3> QED BY <3>1, <3>2, <3>3
  <2> QED BY <2>1, <2>2
<1>10. /\ UNCHANGED <<setupVars, modeVars>> /\ sockConn' = sockConn
       /\ noWrites' = noWrites /\ ioFailed' = ioFailed /\ wouldBlock' = wouldBlock
  BY <1>6 DEF ReadSome, setupVars
<1>11. sockIo'[i] = e /\ \A j \in SockIds \ {i} : sockIo'[j] = sockIo[j]
  BY <1>3, <1>9, IoChanged
<1>12. stream'[d] = SubSeq(v, n + 1, Len(v)) /\ got'[d] = x
  BY <1>3, <1>6, <1>9
<1>13. DirectionFits(d)'
  <2> SUFFICES ASSUME d \notin ioFailed
               PROVE  \E g, b, w \in Nat : UnitsFit(d, g, b, w)'
    BY <1>10 DEF DirectionFits
  <2>1. PICK g \in Nat, b \in Nat, w \in Nat : UnitsFit(d, g, b, w)
    BY DEF SockInv, DirectionFits
  <2>2. /\ g <= b /\ b <= w /\ u = Units(0, g) /\ v = Units(b, w) /\ s = Units(g, b)
    <3>1. Reading(i, d) /\ sockIo[i].buf = s
      BY <1>1, <1>2, <1>4 DEF Reading
    <3> QED BY <1>5, <2>1, <3>1 DEF UnitsFit
  <2>3. n \in 0..(w - b) /\ b + n \in Nat /\ b <= b + n /\ b + n <= w
    <3>1. Len(v) = w - b
      BY <2>2, UnitsAre
    <3> QED BY <2>2, <3>1
  <2>4. SubSeq(v, 1, n) = Units(b, b + n) /\ SubSeq(v, n + 1, Len(v)) = Units(b + n, w)
    BY <2>2, <2>3, UnitsCut
  <2>5. now = Units(g, b + n)
    BY ZenonT(60), <1>7, <2>2, <2>3, <2>4, UnitsJoin
  <2>6. CASE e = NoIo /\ x = u \o now
    <3>1. 0 <= g /\ g <= b + n /\ 0 \in Nat /\ b + n <= b + n
      BY <2>2, <2>3
    <3>2. got'[d] = Units(0, b + n)
      BY <1>12, <2>2, <2>3, <2>5, <2>6, <3>1, UnitsJoin
    <3>3. sockIo'[i].op # "read"
      BY <1>11, <2>6 DEF NoIo
    <3>4. UnitsFit(d, b + n, b + n, w)'
      BY <1>2, <1>4, <1>10, <1>11, <1>12, <2>1, <2>3, <2>4, <3>1, <3>2, <3>3, ReadFits
    <3> QED BY <2>3, <3>4
  <2>7. CASE e = [op |-> "read", buf |-> now] /\ x = u
    <3>1. g <= b + n
      BY <2>2, <2>3
    <3>2. sockIo'[i].op = "read" /\ sockIo'[i].buf = Units(g, b + n)
      BY <1>11, <2>5, <2>7
    <3>3. got'[d] = Units(0, g)
      BY <1>12, <2>2, <2>7
    <3>4. UnitsFit(d, g, b + n, w)'
      BY <1>2, <1>4, <1>10, <1>11, <1>12, <2>1, <2>3, <2>4, <3>1, <3>2, <3>3, ReadFits
    <3> QED BY <2>3, <3>4
  <2> QED BY <1>9, <2>6, <2>7
<1>14. sockIo[i].op # "write"
  BY <1>1
<1>15. x \in Seq(Nat) /\ (e = NoIo \/ \E y \in Seq(Nat) : e = [op |-> "read", buf |-> y])
  BY <1>8, <1>9
<1>16. ioFailed \subseteq ioFailed' /\ ioFailed' \in SUBSET Directions
  BY <1>3, <1>10 DEF SockTypes
<1> QED BY <1>2, <1>4, <1>6, <1>8, <1>9, <1>10, <1>13, <1>14, <1>15, <1>16, ReadKeeps

\* The ways out of a read that is not complete: with what there is, or with an error.
LEMMA ReadEndsKeeps ==
  ASSUME SockInv, NEW i \in SockIds, ReadStops(i) \/ ReadFails(i) PROVE SockInv'
<1>1. PICK s \in Seq(Nat) : sockIo[i] = [op |-> "read", buf |-> s]
  BY CallIs DEF ReadStops, ReadFails
<1>2. i \in sockHeld /\ sockConn[i] # NoSock
  BY <1>1, CallIs
<1>3. SockTypes /\ stream \in [Directions -> Seq(Nat)] /\ got \in [Directions -> Seq(Nat)]
  BY DEF SockInv, SockTypes
<1>4. PICK d \in Directions : d = Into(i)
  BY <1>2, <1>3, EndsAre DEF SockInv
<1>5. PICK x \in Seq(Nat) :
        /\ got' = [got EXCEPT ![d] = x] /\ sockIo' = [sockIo EXCEPT ![i] = NoIo]
        /\ \/ x = got[d] \o s /\ ioFailed' = ioFailed
           \/ ioFailed' = ioFailed \cup {d}
        /\ wouldBlock' = wouldBlock \/ (wouldBlock' = wouldBlock \cup {i} /\ i \in nonBlock)
  <2>1. sockIo[i].buf = s /\ got[d] \in Seq(Nat)
    BY <1>1, <1>3
  <2>2. got[d] \o s \in Seq(Nat) /\ got[d] \o << >> \in Seq(Nat)
    BY <2>1, ConcatProperties
  <2>3. CASE ReadStops(i)
    BY <1>4, <2>1, <2>2, <2>3 DEF ReadStops, ReadReturns, ReadSoFar
  <2>4. CASE ReadFails(i)
    BY <1>4, <2>1, <2>2, <2>4 DEF ReadFails, ReadReturns
  <2> QED BY <2>3, <2>4
<1>6. /\ UNCHANGED <<setupVars, modeVars>> /\ sockConn' = sockConn
      /\ noWrites' = noWrites /\ stream' = stream
  BY DEF ReadStops, ReadFails, setupVars
<1>7. sockIo'[i] = NoIo /\ \A j \in SockIds \ {i} : sockIo'[j] = sockIo[j]
  BY <1>3, <1>5, IoChanged
<1>8. got'[d] = x
  BY <1>3, <1>5
<1>9. DirectionFits(d)'
  <2> SUFFICES ASSUME d \notin ioFailed'
               PROVE  \E g, b, w \in Nat : UnitsFit(d, g, b, w)'
    BY DEF DirectionFits
  <2>1. d \notin ioFailed /\ x = got[d] \o s
    BY <1>5
  <2>2. PICK g \in Nat, b \in Nat, w \in Nat : UnitsFit(d, g, b, w)
    BY <2>1 DEF SockInv, DirectionFits
  <2>3. g <= b /\ b <= w /\ got[d] = Units(0, g) /\ stream[d] = Units(b, w) /\ s = Units(g, b)
    <3>1. Reading(i, d) /\ sockIo[i].buf = s
      BY <1>1, <1>2, <1>4 DEF Reading
    <3> QED BY <2>2, <3>1 DEF UnitsFit
  <2>4. got'[d] = Units(0, b)
    <3>1. 0 <= g /\ 0 \in Nat
      OBVIOUS
    <3>2. Units(0, g) \o Units(g, b) = Units(0, b)
      BY <2>3, <3>1, UnitsJoin
    <3> QED BY <1>8, <2>1, <2>3, <3>2
  <2>5. sockIo'[i].op # "read"
    BY <1>7 DEF NoIo
  <2>6. UnitsFit(d, b, b, w)'
    <3>1. b <= b /\ stream'[d] = Units(b, w)
      BY <1>6, <2>3
    <3> QED BY <1>2, <1>4, <1>6, <1>7, <2>2, <2>3, <2>4, <2>5, <3>1, ReadFits
  <2> QED BY <2>6
<1>10. stream' = [stream EXCEPT ![d] = stream[d]] /\ stream[d] \in Seq(Nat)
  BY <1>3, <1>6, SameAt
<1>11. sockIo[i].op # "write"
  BY <1>1
<1>12. ioFailed \subseteq ioFailed' /\ ioFailed' \in SUBSET Directions
  BY <1>3, <1>5 DEF SockTypes
<1> QED BY <1>2, <1>4, <1>5, <1>6, <1>9, <1>10, <1>11, <1>12, ReadKeeps

-----------------------------------------------------------------------------
(* The sockets: the theorem *)

LEMMA SockInitInv == SockInit => SockInv
<1> SUFFICES ASSUME SockInit PROVE SockInv
  OBVIOUS
<1>1. SockTypes
  BY DEF SockInit, SockTypes
<1>2. ModesFit
  BY DEF SockInit, ModesFit, NoDescriptorLost, ShortReadHasCause
<1>3. \A i \in SockIds : sockConn[i] = NoSock /\ i # NoSock
  BY SockAssumption DEF SockInit
<1>4. EndsFit
  BY <1>3 DEF SockInit, EndsFit, Accepter
<1>5. \A i \in SockIds : IoFits(i)
  BY DEF SockInit, IoFits
<1>6. ASSUME NEW d \in Directions PROVE DirectionFits(d)
  <2>1. stream[d] = Units(0, 0) /\ got[d] = Units(0, 0)
    BY UnitsAre DEF SockInit
  <2>2. \A i \in SockIds : ~Writer(i, d) /\ ~Reading(i, d)
    BY <1>3 DEF Writer, Reading
  <2>3. UnitsFit(d, 0, 0, 0)
    BY <2>1, <2>2 DEF UnitsFit
  <2> QED BY <2>3 DEF DirectionFits
<1> QED BY <1>1, <1>2, <1>4, <1>5, <1>6 DEF SockInv

LEMMA SockStep == SockInv /\ [SockNext]_sockVars => SockInv'
<1> SUFFICES ASSUME SockInv, [SockNext]_sockVars PROVE SockInv'
  OBVIOUS
<1>1. CASE SockNext
  <2> PICK i \in SockIds :
        \/ radSocketServerCreate(i) \/ radSocketServerAcceptConnection(i)
        \/ radSocketClientCreate(i) \/ ConnectAnswered(i) \/ radSocketDestroy(i)
        \/ \E b \in BOOLEAN : radSocketSetBlocking(i, b)
        \/ radSocketWriteExact(i) \/ radSocketReadExact(i)
    BY <1>1 DEF SockNext
  <2>1. CASE radSocketServerCreate(i)
    BY <2>1, ServerCreateKeeps
  <2>2. CASE radSocketServerAcceptConnection(i)
    BY <2>2, AcceptKeeps
  <2>3. CASE radSocketClientCreate(i)
    BY <2>3, ConnectsKeeps, ClientEndsKeeps DEF radSocketClientCreate
  <2>4. CASE ConnectAnswered(i)
    BY <2>4, AnsweredKeeps
  <2>5. CASE radSocketDestroy(i)
    BY <2>5, DestroyKeeps
  <2>6. CASE \E b \in BOOLEAN : radSocketSetBlocking(i, b)
    BY <2>6, BlockingKeeps
  <2>7. CASE radSocketWriteExact(i)
    BY <2>7, WriteStartsKeeps, WriteSomeKeeps, WriteFailsKeeps DEF radSocketWriteExact
  <2>8. CASE radSocketReadExact(i)
    BY <2>8, ReadStartsKeeps, ReadSomeKeeps, ReadEndsKeeps DEF radSocketReadExact
  <2> QED BY <2>1, <2>2, <2>3, <2>4, <2>5, <2>6, <2>7, <2>8
<1>2. CASE UNCHANGED sockVars
  <2>1. UNCHANGED <<sockFd, sockHeld, listener, sockConn, connecting, answer, pending, nonBlock,
                    askedNonBlock, sockIo, stream, got, noWrites, ioFailed, wouldBlock>>
    BY <1>2 DEF sockVars
  <2>2. SockTypes'
    BY <2>1 DEF SockInv, SockTypes
  <2>3. ModesFit' /\ EndsFit'
    BY <2>1 DEF SockInv, ModesFit, NoDescriptorLost, ShortReadHasCause, EndsFit, Accepter
  <2>4. (\A i \in SockIds : IoFits(i)') /\ \A d \in Directions : DirectionFits(d)'
    BY SMTT(30), <2>1, DataStays
  <2> QED BY <2>2, <2>3, <2>4 DEF SockInv
<1> QED BY <1>1, <1>2

\* What the invariant says of a direction is what the writer's calls wrote.
LEMMA DirectionsWhole == SockInv => StreamWhole
<1> SUFFICES ASSUME SockInv, NEW i \in SockIds, sockConn[i] # NoSock, OutOf(i) \notin ioFailed
             PROVE  LET held == {j \in OtherEnd(i) : sockIo[j].op = "read"}
                        buf == IF held = {} THEN << >> ELSE sockIo[CHOOSE j \in held : TRUE].buf
                    IN  got[OutOf(i)] \o buf \o stream[OutOf(i)] = [k \in 1..Accepted(i) |-> k]
  BY DEF StreamWhole
<1> DEFINE held == {j \in OtherEnd(i) : sockIo[j].op = "read"}
           buf == IF held = {} THEN << >> ELSE sockIo[CHOOSE j \in held : TRUE].buf
<1>1. PICK d \in Directions : d = OutOf(i) /\ \A j \in SockIds : Writer(j, d) => j = i
  BY EndsAre DEF SockInv
<1>2. PICK g \in Nat, b \in Nat, w \in Nat : UnitsFit(d, g, b, w)
  BY <1>1 DEF SockInv, DirectionFits
<1>3. \A j \in SockIds : Reading(j, d) <=> j \in held
  <2> SUFFICES ASSUME NEW j \in SockIds
               PROVE  (sockConn[j] # NoSock /\ Into(j) = d) <=> j \in OtherEnd(i)
    BY DEF Reading
  <2>1. sockConn[j] # NoSock /\ Into(j) = d => j \in OtherEnd(i)
    BY <1>1 DEF Into, OutOf, OtherEnd
  <2>2. ASSUME j # i, sockConn[j] = sockConn[i] PROVE Into(j) = d
    <3>1. CASE sockConn[i] = i
      BY <1>1, <2>2, <3>1 DEF Into, OutOf
    <3>2. CASE sockConn[i] # i
      <4>1. sockConn[j] = j
        BY <2>2, <3>2 DEF SockInv, EndsFit, Accepter
      <4> QED BY <1>1, <2>2, <3>2, <4>1 DEF Into, OutOf
    <3> QED BY <3>1, <3>2
  <2> QED BY <2>1, <2>2 DEF OtherEnd
<1>4. g <= b /\ b <= w /\ got[d] = Units(0, g) /\ stream[d] = Units(b, w) /\ w = Accepted(i)
  BY <1>1, <1>2 DEF UnitsFit, Writer
<1>5. buf = Units(g, b)
  <2>1. held \subseteq SockIds
    BY DEF OtherEnd
  <2>2. CASE held = {}
    <3>1. g = b
      BY <1>2, <1>3, <2>2 DEF UnitsFit
    <3> QED BY <2>2, <3>1, UnitsAre
  <2>3. CASE held # {}
    <3>1. PICK j \in SockIds : j = (CHOOSE k \in held : TRUE) /\ j \in held
      BY <2>1, <2>3
    <3>2. sockIo[j].buf = Units(g, b)
      BY <1>2, <1>3, <3>1 DEF UnitsFit
    <3> QED BY <2>3, <3>1, <3>2
  <2> QED BY <2>2, <2>3
<1>6. Units(0, g) \o Units(g, b) \o Units(b, w) = Units(0, w)
  <2>1. 0 \in Nat /\ 0 <= g /\ 0 <= b
    OBVIOUS
  <2>2. Units(0, g) \o Units(g, b) = Units(0, b)
    BY <1>4, <2>1, UnitsJoin
  <2>3. Units(0, b) \o Units(b, w) = Units(0, w)
    BY <1>4, <2>1, UnitsJoin
  <2> QED BY <2>2, <2>3
<1>7. Units(0, w) = [k \in 1..w |-> k]
  <2>1. w - 0 = w /\ \A k \in 1..w : 0 + k = k
    OBVIOUS
  <2> QED BY <2>1 DEF Units
<1> HIDE DEF buf
<1>8. got[OutOf(i)] \o buf \o stream[OutOf(i)] = [k \in 1..Accepted(i) |-> k]
  BY <1>1, <1>4, <1>5, <1>6, <1>7
<1> QED BY <1>8 DEF buf

\* radsocket.c, for any number of sockets, any length of a call, any room in the
\* kernel and however calls are interrupted, refused or cut short: until a call
\* returns ERROR, the readers were handed what the writer's calls wrote, in order
\* and in full but for what is under way; no descriptor is lost on the way out of a
\* create; and a read stops for want of data only when its caller asked for it.
THEOREM ConnectionsStay == SockSpec => []ConnectionsKept
<1>1. SockInv => ConnectionsKept
  BY DirectionsWhole DEF SockInv, ModesFit, ConnectionsKept
<1> QED BY <1>1, SockInitInv, SockStep, PTL DEF SockSpec

-----------------------------------------------------------------------------
(* The timers: the inductive invariant *)

TimerCells == THead .. TTail

TimerTypes ==
    /\ tNext \in [TimerCells -> TimerCells \cup {Nil}]
    /\ tPrev \in [TimerCells -> TimerCells \cup {Nil}]
    /\ tDelta \in [TimerCells -> Int] /\ tPending \in [TimerCells -> BOOLEAN]
    /\ tInUse \in SUBSET TimerIds /\ tFree \in TimerIds \cup {Nil}
    /\ alarm \in Int /\ elapsed \in Int /\ ticksLeft \in Int

\* c goes from head to tail over the m timers that are pending, each once, and prev
\* leads back along next.
ChainOf(next, prev, pend, m, c) ==
    /\ c \in [0..(m + 1) -> TimerCells] /\ c[0] = THead /\ c[m + 1] = TTail
    /\ \A i \in 1..m : c[i] \in TimerIds /\ pend[c[i]]
    /\ \A t \in TimerIds : pend[t] => \E i \in 1..m : c[i] = t
    /\ \A i \in 0..m : next[c[i]] = c[i + 1] /\ prev[c[i + 1]] = c[i]
    /\ \A i, j \in 0..(m + 1) : c[i] = c[j] => i = j

ListFits ==
    \E m \in 0..NumTimers : \E c \in [0..(m + 1) -> TimerCells] :
        ChainOf(tNext, tPrev, tPending, m, c)

\* The free list starts at tFree, stays among the timers nobody holds, and never
\* meets itself.
Unheld == TimerIds \ tInUse
FreeFits ==
    /\ tFree # Nil => tFree \in Unheld
    /\ \A t \in Unheld : tNext[t] # Nil => tNext[t] \in Unheld /\ tNext[t] # tFree
    /\ \A t, u \in Unheld : tNext[t] = tNext[u] /\ tNext[t] # Nil => t = u
    /\ \A t \in TimerIds : tPending[t] => t \in tInUse

\* Past radTimerStop's test a call unlinks a timer that still runs, with the signal
\* blocked; past the unlinking its timer is stopped.
TimerCallFits ==
    tPc # Idle =>
        /\ tPc \in [at : {"unlink", "start", "delete"}, timer : tInUse,
                    next : {"none", "start", "delete"}, time : Nat]
        /\ IF tPc.at = "unlink" THEN handler = "off" /\ tPending[tPc.timer]
           ELSE ~tPending[tPc.timer]

AlarmFits == (alarm = Nil \/ alarm > 0) /\ ListAttended

TimersInv == TimerTypes /\ ListFits /\ FreeFits /\ TimerCallFits /\ AlarmFits

-----------------------------------------------------------------------------
(* The timers: chains *)

LEMMA TimerCellsAre ==
  /\ NumTimers \in Nat \ {0} /\ THead = 0 /\ TTail = NumTimers + 1 /\ Nil = -1
  /\ TimerCells = 0..(NumTimers + 1) /\ TimerIds = 1..NumTimers
BY TimerAssumption DEF TimerCells, THead, TTail, Nil, TimerIds

\* A chain has room for every timer once.
LEMMA ChainShort ==
  ASSUME NEW next, NEW prev, NEW pend, NEW m \in Nat, NEW c, ChainOf(next, prev, pend, m, c)
  PROVE  m <= NumTimers
<1> DEFINE f == [i \in 1..m |-> c[i]]
<1>1. f \in Injection(1..m, TimerIds)
  <2>1. \A i \in 1..m : f[i] \in TimerIds
    BY DEF ChainOf
  <2>2. f \in [1..m -> TimerIds]
    BY <2>1
  <2>3. \A i, j \in 1..m : f[i] = f[j] => i = j
    BY DEF ChainOf
  <2> HIDE DEF f
  <2> QED BY <2>2, <2>3 DEF Injection, IsInjective
<1>2. IsFiniteSet(TimerIds) /\ Cardinality(TimerIds) = NumTimers
  <2>1. NumTimers \in Int /\ 1 \in Int /\ NumTimers > 0
    BY TimerCellsAre
  <2>2. IsFiniteSet(1..NumTimers) /\ Cardinality(1..NumTimers) = NumTimers
    BY <2>1, FS_Interval
  <2> QED BY <2>2 DEF TimerIds
<1>3. Cardinality(1..m) = m
  <2>1. Cardinality(1..m) = IF 1 > m THEN 0 ELSE m - 1 + 1
    BY FS_Interval
  <2> QED BY <2>1
<1>4. Cardinality(1..m) <= Cardinality(TimerIds)
  <2> HIDE DEF f
  <2> QED BY <1>1, <1>2, FS_Injection
<1> QED BY <1>2, <1>3, <1>4

\* Taking the k-th timer off.
LEMMA ChainDelete ==
  ASSUME NEW next \in [TimerCells -> TimerCells \cup {Nil}],
         NEW prev \in [TimerCells -> TimerCells \cup {Nil}], NEW pend \in [TimerCells -> BOOLEAN],
         NEW m \in Nat, NEW c, ChainOf(next, prev, pend, m, c), NEW k \in 1..m
  PROVE  /\ m - 1 \in Nat
         /\ \E d \in [0..((m - 1) + 1) -> TimerCells] :
              ChainOf([next EXCEPT ![c[k - 1]] = c[k + 1]], [prev EXCEPT ![c[k + 1]] = c[k - 1]],
                      [pend EXCEPT ![c[k]] = FALSE], m - 1, d)
<1> DEFINE d == [i \in 0..((m - 1) + 1) |-> IF i < k THEN c[i] ELSE c[i + 1]]
           nx == [next EXCEPT ![c[k - 1]] = c[k + 1]]
           pv == [prev EXCEPT ![c[k + 1]] = c[k - 1]]
           pd == [pend EXCEPT ![c[k]] = FALSE]
<1>1. /\ m - 1 \in Nat /\ k - 1 \in 0..m /\ k \in 0..(m + 1) /\ k + 1 \in 0..(m + 1) /\ k \in Int
      /\ \A i \in 0..((m - 1) + 1) : /\ i \in 0..(m + 1) /\ i + 1 \in 0..(m + 1)
                                     /\ i < k => i \in 0..m
  OBVIOUS
<1>2. /\ c \in [0..(m + 1) -> TimerCells] /\ c[0] = THead /\ c[m + 1] = TTail
      /\ \A i, j \in 0..(m + 1) : c[i] = c[j] => i = j
  BY DEF ChainOf
<1>3. d \in [0..((m - 1) + 1) -> TimerCells]
  BY <1>1, <1>2
<1>4. /\ \A i \in 0..((m - 1) + 1) : d[i] = IF i < k THEN c[i] ELSE c[i + 1]
      /\ \A x \in TimerCells : nx[x] = IF x = c[k - 1] THEN c[k + 1] ELSE next[x]
      /\ \A x \in TimerCells : pv[x] = IF x = c[k + 1] THEN c[k - 1] ELSE prev[x]
      /\ \A x \in TimerCells : pd[x] = IF x = c[k] THEN FALSE ELSE pend[x]
  BY <1>1, <1>2
<1> HIDE DEF d, nx, pv, pd
<1>5. d[0] = THead /\ d[(m - 1) + 1] = TTail
  BY <1>1, <1>2, <1>4
<1>6. ASSUME NEW i \in 1..(m - 1) PROVE d[i] \in TimerIds /\ pd[d[i]]
  <2>1. PICK j \in 1..m : d[i] = c[j] /\ j # k
    <3>1. CASE i < k
      BY <3>1, <1>1, <1>4
    <3>2. CASE ~(i < k)
      BY <3>2, <1>1, <1>4
    <3> QED BY <3>1, <3>2
  <2>2. c[j] # c[k] /\ c[j] \in TimerCells
    BY <2>1, <1>1, <1>2
  <2>3. c[j] \in TimerIds /\ pend[c[j]]
    BY DEF ChainOf
  <2> QED BY <2>1, <2>2, <2>3, <1>4
<1>7. ASSUME NEW t \in TimerIds, pd[t] PROVE \E i \in 1..(m - 1) : d[i] = t
  <2>1. t \in TimerCells
    BY TimerCellsAre
  <2>2. t # c[k] /\ pend[t]
    BY <1>7, <2>1, <1>4
  <2>3. PICK j \in 1..m : c[j] = t
    BY <2>2 DEF ChainOf
  <2>4. j # k
    BY <2>2, <2>3
  <2>5. CASE j < k
    <3>1. j \in 1..(m - 1) /\ d[j] = c[j]
      BY <2>5, <1>1, <1>4
    <3> QED BY <3>1, <2>3
  <2>6. CASE j > k
    <3>1. j - 1 \in 1..(m - 1) /\ j - 1 \in 0..((m - 1) + 1) /\ ~(j - 1 < k) /\ (j - 1) + 1 = j
      BY <2>6, <1>1
    <3>2. d[j - 1] = c[j]
      BY <3>1, <1>4
    <3> QED BY <3>1, <3>2, <2>3
  <2> QED BY <2>4, <2>5, <2>6, <1>1
<1>8. ASSUME NEW i \in 0..(m - 1) PROVE nx[d[i]] = d[i + 1] /\ pv[d[i + 1]] = d[i]
  <2>1. /\ \A j \in 0..m : next[c[j]] = c[j + 1] /\ prev[c[j + 1]] = c[j]
        /\ i \in 0..((m - 1) + 1) /\ i + 1 \in 0..((m - 1) + 1) /\ i \in Int
    BY DEF ChainOf
  <2>2. CASE i + 1 < k
    <3>1. i \in 0..m /\ d[i] = c[i] /\ d[i + 1] = c[i + 1] /\ i # k - 1 /\ i + 1 # k + 1 /\ i < k
      BY <2>1, <2>2, <1>1, <1>4
    <3>2. c[i] # c[k - 1] /\ c[i + 1] # c[k + 1] /\ c[i] \in TimerCells /\ c[i + 1] \in TimerCells
      BY <2>1, <3>1, <1>1, <1>2
    <3> QED BY <3>1, <3>2, <2>1, <1>4
  <2>3. CASE i + 1 = k
    <3>1. d[i] = c[k - 1] /\ d[i + 1] = c[k + 1] /\ c[k - 1] \in TimerCells /\ c[k + 1] \in TimerCells
      BY <2>1, <2>3, <1>1, <1>2, <1>4
    <3> QED BY <3>1, <1>4
  <2>4. CASE i + 1 > k
    <3>1. /\ i + 1 \in 0..m /\ d[i] = c[i + 1] /\ d[i + 1] = c[(i + 1) + 1]
          /\ i + 1 # k - 1 /\ (i + 1) + 1 # k + 1
      BY <2>1, <2>4, <1>1, <1>4
    <3>2. /\ c[i + 1] # c[k - 1] /\ c[(i + 1) + 1] # c[k + 1]
          /\ c[i + 1] \in TimerCells /\ c[(i + 1) + 1] \in TimerCells
      BY <2>1, <3>1, <1>1, <1>2
    <3> QED BY <3>1, <3>2, <2>1, <1>4
  <2> QED BY <2>1, <2>2, <2>3, <2>4, <1>1
<1>9. ASSUME NEW i \in 0..((m - 1) + 1), NEW j \in 0..((m - 1) + 1), d[i] = d[j] PROVE i = j
  <2> DEFINE posOf(n) == IF n < k THEN n ELSE n + 1
  <2>1. d[i] = c[posOf(i)] /\ d[j] = c[posOf(j)] /\ posOf(i) \in 0..(m + 1) /\ posOf(j) \in 0..(m + 1)
    BY <1>1, <1>4
  <2>2. posOf(i) = posOf(j)
    <3> HIDE DEF posOf
    <3> QED BY <2>1, <1>2, <1>9
  <2> QED BY <2>2, <1>1
<1>10. ChainOf(nx, pv, pd, m - 1, d)
  BY <1>3, <1>5, <1>6, <1>7, <1>8, <1>9 DEF ChainOf
<1> QED BY <1>1, <1>3, <1>10 DEF nx, pv, pd

\* Putting a stopped timer behind the k-th cell.
LEMMA ChainInsert ==
  ASSUME NEW next \in [TimerCells -> TimerCells \cup {Nil}],
         NEW prev \in [TimerCells -> TimerCells \cup {Nil}], NEW pend \in [TimerCells -> BOOLEAN],
         NEW m \in Nat, NEW c, ChainOf(next, prev, pend, m, c), NEW k \in 0..m,
         NEW t \in TimerIds, ~pend[t]
  PROVE  /\ m + 1 \in Nat
         /\ \E d \in [0..((m + 1) + 1) -> TimerCells] :
              ChainOf([next EXCEPT ![c[k]] = t, ![t] = c[k + 1]],
                      [prev EXCEPT ![t] = c[k], ![c[k + 1]] = t],
                      [pend EXCEPT ![t] = TRUE], m + 1, d)
<1> DEFINE d == [i \in 0..((m + 1) + 1) |-> IF i <= k THEN c[i] ELSE IF i = k + 1 THEN t ELSE c[i - 1]]
           nx == [next EXCEPT ![c[k]] = t, ![t] = c[k + 1]]
           pv == [prev EXCEPT ![t] = c[k], ![c[k + 1]] = t]
           pd == [pend EXCEPT ![t] = TRUE]
<1>1. /\ m + 1 \in Nat /\ k \in 0..(m + 1) /\ k + 1 \in 0..(m + 1) /\ k \in Int
      /\ \A i \in 0..((m + 1) + 1) : /\ i \in Int /\ i <= k => i \in 0..(m + 1)
                                     /\ i > k + 1 => i - 1 \in 0..(m + 1)
  OBVIOUS
<1>2. /\ c \in [0..(m + 1) -> TimerCells] /\ c[0] = THead /\ c[m + 1] = TTail
      /\ \A i, j \in 0..(m + 1) : c[i] = c[j] => i = j
  BY DEF ChainOf
<1>3. t \in TimerCells /\ t # THead /\ t # TTail
  BY TimerCellsAre
<1>4. \A i \in 0..(m + 1) : c[i] # t
  <2> SUFFICES ASSUME NEW i \in 0..(m + 1) PROVE c[i] # t
    OBVIOUS
  <2>1. i = 0 \/ i = m + 1 \/ i \in 1..m
    OBVIOUS
  <2>2. \A j \in 1..m : pend[c[j]]
    BY DEF ChainOf
  <2> QED BY <2>1, <2>2, <1>2, <1>3
<1>5. d \in [0..((m + 1) + 1) -> TimerCells]
  <2> SUFFICES ASSUME NEW i \in 0..((m + 1) + 1)
               PROVE  (IF i <= k THEN c[i] ELSE IF i = k + 1 THEN t ELSE c[i - 1]) \in TimerCells
    OBVIOUS
  <2>1. CASE i <= k
    BY <2>1, <1>1, <1>2
  <2>2. CASE i = k + 1
    BY <2>2, <1>1, <1>3
  <2>3. CASE i > k + 1
    BY <2>3, <1>1, <1>2
  <2> QED BY <2>1, <2>2, <2>3, <1>1
<1>6. /\ \A i \in 0..((m + 1) + 1) :
            d[i] = IF i <= k THEN c[i] ELSE IF i = k + 1 THEN t ELSE c[i - 1]
      /\ \A x \in TimerCells : nx[x] = IF x = t THEN c[k + 1] ELSE IF x = c[k] THEN t ELSE next[x]
      /\ \A x \in TimerCells : pv[x] = IF x = c[k + 1] THEN t ELSE IF x = t THEN c[k] ELSE prev[x]
      /\ \A x \in TimerCells : pd[x] = IF x = t THEN TRUE ELSE pend[x]
  BY <1>1, <1>2, <1>3
<1> HIDE DEF d, nx, pv, pd
<1>7. d[0] = THead /\ d[(m + 1) + 1] = TTail
  BY <1>1, <1>2, <1>6
<1>8. ASSUME NEW i \in 1..(m + 1) PROVE d[i] \in TimerIds /\ pd[d[i]]
  <2>1. \A j \in 1..m : c[j] \in TimerIds /\ pend[c[j]]
    BY DEF ChainOf
  <2>2. i \in 0..((m + 1) + 1) /\ i \in Int
    BY <1>1
  <2>3. CASE i <= k
    <3>1. i \in 1..m /\ d[i] = c[i]
      BY <2>2, <2>3, <1>6
    <3>2. c[i] \in TimerIds /\ pend[c[i]] /\ c[i] \in TimerCells
      BY <3>1, <2>1, TimerCellsAre
    <3> QED BY <3>1, <3>2, <1>6
  <2>4. CASE i = k + 1
    <3>1. d[i] = t
      BY <2>2, <2>4, <1>1, <1>6
    <3> QED BY <3>1, <1>3, <1>6
  <2>5. CASE i > k + 1
    <3>1. i - 1 \in 1..m /\ d[i] = c[i - 1]
      BY <2>2, <2>5, <1>1, <1>6
    <3>2. c[i - 1] \in TimerIds /\ pend[c[i - 1]] /\ c[i - 1] \in TimerCells
      BY <3>1, <2>1, TimerCellsAre
    <3> QED BY <3>1, <3>2, <1>6
  <2> QED BY <2>2, <2>3, <2>4, <2>5, <1>1
<1>9. ASSUME NEW u \in TimerIds, pd[u] PROVE \E i \in 1..(m + 1) : d[i] = u
  <2>1. u \in TimerCells
    BY TimerCellsAre
  <2>2. CASE u = t
    <3>1. k + 1 \in 1..(m + 1) /\ k + 1 \in 0..((m + 1) + 1) /\ ~(k + 1 <= k)
      BY <1>1
    <3>2. d[k + 1] = t
      BY <3>1, <1>6
    <3> QED BY <3>1, <3>2, <2>2
  <2>3. CASE u # t
    <3>1. pend[u]
      BY <2>1, <2>3, <1>6, <1>9
    <3>2. PICK j \in 1..m : c[j] = u
      BY <3>1 DEF ChainOf
    <3>3. CASE j <= k
      <4>1. j \in 1..(m + 1) /\ j \in 0..((m + 1) + 1)
        OBVIOUS
      <4>2. d[j] = u
        BY <4>1, <3>2, <3>3, <1>6
      <4> QED BY <4>1, <4>2
    <3>4. CASE j > k
      <4>1. /\ j + 1 \in 1..(m + 1) /\ j + 1 \in 0..((m + 1) + 1)
            /\ ~(j + 1 <= k) /\ j + 1 # k + 1 /\ (j + 1) - 1 = j
        BY <3>4, <1>1
      <4>2. d[j + 1] = u
        BY <4>1, <3>2, <1>6
      <4> QED BY <4>1, <4>2
    <3> QED BY <3>3, <3>4, <1>1
  <2> QED BY <2>2, <2>3
<1>10. ASSUME NEW i \in 0..(m + 1) PROVE nx[d[i]] = d[i + 1] /\ pv[d[i + 1]] = d[i]
  <2>1. /\ \A j \in 0..m : next[c[j]] = c[j + 1] /\ prev[c[j + 1]] = c[j]
        /\ i \in 0..((m + 1) + 1) /\ i + 1 \in 0..((m + 1) + 1) /\ i \in Int
    BY <1>1 DEF ChainOf
  <2>2. CASE i < k
    <3>1. i \in 0..m /\ d[i] = c[i] /\ d[i + 1] = c[i + 1] /\ i # k /\ i + 1 # k + 1
          /\ i \in 0..(m + 1) /\ i + 1 \in 0..(m + 1)
      BY <2>1, <2>2, <1>1, <1>6
    <3>2. c[i] # c[k] /\ c[i + 1] # c[k + 1] /\ c[i] \in TimerCells /\ c[i + 1] \in TimerCells
      BY <3>1, <1>1, <1>2
    <3>3. c[i] # t /\ c[i + 1] # t
      BY <3>1, <1>4
    <3> QED BY <3>1, <3>2, <3>3, <2>1, <1>6
  <2>3. CASE i = k
    <3>1. d[i] = c[k] /\ d[i + 1] = t /\ c[k] \in TimerCells
      BY <2>1, <2>3, <1>1, <1>2, <1>6
    <3>2. c[k] # t /\ c[k + 1] # t
      BY <1>1, <1>4
    <3> QED BY <3>1, <3>2, <1>3, <1>6
  <2>4. CASE i = k + 1
    <3>1. d[i] = t /\ d[i + 1] = c[k + 1] /\ c[k + 1] \in TimerCells
      <4>1. ~(i <= k) /\ ~(i + 1 <= k) /\ i + 1 # k + 1 /\ (i + 1) - 1 = k + 1
        BY <2>4, <1>1
      <4> QED BY <2>1, <2>4, <4>1, <1>1, <1>2, <1>6
    <3> QED BY <3>1, <1>3, <1>6
  <2>5. CASE i > k + 1
    <3>1. /\ i - 1 \in 0..m /\ (i - 1) + 1 = i /\ ~(i <= k) /\ ~(i + 1 <= k) /\ i # k + 1 /\ i + 1 # k + 1
          /\ (i + 1) - 1 = i /\ i - 1 # k /\ i # k + 1 /\ i - 1 \in 0..(m + 1) /\ i \in 0..(m + 1)
      BY <2>1, <2>5, <1>1
    <3>2. d[i] = c[i - 1] /\ d[i + 1] = c[i]
      BY <2>1, <3>1, <1>6
    <3>3. c[i - 1] # c[k] /\ c[i] # c[k + 1] /\ c[i - 1] \in TimerCells /\ c[i] \in TimerCells
      BY <3>1, <1>1, <1>2
    <3>4. c[i - 1] # t /\ c[i] # t
      BY <3>1, <1>4
    <3>5. next[c[i - 1]] = c[i] /\ prev[c[i]] = c[i - 1]
      BY <3>1, <2>1
    <3> QED BY <3>2, <3>3, <3>4, <3>5, <1>6
  <2> QED BY <2>1, <2>2, <2>3, <2>4, <2>5, <1>1
<1>11. ASSUME NEW i \in 0..((m + 1) + 1), NEW j \in 0..((m + 1) + 1), d[i] = d[j] PROVE i = j
  <2> DEFINE posOf(n) == IF n <= k THEN n ELSE n - 1
  <2>1. \A n \in 0..((m + 1) + 1) : n # k + 1 => posOf(n) \in 0..(m + 1) /\ d[n] = c[posOf(n)]
    BY <1>1, <1>6
  <2>2. \A n \in 0..((m + 1) + 1) : n = k + 1 => d[n] = t
    BY <1>1, <1>6
  <2>3. CASE i = k + 1 \/ j = k + 1
    <3> HIDE DEF posOf
    <3> QED BY <2>1, <2>2, <2>3, <1>4, <1>11
  <2>4. CASE i # k + 1 /\ j # k + 1
    <3>1. posOf(i) = posOf(j)
      <4> HIDE DEF posOf
      <4> QED BY <2>1, <2>4, <1>2, <1>11
    <3> QED BY <3>1, <2>4, <1>1
  <2> QED BY <2>3, <2>4
<1>12. ChainOf(nx, pv, pd, m + 1, d)
  BY <1>5, <1>7, <1>8, <1>9, <1>10, <1>11, <1>1 DEF ChainOf
<1> QED BY <1>1, <1>5, <1>12 DEF nx, pv, pd

\* What Listed collects is the chain.
LEMMA ListedIs ==
  ASSUME NEW m \in 0..NumTimers, NEW c, ChainOf(tNext, tPrev, tPending, m, c)
  PROVE  Listed = [i \in 1..(m + 2) |-> c[i - 1]]
<1> DEFINE eqn(f) == [n \in 0..(NumTimers + 1) |->
                        IF n = 0 THEN <<THead>>
                        ELSE LET x == f[n - 1][Len(f[n - 1])]
                             IN  IF x = Nil \/ x = TTail THEN f[n - 1]
                                 ELSE Append(f[n - 1], tNext[x])]
           F == CHOOSE f : f = eqn(f)
           part(n) == IF n <= m + 1 THEN n + 1 ELSE m + 2
           G == [n \in 0..(NumTimers + 1) |-> [i \in 1..part(n) |-> c[i - 1]]]
           Turn(s) == LET x == s[Len(s)] IN IF x = Nil \/ x = TTail THEN s ELSE Append(s, tNext[x])
<1>1. Listed = F[NumTimers + 1]
  BY DEF Listed
<1>2. /\ c \in [0..(m + 1) -> TimerCells] /\ c[0] = THead /\ c[m + 1] = TTail
      /\ \A i \in 0..m : tNext[c[i]] = c[i + 1]
      /\ \A i, j \in 0..(m + 1) : c[i] = c[j] => i = j
  BY DEF ChainOf
<1>3. m \in Nat /\ NumTimers \in Nat /\ m <= NumTimers
  BY TimerCellsAre
<1>4. <<THead>> = [i \in 1..part(0) |-> c[i - 1]]
  <2>1. part(0) = 1
    BY <1>3
  <2>2. ASSUME NEW i \in 1..1 PROVE <<THead>>[i] = c[i - 1]
    BY <1>2
  <2>3. <<THead>> = [i \in 1..1 |-> c[i - 1]]
    BY <2>2
  <2> QED BY <2>1, <2>3
<1>5. ASSUME NEW n \in Nat
      PROVE  Turn([i \in 1..part(n) |-> c[i - 1]]) = [i \in 1..part(n + 1) |-> c[i - 1]]
  <2> DEFINE s == [i \in 1..part(n) |-> c[i - 1]]
             u == [i \in 1..part(n + 1) |-> c[i - 1]]
  <2>1. part(n) \in Nat /\ part(n) >= 1 /\ part(n) - 1 \in 0..(m + 1)
    BY <1>3
  <2>2. s \in Seq(TimerCells) /\ Len(s) = part(n) /\ s[Len(s)] = c[part(n) - 1]
    <3>1. \A i \in 1..part(n) : i - 1 \in 0..(m + 1)
      BY <1>3
    <3>2. s \in [1..part(n) -> TimerCells]
      BY <3>1, <1>2
    <3>3. s \in Seq(TimerCells) /\ Len(s) = part(n)
      <4> HIDE DEF s, part
      <4>1. DOMAIN s = 1..part(n)
        BY SMTT(30), <3>2
      <4> QED BY <3>2, <4>1, <2>1
    <3> QED BY <3>3, <2>1
  <2>3. CASE n <= m
    <3>1. part(n) = n + 1 /\ part(n + 1) = n + 2 /\ n \in 0..m /\ n \in 0..(m + 1) /\ m + 1 \in 0..(m + 1) /\ n # m + 1
      BY <2>3, <1>3
    <3>2. c[n] # TTail /\ c[n] # Nil /\ tNext[c[n]] = c[n + 1]
      <4>1. c[n] # c[m + 1] /\ c[n] \in TimerCells
        BY <3>1, <1>2
      <4>2. -1 \notin 0..(NumTimers + 1)
        BY <1>3
      <4> QED BY <4>1, <4>2, <3>1, <1>2, TimerCellsAre
    <3>3. s[Len(s)] = c[n]
      BY <2>2, <3>1
    <3>4. Turn(s) = Append(s, c[n + 1])
      <4> HIDE DEF s
      <4> QED BY <3>2, <3>3
    <3>5. Append(s, c[n + 1]) = u
      <4>1. s = [i \in 1..(n + 1) |-> c[i - 1]] /\ u = [i \in 1..(n + 2) |-> c[i - 1]]
        BY <3>1
      <4>2. Len(s) = n + 1
        BY <2>2, <3>1
      <4> DEFINE v == Append(s, c[n + 1])
      <4>3. v = [i \in 1..(Len(s) + 1) |-> IF i = Len(s) + 1 THEN c[n + 1] ELSE s[i]]
        <5>1. c[n + 1] \in TimerCells
          BY <1>2, <3>1
        <5>2. /\ v \in Seq(TimerCells) /\ Len(v) = Len(s) + 1 /\ v[Len(s) + 1] = c[n + 1]
              /\ \A i \in 1..Len(s) : v[i] = s[i]
          <6> HIDE DEF s
          <6> QED BY <5>1, <2>2, AppendProperties
        <5>3. DOMAIN v = 1..(Len(s) + 1) /\ v = [i \in DOMAIN v |-> v[i]]
          <6> HIDE DEF s, v
          <6> QED BY <5>2
        <5>4. Len(s) \in Nat
          BY <2>2, <2>1
        <5>5. \A i \in 1..(Len(s) + 1) : v[i] = IF i = Len(s) + 1 THEN c[n + 1] ELSE s[i]
          <6> HIDE DEF s, v
          <6> QED BY <5>2, <5>4
        <5> HIDE DEF s, v
        <5> QED BY <5>3, <5>5
      <4>4. v = [i \in 1..(n + 2) |-> IF i = n + 2 THEN c[n + 1] ELSE s[i]]
        BY <4>2, <4>3
      <4>5. ASSUME NEW i \in 1..(n + 2)
            PROVE  (IF i = n + 2 THEN c[n + 1] ELSE s[i]) = c[i - 1]
        <5>1. CASE i = n + 2
          BY <5>1
        <5>2. CASE i # n + 2
          <6>1. i \in 1..(n + 1)
            BY <5>2
          <6> QED BY <6>1, <5>2, <4>1
        <5> QED BY <5>1, <5>2
      <4> HIDE DEF v, s, u
      <4>6. [i \in 1..(n + 2) |-> IF i = n + 2 THEN c[n + 1] ELSE s[i]] = [i \in 1..(n + 2) |-> c[i - 1]]
        BY <4>5
      <4> QED BY <4>1, <4>4, <4>6 DEF v
    <3> QED BY SMTT(60), <3>4, <3>5
  <2>4. CASE n > m
    <3>1. part(n) = m + 2 /\ part(n + 1) = m + 2
      BY <2>4, <1>3
    <3>2. s[Len(s)] = TTail
      BY <2>2, <3>1, <1>2, <1>3
    <3>3. Turn(s) = s
      <4> HIDE DEF s
      <4> QED BY <3>2
    <3>4. s = u
      BY SMTT(30), <3>1
    <3> QED BY <3>3, <3>4
  <2> QED BY <2>3, <2>4, <1>3
<1>6. G = eqn(G)
  <2> SUFFICES ASSUME NEW n \in 0..(NumTimers + 1)
               PROVE  G[n] = IF n = 0 THEN <<THead>> ELSE Turn(G[n - 1])
    <3> HIDE DEF part
    <3> QED OBVIOUS
  <2>1. CASE n = 0
    <3> HIDE DEF part
    <3>1. G[n] = [i \in 1..part(0) |-> c[i - 1]]
      BY <2>1
    <3> QED BY <3>1, <1>4, <2>1
  <2>2. CASE n # 0
    <3>1. n - 1 \in Nat /\ n - 1 \in 0..(NumTimers + 1) /\ (n - 1) + 1 = n
      BY <2>2, <1>3
    <3>2. Turn([i \in 1..part(n - 1) |-> c[i - 1]]) = [i \in 1..part((n - 1) + 1) |-> c[i - 1]]
      <4> HIDE DEF Turn, part
      <4> QED BY <3>1, <1>5
    <3> HIDE DEF Turn, part
    <3>3. G[n] = [i \in 1..part(n) |-> c[i - 1]] /\ G[n - 1] = [i \in 1..part(n - 1) |-> c[i - 1]]
      BY <3>1
    <3> QED BY <3>1, <3>2, <3>3, <2>2
  <2> QED BY <2>1, <2>2
<1>7. F = eqn(F)
  <2> HIDE DEF eqn
  <2> QED BY <1>6
<1> HIDE DEF F
<1> DEFINE T == {n \in Nat : n <= NumTimers + 1 => F[n] = G[n]}
<1>8. 0 \in T
  <2> HIDE DEF G
  <2>1. 0 \in 0..(NumTimers + 1)
    BY <1>3
  <2>2. eqn(F)[0] = <<THead>> /\ eqn(G)[0] = <<THead>>
    BY <2>1
  <2>3. F[0] = <<THead>> /\ G[0] = <<THead>>
    <3> HIDE DEF eqn
    <3> QED BY <2>2, <1>6, <1>7
  <2> QED BY <2>3
<1>9. ASSUME NEW n \in T PROVE n + 1 \in T
  <2> SUFFICES ASSUME n + 1 <= NumTimers + 1 PROVE F[n + 1] = G[n + 1]
    OBVIOUS
  <2> HIDE DEF G
  <2>1. n \in Nat /\ F[n] = G[n] /\ n + 1 \in 0..(NumTimers + 1) /\ n + 1 # 0 /\ (n + 1) - 1 = n
    BY <1>3
  <2>2. eqn(F)[n + 1] = Turn(F[n]) /\ eqn(G)[n + 1] = Turn(G[n])
    BY <2>1
  <2> HIDE DEF eqn, Turn
  <2>3. F[n + 1] = Turn(F[n]) /\ G[n + 1] = Turn(G[n])
    BY <2>2, <1>6, <1>7
  <2> QED BY <2>1, <2>3
<1>10. T = Nat
  <2>1. T \subseteq Nat
    OBVIOUS
  <2> HIDE DEF T
  <2> QED BY <1>8, <1>9, <2>1, NatInd
<1>11. F[NumTimers + 1] = G[NumTimers + 1]
  <2> HIDE DEF G
  <2>1. NumTimers + 1 \in T
    BY <1>3, <1>10
  <2> QED BY <2>1
<1>12. G[NumTimers + 1] = [i \in 1..(m + 2) |-> c[i - 1]]
  <2>1. part(NumTimers + 1) = m + 2 /\ NumTimers + 1 \in 0..(NumTimers + 1)
    BY <1>3
  <2> HIDE DEF part
  <2> QED BY <2>1
<1> QED BY <1>1, <1>11, <1>12

\* radTimerStart's loop stops in the list, with some of the time left.
LEMMA WalkIs ==
  ASSUME TimerTypes, NEW m \in 0..NumTimers, NEW c, ChainOf(tNext, tPrev, tPending, m, c),
         tPc.time \in Nat
  PROVE  \E k \in 0..m : Walk.prev = c[k] /\ Walk.left \in Nat \ {0}
<1> DEFINE S == [prev : {c[k] : k \in 0..m}, left : Nat \ {0}]
           start == [prev |-> THead, left |-> IF tPc.time = 0 THEN 1 ELSE tPc.time]
           Turn(q) == LET x == tNext[q.prev]
                      IN  IF x = TTail \/ tDelta[x] >= q.left THEN q
                          ELSE [prev |-> x, left |-> q.left - tDelta[x]]
           eqn(f) == [n \in 0..(NumTimers + 1) |-> IF n = 0 THEN start ELSE Turn(f[n - 1])]
           F == CHOOSE f : f = eqn(f)
           step == [z \in Nat \X S |-> Turn(z[2])]
<1>1. Walk = F[NumTimers + 1]
  BY DEF Walk
<1>2. /\ c \in [0..(m + 1) -> TimerCells] /\ c[0] = THead /\ c[m + 1] = TTail
      /\ \A i \in 0..m : tNext[c[i]] = c[i + 1]
      /\ m \in Nat /\ NumTimers \in Nat
  BY TimerCellsAre DEF ChainOf
<1>3. start \in S
  <2>1. THead \in {c[k] : k \in 0..m}
    BY <1>2
  <2>2. (IF tPc.time = 0 THEN 1 ELSE tPc.time) \in Nat \ {0}
    OBVIOUS
  <2> QED BY <2>1, <2>2
<1>4. ASSUME NEW q \in S PROVE Turn(q) \in S
  <2>1. PICK k \in 0..m : q.prev = c[k]
    OBVIOUS
  <2>2. tNext[q.prev] = c[k + 1] /\ k + 1 \in 0..(m + 1) /\ q.left \in Nat \ {0}
    BY <1>2, <2>1
  <2>3. CASE c[k + 1] = TTail \/ tDelta[c[k + 1]] >= q.left
    BY <2>2, <2>3
  <2>4. CASE ~(c[k + 1] = TTail \/ tDelta[c[k + 1]] >= q.left)
    <3>1. k + 1 \in 0..m
      BY <2>2, <2>4, <1>2
    <3>2. tDelta[c[k + 1]] \in Int
      BY <2>2, <1>2 DEF TimerTypes
    <3>3. q.left - tDelta[c[k + 1]] \in Nat \ {0}
      BY <3>2, <2>2, <2>4
    <3>4. Turn(q) = [prev |-> c[k + 1], left |-> q.left - tDelta[c[k + 1]]]
      BY <2>2, <2>4
    <3> QED BY <3>1, <3>3, <3>4
  <2> QED BY <2>3, <2>4
<1> HIDE DEF S, start, Turn
<1>5. PICK g \in [Nat -> S] : g[0] = start /\ \A n \in Nat : g[n + 1] = Turn(g[n])
  <2>1. step \in [Nat \X S -> S]
    BY <1>4
  <2>2. Iterates(S, start, step)
    <3> HIDE DEF step
    <3> QED BY <1>3, <2>1, Recursion
  <2>3. PICK g \in [Nat -> S] : g[0] = start /\ \A n \in Nat : g[n + 1] = step[<<n, g[n]>>]
    <3> HIDE DEF step
    <3> QED BY <2>2 DEF Iterates
  <2>4. \A n \in Nat : g[n + 1] = Turn(g[n])
    BY <2>3
  <2> QED BY <2>3, <2>4
<1>6. \E f : f = eqn(f)
  <2> DEFINE h == [n \in 0..(NumTimers + 1) |-> g[n]]
  <2>1. ASSUME NEW n \in 0..(NumTimers + 1) PROVE h[n] = eqn(h)[n]
    <3>1. CASE n = 0
      BY <3>1, <1>5
    <3>2. CASE n # 0
      <4>1. n - 1 \in Nat /\ (n - 1) + 1 = n /\ n - 1 \in 0..(NumTimers + 1)
        BY <3>2, <1>2
      <4>2. g[n] = Turn(g[n - 1])
        BY <4>1, <1>5
      <4> QED BY <3>2, <4>1, <4>2
    <3> QED BY <3>1, <3>2
  <2>2. h = eqn(h)
    BY <2>1
  <2> QED BY <2>2
<1>7. F = eqn(F)
  <2> HIDE DEF eqn
  <2> QED BY <1>6
<1> HIDE DEF F
<1> DEFINE T == {n \in Nat : n <= NumTimers + 1 => F[n] \in S}
<1>8. 0 \in T
  <2>1. 0 \in 0..(NumTimers + 1)
    BY <1>2
  <2>2. F[0] = start
    BY <2>1, <1>7
  <2> QED BY <2>2, <1>3
<1>9. ASSUME NEW n \in T PROVE n + 1 \in T
  <2> SUFFICES ASSUME n + 1 <= NumTimers + 1 PROVE F[n + 1] \in S
    OBVIOUS
  <2>1. n \in Nat /\ F[n] \in S /\ n + 1 \in 0..(NumTimers + 1) /\ n + 1 # 0 /\ (n + 1) - 1 = n
    BY <1>2
  <2>2. F[n + 1] = Turn(F[n])
    BY <1>7, <2>1
  <2> QED BY <1>4, <2>1, <2>2
<1>10. T = Nat
  <2>1. T \subseteq Nat
    OBVIOUS
  <2> HIDE DEF T
  <2> QED BY <1>8, <1>9, <2>1, NatInd
<1>11. F[NumTimers + 1] \in S
  <2>1. NumTimers + 1 \in T
    BY <1>2, <1>10
  <2> QED BY <2>1
<1> QED BY <1>1, <1>11 DEF S

-----------------------------------------------------------------------------
(* The timers: one step *)

LEMMA TimersInitial == TimersInit => TimersInv
<1> SUFFICES ASSUME TimersInit PROVE TimersInv
  OBVIOUS
<1>1. TimerTypes
  <2>1. \A t \in 2..NumTimers : t - 1 \in TimerCells
    BY TimerCellsAre
  <2>2. tNext \in [TimerCells -> TimerCells \cup {Nil}]
    BY <2>1, TimerCellsAre DEF TimersInit
  <2>3. tPrev \in [TimerCells -> TimerCells \cup {Nil}]
    BY TimerCellsAre DEF TimersInit
  <2> QED BY <2>2, <2>3, TimerCellsAre DEF TimersInit, TimerTypes, TimerCells
<1>2. ListFits
  <2> DEFINE c == [i \in 0..(0 + 1) |-> IF i = 0 THEN THead ELSE TTail]
  <2>1. c \in [0..(0 + 1) -> TimerCells] /\ c[0] = THead /\ c[0 + 1] = TTail
    BY TimerCellsAre
  <2>2. \A t \in TimerCells : tPending[t] = FALSE
    BY DEF TimersInit, TimerCells
  <2>3. tNext[THead] = TTail /\ tPrev[TTail] = THead
    BY TimerCellsAre DEF TimersInit, TimerCells
  <2>4. \A i, j \in 0..(0 + 1) : c[i] = c[j] => i = j
    BY TimerCellsAre
  <2>5. \A i \in 0..0 : tNext[c[i]] = c[i + 1] /\ tPrev[c[i + 1]] = c[i]
    BY <2>1, <2>3
  <2> HIDE DEF c
  <2>6. ChainOf(tNext, tPrev, tPending, 0, c)
    BY <2>1, <2>2, <2>4, <2>5, TimerCellsAre DEF ChainOf
  <2>7. 0 \in 0..NumTimers /\ c \in [0..(0 + 1) -> TimerCells]
    BY <2>1, TimerCellsAre
  <2> QED BY <2>6, <2>7 DEF ListFits
<1>3. FreeFits
  <2>1. \A t \in TimerIds : tNext[t] = (IF t = 1 THEN Nil ELSE t - 1) /\ tPending[t] = FALSE
    BY TimerCellsAre DEF TimersInit
  <2>2. tInUse = {} /\ tFree = NumTimers
    BY DEF TimersInit
  <2> QED BY <2>1, <2>2, TimerCellsAre DEF FreeFits, Unheld
<1>4. TimerCallFits /\ AlarmFits
  <2>1. tPc = Idle /\ alarm = Nil /\ tNext[THead] = TTail
    BY TimerCellsAre DEF TimersInit, TimerCells
  <2> QED BY <2>1 DEF TimerCallFits, AlarmFits, ListAttended, Empty
<1> QED BY <1>1, <1>2, <1>3, <1>4 DEF TimersInv

\* The list is as it was: so is all that the invariant says of it.
LEMMA SameList ==
  ASSUME ListFits, UNCHANGED <<tNext, tPrev, tPending>> PROVE ListFits'
BY SMTT(30) DEF ListFits, ChainOf

LEMMA TickInv == TimersInv /\ Tick => TimersInv'
<1> SUFFICES ASSUME TimersInv, Tick PROVE TimersInv'
  OBVIOUS
<1>1. UNCHANGED <<tNext, tPrev, tDelta, tPending, tInUse, tFree, handler, ticksLeft, tPc>>
  BY DEF Tick, deltaVars
<1>2. ListFits'
  BY <1>1, SameList DEF TimersInv
<1>3. FreeFits' /\ TimerCallFits'
  BY <1>1 DEF TimersInv, FreeFits, Unheld, TimerCallFits
<1>4. TimerTypes'
  BY <1>1, TimerAssumption DEF TimersInv, TimerTypes, Tick, Nil
<1>5. AlarmFits'
  <2>1. alarm \in Int /\ (alarm = Nil \/ alarm > 0)
    BY DEF TimersInv, TimerTypes, AlarmFits
  <2>2. alarm' = (IF alarm > 1 THEN alarm - 1 ELSE Nil) /\ sigPending' = (sigPending \/ alarm = 1)
    BY DEF Tick
  <2>3. alarm' = Nil \/ alarm' > 0
    BY <2>1, <2>2
  <2>4. alarm # Nil => alarm' # Nil \/ alarm = 1
    BY <2>1, <2>2 DEF Nil
  <2>5. (sigPending => sigPending') /\ (alarm = 1 => sigPending')
    <3> HIDE DEF Tick
    <3> QED BY <2>2, Zenon
  <2> QED BY <1>1, <2>3, <2>4, <2>5 DEF TimersInv, AlarmFits, ListAttended, Empty
<1> QED BY <1>2, <1>3, <1>4, <1>5 DEF TimersInv

LEMMA SignalArrivesInv == ~SignalInStop /\ TimersInv /\ SignalArrives => TimersInv'
<1> SUFFICES ASSUME ~SignalInStop, TimersInv, SignalArrives PROVE TimersInv'
  OBVIOUS
<1>1. UNCHANGED <<tNext, tPrev, tDelta, tPending, tInUse, tFree, alarm, tPc>>
  BY DEF SignalArrives, deltaVars
<1>2. ListFits'
  BY <1>1, SameList DEF TimersInv
<1>3. tPc.at # "unlink" /\ handler' = "run" /\ elapsed' = 0 /\ ticksLeft' = elapsed
  BY DEF SignalArrives, TicksSince
<1>4. FreeFits' /\ TimerCallFits'
  BY <1>1, <1>3 DEF TimersInv, FreeFits, Unheld, TimerCallFits
<1>5. TimerTypes' /\ AlarmFits'
  BY <1>1, <1>3 DEF TimersInv, TimerTypes, AlarmFits, ListAttended
<1> QED BY <1>2, <1>4, <1>5 DEF TimersInv

\* Who takes a timer off the list: the handler, and radTimerStop.
LEMMA TakenOff ==
  ASSUME TimerTypes, ListFits, NEW t \in TimerIds, tPending[t],
         tNext' = [tNext EXCEPT ![tPrev[t]] = tNext[t]],
         tPrev' = [tPrev EXCEPT ![tNext[t]] = tPrev[t]],
         tPending' = [tPending EXCEPT ![t] = FALSE]
  PROVE  /\ ListFits' /\ ~Empty
         /\ tNext[t] \in TimerCells /\ tPrev[t] \in TimerCells
         /\ tPrev[t] # THead => tPending[tPrev[t]] /\ tPrev[t] \in TimerIds
<1>1. PICK m, c : m \in 0..NumTimers /\ c \in [0..(m + 1) -> TimerCells]
             /\ ChainOf(tNext, tPrev, tPending, m, c)
  BY DEF ListFits
<1>2. PICK k \in 1..m : c[k] = t
  BY <1>1 DEF ChainOf
<1>0. m \in Nat /\ m <= NumTimers /\ NumTimers \in Nat
  BY <1>1, TimerCellsAre
<1>3. /\ k \in 0..m /\ k - 1 \in 0..m /\ (k - 1) + 1 = k /\ m \in Nat /\ 0 \in 0..m
      /\ k + 1 \in 0..(m + 1) /\ k - 1 \in 0..(m + 1) /\ (k - 1 # 0 => k - 1 \in 1..m)
  BY <1>0, <1>2
<1>4. tNext[t] = c[k + 1] /\ tPrev[t] = c[k - 1] /\ c[0] = THead
  <2>1. tPrev[c[(k - 1) + 1]] = c[k - 1] /\ tNext[c[k]] = c[k + 1] /\ c[0] = THead
    BY <1>1, <1>3 DEF ChainOf
  <2> QED BY <2>1, <1>2, <1>3
<1>5. PICK d \in [0..((m - 1) + 1) -> TimerCells] :
             ChainOf(tNext', tPrev', tPending', m - 1, d) /\ m - 1 \in Nat
  <2>1. \E d \in [0..((m - 1) + 1) -> TimerCells] :
          ChainOf([tNext EXCEPT ![c[k - 1]] = c[k + 1]], [tPrev EXCEPT ![c[k + 1]] = c[k - 1]],
                  [tPending EXCEPT ![c[k]] = FALSE], m - 1, d) /\ m - 1 \in Nat
    BY <1>1, <1>3, ChainDelete DEF TimerTypes
  <2> QED BY <2>1, <1>2, <1>4
<1>6. ListFits'
  <2>1. m - 1 \in 0..NumTimers
    BY <1>5, <1>0
  <2>2. \E n \in 0..NumTimers : \E e \in [0..(n + 1) -> TimerCells] :
            ChainOf(tNext', tPrev', tPending', n, e)
    BY <2>1, <1>5
  <2> QED BY <2>2 DEF ListFits, ChainOf
<1>7. ~Empty
  <2>1. tNext[THead] = c[0 + 1] /\ 0 + 1 \in 1..m
    <3>1. tNext[c[0]] = c[0 + 1]
      BY <1>1, <1>3 DEF ChainOf
    <3>2. 0 + 1 \in 1..m
      BY <1>0, <1>2
    <3> QED BY <3>1, <3>2, <1>4
  <2>2. c[0 + 1] \in TimerIds
    BY <2>1, <1>1 DEF ChainOf
  <2> QED BY <2>1, <2>2, TimerCellsAre DEF Empty
<1>8. tPrev[t] # THead => tPending[tPrev[t]] /\ tPrev[t] \in TimerIds
  BY <1>1, <1>3, <1>4 DEF ChainOf
<1> QED BY <1>3, <1>4, <1>6, <1>7, <1>8, <1>1

\* Only cells that a caller holds, and the head, changed their next.
LEMMA SameFree ==
  ASSUME FreeFits, UNCHANGED <<tInUse, tFree>>, \A u \in Unheld : tNext'[u] = tNext[u],
         \A u \in TimerIds : tPending'[u] => u \in tInUse
  PROVE  FreeFits'
BY DEF FreeFits, Unheld

LEMMA TimerExpiresInv == TimersInv /\ TimerExpires => TimersInv'
<1> SUFFICES ASSUME TimersInv, TimerExpires PROVE TimersInv'
  OBVIOUS
<1> DEFINE t == tNext[THead]
<1>1. /\ handler = "run" /\ t # TTail /\ t # Nil
      /\ UNCHANGED <<tDelta, tInUse, tFree, elapsed, alarm, handler, tPc>>
      /\ ticksLeft' = ticksLeft - tDelta[t]
      /\ tPending' = [tPending EXCEPT ![t] = FALSE]
      /\ tNext' = [tNext EXCEPT ![THead] = tNext[t]]
      /\ tPrev' = [tPrev EXCEPT ![tNext[t]] = THead]
  BY DEF TimerExpires
<1>2. TimerTypes /\ ListFits /\ FreeFits /\ TimerCallFits /\ AlarmFits
  BY DEF TimersInv
<1>3. t \in TimerIds /\ tPending[t] /\ tPrev[t] = THead
  <2>1. PICK m, c : m \in 0..NumTimers /\ c \in [0..(m + 1) -> TimerCells]
               /\ ChainOf(tNext, tPrev, tPending, m, c)
    BY <1>2 DEF ListFits
  <2>2. /\ tNext[c[0]] = c[0 + 1] /\ tPrev[c[0 + 1]] = c[0] /\ c[0] = THead /\ c[m + 1] = TTail
        /\ \A i \in 1..m : c[i] \in TimerIds /\ tPending[c[i]]
    BY <2>1, TimerCellsAre DEF ChainOf
  <2>3. m \in Nat
    BY <2>1, TimerCellsAre
  <2>4. m # 0
    BY <2>2, <1>1
  <2>5. 0 + 1 \in 1..m
    BY <2>3, <2>4
  <2> QED BY <2>2, <2>5
<1> HIDE DEF t
<1>4. ListFits' /\ tNext[t] \in TimerCells
  BY <1>1, <1>2, <1>3, TakenOff
<1>5. TimerTypes'
  <2>1. THead \in TimerCells /\ t \in TimerCells
    BY <1>3, TimerCellsAre
  <2> QED BY <1>1, <1>2, <1>4, <2>1 DEF TimerTypes
<1>6. FreeFits'
  <2>1. THead \notin Unheld /\ t \in TimerCells /\ t \in tInUse
    BY <1>2, <1>3, TimerCellsAre DEF Unheld, FreeFits
  <2>2. \A u \in Unheld : tNext'[u] = tNext[u]
    BY <1>1, <1>2, <2>1 DEF TimerTypes
  <2>3. \A u \in TimerIds : tPending'[u] => u \in tInUse
    BY <1>1, <1>2, TimerCellsAre DEF TimerTypes, FreeFits
  <2> QED BY <1>1, <1>2, <2>2, <2>3, SameFree
<1>7. TimerCallFits'
  <2>1. \A u \in TimerIds : ~tPending[u] => ~tPending'[u]
    BY <1>1, <1>2, TimerCellsAre DEF TimerTypes
  <2>2. tInUse \subseteq TimerIds
    BY <1>2 DEF TimerTypes
  <2> QED BY <1>1, <1>2, <2>1, <2>2 DEF TimerCallFits
<1>8. AlarmFits'
  BY <1>1, <1>2 DEF AlarmFits, ListAttended
<1> QED BY <1>4, <1>5, <1>6, <1>7, <1>8 DEF TimersInv

LEMMA HandlerReturnsInv == TimersInv /\ HandlerReturns => TimersInv'
<1> SUFFICES ASSUME TimersInv, HandlerReturns PROVE TimersInv'
  OBVIOUS
<1> DEFINE t == tNext[THead]
<1>1. /\ handler = "run" /\ handler' = "off" /\ ticksLeft' = 0
      /\ UNCHANGED <<tNext, tPrev, tPending, tInUse, tFree, elapsed, tPc>>
      /\ t = TTail => UNCHANGED <<tDelta, alarm>>
      /\ t # TTail => /\ tDelta[t] > ticksLeft /\ alarm' = tDelta[t] - ticksLeft
                      /\ tDelta' = [tDelta EXCEPT ![t] = tDelta[t] - ticksLeft]
  BY DEF HandlerReturns, NextAlarm
<1>2. TimerTypes /\ ListFits /\ FreeFits /\ TimerCallFits /\ AlarmFits
  BY DEF TimersInv
<1>3. ListFits'
  BY <1>1, <1>2, SameList
<1>4. FreeFits' /\ TimerCallFits'
  BY <1>1, <1>2 DEF FreeFits, Unheld, TimerCallFits
<1>5. TimerTypes' /\ AlarmFits'
  <2>1. CASE t = TTail
    <3>1. Empty'
      BY <1>1, <2>1 DEF Empty
    <3> QED BY <1>1, <1>2, <2>1, <3>1 DEF TimerTypes, AlarmFits, ListAttended
  <2>2. CASE t # TTail
    <3>1. t \in TimerCells
      <4>1. PICK m, c : m \in 0..NumTimers /\ c \in [0..(m + 1) -> TimerCells]
                        /\ ChainOf(tNext, tPrev, tPending, m, c)
        BY <1>2 DEF ListFits
      <4>2. m \in Nat
        BY <4>1, TimerCellsAre
      <4>3. 0 \in 0..m /\ 0 + 1 \in 0..(m + 1)
        BY <4>2
      <4>4. tNext[c[0]] = c[0 + 1] /\ c[0] = THead
        BY <4>1, <4>3 DEF ChainOf
      <4> QED BY <4>1, <4>3, <4>4
    <3>2. tDelta[t] \in Int /\ ticksLeft \in Int
      BY <1>2, <3>1 DEF TimerTypes
    <3>3. alarm' \in Int /\ alarm' > 0
      BY <1>1, <2>2, <3>2
    <3> HIDE DEF t
    <3>4. tDelta' \in [TimerCells -> Int]
      BY <1>1, <1>2, <2>2, <3>2 DEF TimerTypes
    <3>5. alarm' # Nil
      BY <3>3 DEF Nil
    <3> QED BY <1>1, <1>2, <3>3, <3>4, <3>5 DEF TimerTypes, AlarmFits, ListAttended
  <2> QED BY <2>1, <2>2
<1> QED BY <1>3, <1>4, <1>5 DEF TimersInv

\* The free list gives out a timer that is not on the other list.
LEMMA TimerCreateInv == TimersInv /\ radTimerCreate => TimersInv'
<1> SUFFICES ASSUME TimersInv, radTimerCreate PROVE TimersInv'
  OBVIOUS
<1>1. /\ tPc = Idle /\ tFree # Nil /\ tInUse' = tInUse \cup {tFree} /\ tFree' = tNext[tFree]
      /\ tPending' = [tPending EXCEPT ![tFree] = FALSE]
      /\ UNCHANGED <<sigPending, tNext, tPrev, tDelta, elapsed, alarm, handler, ticksLeft, tPc>>
  BY DEF radTimerCreate
<1>2. TimerTypes /\ ListFits /\ FreeFits /\ TimerCallFits /\ AlarmFits
  BY DEF TimersInv
<1>3. /\ tFree \in TimerIds /\ tFree \notin tInUse /\ tFree \in TimerCells
      /\ tNext[tFree] # Nil => tNext[tFree] \in TimerIds /\ tNext[tFree] \notin tInUse
                               /\ tNext[tFree] # tFree
  BY <1>1, <1>2, TimerCellsAre DEF FreeFits, Unheld
<1>4. tPending' = tPending
  <2>1. tPending[tFree] = FALSE
    BY <1>2, <1>3 DEF TimerTypes, FreeFits
  <2> QED BY <1>1, <1>2, <1>3, <2>1 DEF TimerTypes
<1>5. ListFits'
  BY <1>1, <1>2, <1>4, SameList
<1>6. TimerTypes'
  BY <1>1, <1>2, <1>3, <1>4 DEF TimerTypes
<1>7. FreeFits'
  <2>1. Unheld' = Unheld \ {tFree}
    BY <1>1 DEF Unheld
  <2> QED BY <1>1, <1>2, <1>3, <1>4, <2>1 DEF FreeFits, Unheld
<1>8. TimerCallFits' /\ AlarmFits'
  BY <1>1, <1>2 DEF TimerCallFits, AlarmFits, ListAttended, Empty
<1> QED BY <1>5, <1>6, <1>7, <1>8 DEF TimersInv

LEMMA StopTestInv ==
  ASSUME TimersInv, NEW t \in TimerIds, NEW next \in {"none", "start", "delete"}, NEW time \in Nat,
         StopTest(t, next, time)
  PROVE  TimersInv'
<1>1. /\ handler = "off" /\ t \in tInUse /\ (tPending[t] \/ next # "none")
      /\ tPc' = [at |-> StoppedFirst(t, next), timer |-> t, next |-> next, time |-> time]
      /\ UNCHANGED <<sigPending, tNext, tPrev, tDelta, tPending, tInUse, tFree, elapsed, alarm,
                     handler, ticksLeft>>
  BY DEF StopTest, MainRuns, deltaVars
<1>2. TimerTypes /\ ListFits /\ FreeFits /\ TimerCallFits /\ AlarmFits
  BY DEF TimersInv
<1>3. ListFits'
  BY <1>1, <1>2, SameList
<1>4. TimerTypes' /\ FreeFits' /\ AlarmFits'
  BY <1>1, <1>2 DEF TimerTypes, FreeFits, Unheld, AlarmFits, ListAttended, Empty
<1>5. TimerCallFits'
  <2>1. CASE tPending[t]
    <3>1. tPc' = [at |-> "unlink", timer |-> t, next |-> next, time |-> time]
      BY <1>1, <2>1 DEF StoppedFirst
    <3> QED BY <1>1, <2>1, <3>1 DEF TimerCallFits
  <2>2. CASE ~tPending[t]
    <3>1. tPc' = [at |-> next, timer |-> t, next |-> next, time |-> time]
          /\ next \in {"start", "delete"}
      BY <1>1, <2>2 DEF StoppedFirst
    <3> QED BY <1>1, <2>2, <3>1 DEF TimerCallFits
  <2> QED BY <2>1, <2>2
<1> QED BY <1>3, <1>4, <1>5 DEF TimersInv

\* The list loses the timer of the call, which the call found running and which no
\* signal took off since.
LEMMA UnlinkInv == TimersInv /\ Unlink => TimersInv'
<1> SUFFICES ASSUME TimersInv, Unlink PROVE TimersInv'
  OBVIOUS
<1> DEFINE t == tPc.timer
<1>1. /\ tPc.at = "unlink"
      /\ tPending' = [tPending EXCEPT ![t] = FALSE]
      /\ tDelta' = IF tNext[t] # TTail
                   THEN [tDelta EXCEPT ![tNext[t]] = tDelta[tNext[t]] + tDelta[t]] ELSE tDelta
      /\ tPrev' = [tPrev EXCEPT ![tNext[t]] = tPrev[t]]
      /\ tNext' = [tNext EXCEPT ![tPrev[t]] = tNext[t]]
      /\ tPc' = IF tPc.next = "none" THEN Idle ELSE [tPc EXCEPT !.at = tPc.next]
      /\ UNCHANGED <<sigPending, tInUse, tFree, elapsed, alarm, handler, ticksLeft>>
  BY DEF Unlink
<1>2. TimerTypes /\ ListFits /\ FreeFits /\ TimerCallFits /\ AlarmFits
  BY DEF TimersInv
<1>3. tPc # Idle
  BY <1>1 DEF Idle
<1>4. /\ tPc \in [at : {"unlink", "start", "delete"}, timer : tInUse,
                  next : {"none", "start", "delete"}, time : Nat]
      /\ t \in tInUse /\ t \in TimerIds /\ tPending[t]
  BY <1>1, <1>2, <1>3 DEF TimerCallFits, TimerTypes
<1> HIDE DEF t
<1>5. /\ ListFits' /\ ~Empty /\ tNext[t] \in TimerCells /\ tPrev[t] \in TimerCells
      /\ tPrev[t] # THead => tPending[tPrev[t]] /\ tPrev[t] \in TimerIds
  BY <1>1, <1>2, <1>4, TakenOff
<1>6. t \in TimerCells
  BY <1>4, TimerCellsAre
<1>7. TimerTypes'
  <2>1. tDelta' \in [TimerCells -> Int]
    <3>1. tDelta[t] \in Int /\ tDelta[tNext[t]] \in Int /\ tDelta \in [TimerCells -> Int]
      BY <1>2, <1>5, <1>6 DEF TimerTypes
    <3>2. tDelta[tNext[t]] + tDelta[t] \in Int
      BY <3>1
    <3> QED BY <1>1, <3>1, <3>2
  <2> QED BY <1>1, <1>2, <1>5, <2>1 DEF TimerTypes
<1>8. FreeFits'
  <2>1. tPrev[t] \notin Unheld
    BY <1>2, <1>5, TimerCellsAre DEF Unheld, FreeFits
  <2>2. \A u \in Unheld : tNext'[u] = tNext[u]
    BY <1>1, <1>2, <2>1, TimerCellsAre DEF TimerTypes, Unheld
  <2>3. \A u \in TimerIds : tPending'[u] => u \in tInUse
    BY <1>1, <1>2, TimerCellsAre DEF TimerTypes, FreeFits
  <2> QED BY <1>1, <1>2, <2>2, <2>3, SameFree
<1>9. TimerCallFits'
  <2>1. ~tPending'[t]
    BY <1>1, <1>2, <1>6 DEF TimerTypes
  <2>2. CASE tPc.next = "none"
    BY <1>1, <2>2 DEF TimerCallFits
  <2>3. CASE tPc.next # "none"
    <3>1. tPc' = [tPc EXCEPT !.at = tPc.next] /\ tPc.next \in {"start", "delete"}
      BY <1>1, <1>4, <2>3
    <3>2. /\ tPc' \in [at : {"unlink", "start", "delete"}, timer : tInUse,
                       next : {"none", "start", "delete"}, time : Nat]
          /\ tPc'.at # "unlink" /\ tPc'.timer = t
      BY <1>4, <3>1 DEF t
    <3> QED BY <1>1, <2>1, <3>2 DEF TimerCallFits
  <2> QED BY <2>2, <2>3
<1>10. AlarmFits'
  BY <1>1, <1>2, <1>5 DEF AlarmFits, ListAttended
<1> QED BY <1>5, <1>7, <1>8, <1>9, <1>10 DEF TimersInv

\* The list gains the timer of the call, where the loop stopped; in front it sets
\* the alarm, behind another timer the alarm is that one's.
LEMMA TimerStartInv == TimersInv /\ radTimerStart => TimersInv'
<1> SUFFICES ASSUME TimersInv, radTimerStart PROVE TimersInv'
  OBVIOUS
<1> DEFINE t == tPc.timer
           p == Walk.prev
           left == Walk.left
           n == tNext[p]
<1>1. /\ tPc.at = "start"
      /\ tPending' = [tPending EXCEPT ![t] = TRUE]
      /\ tDelta' = [[tDelta EXCEPT ![t] = left] EXCEPT ![n] = IF n # TTail THEN @ - left ELSE @]
      /\ tNext' = [tNext EXCEPT ![p] = t, ![t] = n]
      /\ tPrev' = [tPrev EXCEPT ![t] = p, ![n] = t]
      /\ elapsed' = IF Empty THEN 0 ELSE elapsed
      /\ alarm' = IF p = THead THEN left ELSE alarm
      /\ tPc' = Idle
      /\ UNCHANGED <<sigPending, tInUse, tFree, handler, ticksLeft>>
  BY DEF radTimerStart
<1>2. TimerTypes /\ ListFits /\ FreeFits /\ TimerCallFits /\ AlarmFits
  BY DEF TimersInv
<1>3. tPc # Idle
  BY <1>1 DEF Idle
<1>4. t \in tInUse /\ t \in TimerIds /\ ~tPending[t] /\ tPc.time \in Nat /\ t \in TimerCells
  <2>1. tPc \in [at : {"unlink", "start", "delete"}, timer : tInUse,
                 next : {"none", "start", "delete"}, time : Nat]
    BY <1>2, <1>3 DEF TimerCallFits
  <2>2. ~tPending[tPc.timer]
    BY <1>1, <1>2, <1>3 DEF TimerCallFits
  <2>3. tPc.timer \in tInUse /\ tPc.time \in Nat
    BY <2>1
  <2>4. tInUse \subseteq TimerIds /\ TimerIds \subseteq TimerCells
    BY <1>2, TimerCellsAre DEF TimerTypes
  <2> QED BY <2>2, <2>3, <2>4
<1>5. PICK m, c : m \in 0..NumTimers /\ c \in [0..(m + 1) -> TimerCells]
                  /\ ChainOf(tNext, tPrev, tPending, m, c)
  BY <1>2 DEF ListFits
<1>6. PICK k \in 0..m : p = c[k] /\ left \in Nat \ {0}
  BY <1>2, <1>4, <1>5, WalkIs
<1> HIDE DEF t, p, left
<1>7. /\ m \in Nat /\ k \in 0..(m + 1) /\ k + 1 \in 0..(m + 1) /\ 0 \in 0..m /\ 0 \in 0..(m + 1)
      /\ k # 0 => k \in 1..m /\ m + 1 # 0 + 1 /\ 0 + 1 \in 0..(m + 1) /\ m + 1 \in 0..(m + 1)
  BY <1>5, <1>6, TimerCellsAre
<1>8. n = c[k + 1] /\ p \in TimerCells /\ n \in TimerCells
  <2>1. tNext[c[k]] = c[k + 1]
    BY <1>5, <1>6 DEF ChainOf
  <2> QED BY <2>1, <1>5, <1>6, <1>7
<1>9. ListFits'
  <2>1. PICK d \in [0..((m + 1) + 1) -> TimerCells] :
               ChainOf(tNext', tPrev', tPending', m + 1, d) /\ m + 1 \in Nat
    <3>1. \E d \in [0..((m + 1) + 1) -> TimerCells] :
            ChainOf([tNext EXCEPT ![c[k]] = t, ![t] = c[k + 1]],
                    [tPrev EXCEPT ![t] = c[k], ![c[k + 1]] = t],
                    [tPending EXCEPT ![t] = TRUE], m + 1, d) /\ m + 1 \in Nat
      BY <1>2, <1>4, <1>5, <1>7, ChainInsert DEF TimerTypes
    <3>2. /\ tNext' = [tNext EXCEPT ![c[k]] = t, ![t] = c[k + 1]]
          /\ tPrev' = [tPrev EXCEPT ![t] = c[k], ![c[k + 1]] = t]
      <4> HIDE DEF n
      <4> QED BY <1>1, <1>6, <1>8
    <3> QED BY <3>1, <3>2, <1>1
  <2>2. m + 1 \in 0..NumTimers
    <3>1. m + 1 <= NumTimers
      BY <2>1, ChainShort
    <3> QED BY <3>1, <2>1, TimerCellsAre
  <2>3. \E l \in 0..NumTimers : \E e \in [0..(l + 1) -> TimerCells] :
            ChainOf(tNext', tPrev', tPending', l, e)
    BY <2>1, <2>2
  <2> QED BY <2>3 DEF ListFits, ChainOf
<1>10. TimerTypes'
  <2>1. tDelta' \in [TimerCells -> Int]
    <3> DEFINE e == [tDelta EXCEPT ![t] = left]
    <3>0. left \in Int /\ tDelta \in [TimerCells -> Int]
      BY <1>2, <1>6 DEF TimerTypes
    <3>1. e \in [TimerCells -> Int] /\ left \in Int
      BY <3>0
    <3>2. tDelta' = [e EXCEPT ![n] = IF n # TTail THEN e[n] - left ELSE e[n]]
      BY <1>1, <1>8, <3>1
    <3> HIDE DEF e, n
    <3>3. e[n] \in Int /\ e[n] - left \in Int
      BY <1>8, <3>1
    <3> QED BY <3>1, <3>2, <3>3
  <2>2. alarm' \in Int /\ elapsed' \in Int
    BY <1>1, <1>2, <1>6 DEF TimerTypes
  <2> HIDE DEF n
  <2> QED BY <1>1, <1>2, <1>4, <1>8, <2>1, <2>2 DEF TimerTypes
<1>11. FreeFits'
  <2>1. p \notin Unheld
    <3>1. p = THead \/ p \in tInUse
      <4>1. c[0] = THead
        BY <1>5 DEF ChainOf
      <4>2. k # 0 => c[k] \in TimerIds /\ tPending[c[k]]
        BY <1>5, <1>7 DEF ChainOf
      <4> QED BY <4>1, <4>2, <1>2, <1>6 DEF FreeFits
    <3> QED BY <3>1, TimerCellsAre DEF Unheld
  <2>2. \A u \in Unheld : u \in TimerCells /\ u # p /\ u # t
    BY <2>1, <1>4, TimerCellsAre DEF Unheld
  <2> HIDE DEF n
  <2>3. \A u \in Unheld : tNext'[u] = tNext[u]
    BY <1>1, <1>2, <1>4, <1>8, <2>2 DEF TimerTypes
  <2>4. \A u \in TimerIds : tPending'[u] => u \in tInUse
    BY <1>1, <1>2, <1>4, TimerCellsAre DEF TimerTypes, FreeFits
  <2> QED BY <1>1, <1>2, <2>3, <2>4, SameFree
<1>12. TimerCallFits'
  BY <1>1 DEF TimerCallFits
<1>13. AlarmFits'
  <2>1. CASE p = THead
    <3>1. alarm' = left /\ left > 0 /\ left # Nil
      BY <1>1, <1>6, <2>1 DEF Nil
    <3> QED BY <3>1 DEF AlarmFits, ListAttended
  <2>2. CASE p # THead
    <3>1. ~Empty
      <4>1. tNext[c[0]] = c[0 + 1] /\ c[0] = THead /\ c[m + 1] = TTail
        BY <1>5, <1>7 DEF ChainOf
      <4>2. k # 0
        BY <4>1, <1>6, <2>2
      <4>3. c[0 + 1] # c[m + 1]
        BY <4>2, <1>5, <1>7 DEF ChainOf
      <4> QED BY <4>1, <4>3 DEF Empty
    <3>2. UNCHANGED <<alarm, sigPending, handler>>
      BY <1>1, <2>2
    <3> QED BY <1>2, <3>1, <3>2 DEF AlarmFits, ListAttended
  <2> QED BY <2>1, <2>2
<1> QED BY <1>9, <1>10, <1>11, <1>12, <1>13 DEF TimersInv

\* A stopped timer that goes back to the free list is on no other.
LEMMA TimerDeleteInv == TimersInv /\ radTimerDelete => TimersInv'
<1> SUFFICES ASSUME TimersInv, radTimerDelete PROVE TimersInv'
  OBVIOUS
<1> DEFINE t == tPc.timer
<1>1. /\ tPc.at = "delete" /\ tNext' = [tNext EXCEPT ![t] = tFree]
      /\ tFree' = t /\ tInUse' = tInUse \ {t} /\ tPc' = Idle
      /\ UNCHANGED <<sigPending, tPrev, tDelta, tPending, elapsed, alarm, handler, ticksLeft>>
  BY DEF radTimerDelete
<1>2. TimerTypes /\ ListFits /\ FreeFits /\ TimerCallFits /\ AlarmFits
  BY DEF TimersInv
<1>3. tPc # Idle
  BY <1>1 DEF Idle
<1>4. t \in tInUse /\ t \in TimerIds /\ ~tPending[t] /\ t \in TimerCells /\ t # THead
  <2>1. tPc \in [at : {"unlink", "start", "delete"}, timer : tInUse,
                 next : {"none", "start", "delete"}, time : Nat]
    BY <1>2, <1>3 DEF TimerCallFits
  <2>2. ~tPending[tPc.timer]
    BY <1>1, <1>2, <1>3 DEF TimerCallFits
  <2>3. tPc.timer \in tInUse
    BY <2>1
  <2>4. tInUse \subseteq TimerIds /\ TimerIds \subseteq TimerCells /\ THead \notin TimerIds
    BY <1>2, TimerCellsAre DEF TimerTypes
  <2> QED BY <2>2, <2>3, <2>4
<1> HIDE DEF t
<1>5. \A x \in TimerCells : x # t => tNext'[x] = tNext[x]
  BY <1>1, <1>2 DEF TimerTypes
<1>6. ListFits'
  <2>1. PICK m, c : m \in 0..NumTimers /\ c \in [0..(m + 1) -> TimerCells]
                    /\ ChainOf(tNext, tPrev, tPending, m, c)
    BY <1>2 DEF ListFits
  <2>2. \A i \in 0..m : c[i] # t /\ c[i] \in TimerCells
    <3> SUFFICES ASSUME NEW i \in 0..m PROVE c[i] # t /\ c[i] \in TimerCells
      OBVIOUS
    <3>1. (i = 0 \/ i \in 1..m) /\ i \in 0..(m + 1)
      BY <2>1, TimerCellsAre
    <3>2. c[0] = THead /\ \A j \in 1..m : tPending[c[j]]
      BY <2>1 DEF ChainOf
    <3> QED BY <2>1, <3>1, <3>2, <1>4
  <2>3. \A i \in 0..m : tNext'[c[i]] = tNext[c[i]]
    BY <2>2, <1>5
  <2>4. ChainOf(tNext', tPrev', tPending', m, c)
    BY <2>1, <2>3, <1>1 DEF ChainOf
  <2>5. \E l \in 0..NumTimers : \E e \in [0..(l + 1) -> TimerCells] :
            ChainOf(tNext', tPrev', tPending', l, e)
    BY <2>1, <2>4
  <2> QED BY <2>5 DEF ListFits, ChainOf
<1>7. TimerTypes'
  <2>1. tFree \in TimerCells \cup {Nil}
    BY <1>2, TimerCellsAre DEF TimerTypes
  <2> QED BY <1>1, <1>2, <1>4, <2>1 DEF TimerTypes
<1>8. FreeFits'
  <2>1. Unheld' = Unheld \cup {t} /\ t \notin Unheld /\ t # Nil
    BY <1>1, <1>4, TimerCellsAre DEF Unheld
  <2>2. tNext'[t] = tFree /\ \A u \in Unheld : tNext'[u] = tNext[u]
    BY <1>1, <1>2, <1>4, <1>5, <2>1, TimerCellsAre DEF TimerTypes, Unheld
  <2>3. \A u \in Unheld' : tNext'[u] # Nil => tNext'[u] \in Unheld' /\ tNext'[u] # tFree'
    BY <1>1, <1>2, <2>1, <2>2 DEF FreeFits
  <2>4. \A u, w \in Unheld' : tNext'[u] = tNext'[w] /\ tNext'[u] # Nil => u = w
    BY <1>1, <1>2, <2>1, <2>2 DEF FreeFits
  <2>5. \A u \in TimerIds : tPending'[u] => u \in tInUse'
    BY <1>1, <1>2, <1>4 DEF FreeFits
  <2>6. tFree' # Nil => tFree' \in Unheld'
    BY <1>1, <2>1
  <2> QED BY <2>3, <2>4, <2>5, <2>6 DEF FreeFits
<1>9. TimerCallFits'
  BY <1>1 DEF TimerCallFits
<1>10. AlarmFits'
  <2>1. Empty' <=> Empty
    BY <1>4, <1>5, TimerCellsAre DEF Empty
  <2> QED BY <1>1, <1>2, <2>1 DEF AlarmFits, ListAttended
<1> QED BY <1>6, <1>7, <1>8, <1>9, <1>10 DEF TimersInv

LEMMA RunCallbackInv ==
  TimersInv /\ (RunCallback \/ UNCHANGED timerVars) => TimersInv'
<1> SUFFICES ASSUME TimersInv, RunCallback \/ UNCHANGED timerVars PROVE TimersInv'
  OBVIOUS
<1>1. UNCHANGED <<sigPending, tNext, tPrev, tDelta, tPending, tInUse, tFree, elapsed, alarm,
                  handler, ticksLeft, tPc>>
  BY DEF RunCallback, timerVars, deltaVars
<1>2. ListFits'
  BY <1>1, SameList DEF TimersInv
<1>3. TimerTypes' /\ FreeFits' /\ TimerCallFits' /\ AlarmFits'
  BY <1>1 DEF TimersInv, TimerTypes, FreeFits, Unheld, TimerCallFits, AlarmFits, ListAttended, Empty
<1> QED BY <1>2, <1>3 DEF TimersInv

LEMMA TimersStep == ~SignalInStop /\ TimersInv /\ [TimersNext]_timerVars => TimersInv'
<1> SUFFICES ASSUME ~SignalInStop, TimersInv, [TimersNext]_timerVars PROVE TimersInv'
  OBVIOUS
<1>1. CASE Tick
  BY <1>1, TickInv
<1>2. CASE SignalArrives
  BY <1>2, SignalArrivesInv
<1>3. CASE TimerExpires
  BY <1>3, TimerExpiresInv
<1>4. CASE HandlerReturns
  BY <1>4, HandlerReturnsInv
<1>5. CASE radTimerCreate
  BY <1>5, TimerCreateInv
<1>6. CASE Unlink
  BY <1>6, UnlinkInv
<1>7. CASE radTimerStart
  BY <1>7, TimerStartInv
<1>8. CASE radTimerDelete
  BY <1>8, TimerDeleteInv
<1>9. CASE RunCallback \/ UNCHANGED timerVars
  BY <1>9, RunCallbackInv
<1>10. ASSUME NEW t \in TimerIds, StopTest(t, "none", 0) \/ StopTest(t, "delete", 0) PROVE TimersInv'
  BY <1>10, StopTestInv
<1>11. ASSUME NEW t \in TimerIds, NEW time \in Times, StopTest(t, "start", time) PROVE TimersInv'
  <2>1. time \in Nat
    BY TimerAssumption
  <2> QED BY <1>11, <2>1, StopTestInv
<1> QED BY <1>1, <1>2, <1>3, <1>4, <1>5, <1>6, <1>7, <1>8, <1>9, <1>10, <1>11 DEF TimersNext

\* radtimers.c, for any number of timers and times, with SIGALRM kept out of the
\* gap between radTimerStop's test and its block: the list from head to tail is
\* exactly the pending timers, linked both ways, and while there is one an alarm is
\* set, has come or is being handled.
THEOREM TimersStayWatched == ~SignalInStop => (TimersSpec => []TimersWatched)
<1>1. TimersInv => TimersWatched
  <2> SUFFICES ASSUME TimersInv PROVE TimersWatched
    OBVIOUS
  <2>1. PICK m, c : m \in 0..NumTimers /\ c \in [0..(m + 1) -> TimerCells]
                    /\ ChainOf(tNext, tPrev, tPending, m, c)
    BY DEF TimersInv, ListFits
  <2>2. Listed = [i \in 1..(m + 2) |-> c[i - 1]] /\ m \in Nat
    BY <2>1, ListedIs, TimerCellsAre
  <2>3. /\ DOMAIN Listed = 1..(m + 2) /\ \A i \in 1..(m + 2) : Listed[i] = c[i - 1]
        /\ \A j \in 0..(m + 1) : j + 1 \in 1..(m + 2) /\ (j + 1) - 1 = j
        /\ \A i \in 1..(m + 2) : i - 1 \in 0..(m + 1)
    BY <2>2
  <2>4. \A t : OnList(t) <=> \E j \in 0..(m + 1) : c[j] = t
    BY <2>3 DEF OnList
  <2>5. /\ c[0] = THead /\ c[m + 1] = TTail /\ m + 1 \in 0..(m + 1)
        /\ \A i \in 1..m : c[i] \in TimerIds /\ tPending[c[i]]
        /\ \A t \in TimerIds : tPending[t] => \E i \in 1..m : c[i] = t
        /\ \A i \in 0..m : tPrev[c[i + 1]] = c[i]
    BY <2>1, <2>2 DEF ChainOf
  <2>6. OnList(TTail)
    BY <2>4, <2>5
  <2>7. ASSUME NEW t \in TimerIds PROVE tPending[t] <=> OnList(t)
    <3>1. t # THead /\ t # TTail
      BY TimerCellsAre
    <3>2. \A j \in 0..(m + 1) : j = 0 \/ j = m + 1 \/ j \in 1..m
      BY <2>2
    <3>3. \A j \in 1..m : j \in 0..(m + 1)
      BY <2>2
    <3>4. (\E j \in 0..(m + 1) : c[j] = t) <=> \E i \in 1..m : c[i] = t
      BY <2>5, <3>1, <3>2, <3>3
    <3>5. tPending[t] => \E i \in 1..m : c[i] = t
      BY <2>5
    <3>6. (\E i \in 1..m : c[i] = t) => tPending[t]
      BY <2>5
    <3> QED BY <2>4, <3>4, <3>5, <3>6
  <2>8. ASSUME NEW i \in DOMAIN Listed, i > 1 PROVE tPrev[Listed[i]] = Listed[i - 1]
    <3>1. i \in 1..(m + 2) /\ i - 1 \in 1..(m + 2) /\ (i - 1) - 1 \in 0..m
          /\ ((i - 1) - 1) + 1 = i - 1
      BY <2>2, <2>3, <2>8
    <3>2. Listed[i] = c[i - 1] /\ Listed[i - 1] = c[(i - 1) - 1]
      BY <2>3, <3>1
    <3>3. tPrev[c[((i - 1) - 1) + 1]] = c[(i - 1) - 1]
      BY <2>5, <3>1
    <3> QED BY <3>1, <3>2, <3>3
  <2>9. StatusMeansListed
    BY <2>6, <2>7, <2>8 DEF StatusMeansListed
  <2> QED BY <2>9 DEF TimersInv, AlarmFits, TimersWatched
<1>2. SUFFICES ASSUME ~SignalInStop PROVE TimersSpec => []TimersWatched
  OBVIOUS
<1>3. TimersInv /\ [TimersNext]_timerVars => TimersInv'
  BY <1>2, TimersStep
<1> QED BY <1>1, <1>3, TimersInitial, PTL DEF TimersSpec

-----------------------------------------------------------------------------
(* The process lists: the inductive invariant *)

PlistNodes == [prio : Int, pid : Int]
ChildStates == {"init", "running", "dead", "stillborn"}
WasReady == {"running", "dead"}

PlistTypes ==
    /\ procList \in [ProcLists -> Seq(PlistNodes)]
    /\ hasStarted \in [ProcLists -> BOOLEAN]
    /\ parent \in [ProcLists -> {"none", "idle", "starting", "taking"}]
    /\ cursor \in [ProcLists -> Int] /\ readySem \in Nat
    /\ child \in Seq(ChildStates) /\ started \in [ProcLists -> Seq(Int)]

\* A list is in the order of its priorities, a pid is in one node, and who was forked
\* later has no better priority; pids go up to n.
NodesFit(s, n) ==
    /\ \A i \in DOMAIN s : s[i].prio <= LastPriority /\ s[i].pid <= n
    /\ \A i, j \in DOMAIN s : i < j => s[i].prio <= s[j].prio
    /\ \A i, j \in DOMAIN s : s[i].pid > 0 /\ s[i].pid = s[j].pid => i = j
    /\ \A i, j \in DOMAIN s : s[i].pid > 0 /\ s[i].pid < s[j].pid => s[i].prio <= s[j].prio

\* The nodes behind the one radPlistStart is at have not been forked.
ParentFits(l) ==
    /\ ~hasStarted[l] => \A i \in DOMAIN procList[l] : procList[l][i].pid = NotStarted
    /\ parent[l] = "none" => procList[l] = << >> /\ started[l] = << >>
    /\ parent[l] # "none" => l \in madeLists
    /\ parent[l] \in {"starting", "taking"} => cursor[l] > 0 /\ hasStarted[l]
    /\ parent[l] = "starting" =>
         \A i \in DOMAIN procList[l] : i >= cursor[l] => procList[l][i].pid = NotStarted
    /\ parent[l] = "taking" =>
         \A i \in DOMAIN procList[l] : i > cursor[l] => procList[l][i].pid = NotStarted

\* Who was started lives only with a node on the list.
StartedFit(l) ==
    /\ \A i \in DOMAIN started[l] : started[l][i] \in Pids
    /\ \A i, j \in DOMAIN started[l] : i < j => started[l][i] < started[l][j]
    /\ \A i \in DOMAIN started[l] : Live(started[l][i]) =>
         \E k \in DOMAIN procList[l] : procList[l][k].pid = started[l][i]

\* While there was but one list in the system, only the process forked last can be short of ready,
\* and only while the parent waits for it.
AloneFits(l) ==
    /\ \A p \in 1..(Len(child) - 1) : child[p] \in WasReady
    /\ readySem > 0 \/ parent[l] # "taking" => \A p \in Pids : child[p] \in WasReady
    /\ parent[l] # "taking" => readySem = 0
    /\ readySem <= 1

PlistInv ==
    /\ PlistTypes
    /\ \A l \in ProcLists : NodesFit(procList[l], Len(child)) /\ ParentFits(l) /\ StartedFit(l)
    /\ \A l \in ProcLists : madeLists \subseteq {l} => AloneFits(l)

-----------------------------------------------------------------------------
(* The process lists: inserting and removing *)

\* insertAscending goes behind the nodes of no worse priority.
LEMMA InsertPosIs ==
  ASSUME NEW l \in ProcLists, NEW prio \in Int, NEW s \in Seq(PlistNodes), procList[l] = s,
         \A i, j \in DOMAIN s : i < j => s[i].prio <= s[j].prio
  PROVE  /\ InsertPos(l, prio) \in 1..(Len(s) + 1)
         /\ \A i \in DOMAIN s : IF i < InsertPos(l, prio) THEN s[i].prio <= prio
                                ELSE s[i].prio > prio
<1> DEFINE Better == {i \in DOMAIN s : \A j \in 1..i : s[j].prio <= prio}
           Worse == {i \in Nat : i \in DOMAIN s /\ s[i].prio > prio}
<1>1. DOMAIN s = 1..Len(s) /\ Len(s) \in Nat /\ \A i \in 1..Len(s) : s[i].prio \in Int
  <2>1. DOMAIN s = 1..Len(s) /\ Len(s) \in Nat /\ \A i \in 1..Len(s) : s[i] \in PlistNodes
    BY LenProperties, ElementOfSeq
  <2> QED BY <2>1 DEF PlistNodes
<1>2. \E k \in 0..Len(s) : Better = 1..k /\ \A i \in 1..Len(s) : i > k => s[i].prio > prio
  <2>1. CASE Worse = {}
    <3>1. \A i \in 1..Len(s) : s[i].prio <= prio
      BY <2>1, <1>1
    <3>2. Better = 1..Len(s)
      BY <3>1, <1>1
    <3>3. Len(s) \in 0..Len(s) /\ \A i \in 1..Len(s) : ~(i > Len(s))
      BY <1>1
    <3> QED BY <3>2, <3>3
  <2>2. CASE Worse # {}
    <3>1. PICK n \in Worse : \A i \in Worse : n <= i
      <4>1. Worse \in SUBSET Nat
        OBVIOUS
      <4> HIDE DEF Worse
      <4> QED BY <4>1, <2>2, LeastNat
    <3>2. n \in 1..Len(s) /\ s[n].prio > prio
      BY <1>1
    <3>3. \A i \in 1..Len(s) : i < n => s[i].prio <= prio
      BY <3>1, <3>2, <1>1
    <3>4. \A i \in 1..Len(s) : i >= n => s[i].prio > prio
      <4> SUFFICES ASSUME NEW i \in 1..Len(s), i >= n PROVE s[i].prio > prio
        OBVIOUS
      <4>1. s[n].prio <= s[i].prio
        BY SMTT(30), <1>1, <3>2
      <4> QED BY <4>1, <3>2, <1>1
    <3>5. Better = 1..(n - 1)
      <4>1. ASSUME NEW i \in Better PROVE i \in 1..(n - 1)
        <5>1. i \in 1..Len(s) /\ i \in 1..i
          BY <1>1
        <5>2. s[i].prio <= prio
          BY <5>1
        <5>3. ~(i >= n)
          BY <5>1, <5>2, <3>4, <1>1
        <5> QED BY <5>1, <5>3, <3>2
      <4>2. ASSUME NEW i \in 1..(n - 1) PROVE i \in Better
        <5>1. i \in DOMAIN s /\ \A j \in 1..i : j \in 1..Len(s) /\ j < n
          BY <1>1, <3>2
        <5> QED BY <5>1, <3>3
      <4> HIDE DEF Better
      <4> QED BY <4>1, <4>2
    <3>6. n - 1 \in 0..Len(s) /\ \A i \in 1..Len(s) : i > n - 1 => i >= n
      BY <3>2
    <3> HIDE DEF Better
    <3> QED BY <3>4, <3>5, <3>6
  <2> QED BY <2>1, <2>2
<1>3. PICK k \in 0..Len(s) : Better = 1..k /\ \A i \in 1..Len(s) : i > k => s[i].prio > prio
  <2> HIDE DEF Better
  <2> QED BY <1>2
<1>4. Cardinality(Better) = k
  <2>1. Cardinality(1..k) = k
    <3>1. 1 \in Int /\ k \in Int
      BY <1>1
    <3>2. Cardinality(1..k) = IF 1 > k THEN 0 ELSE k - 1 + 1
      BY <3>1, FS_Interval
    <3> QED BY <3>2, <1>1
  <2> HIDE DEF Better
  <2> QED BY <2>1, <1>3
<1>5. InsertPos(l, prio) = 1 + k
  BY <1>4 DEF InsertPos
<1>6. \A i \in 1..Len(s) : i <= k => s[i].prio <= prio
  <2> SUFFICES ASSUME NEW i \in 1..Len(s), i <= k PROVE s[i].prio <= prio
    OBVIOUS
  <2>1. i \in Better /\ i \in 1..i
    BY <1>1, <1>3
  <2> QED BY <2>1
<1>7. 1 + k \in 1..(Len(s) + 1) /\ \A i \in 1..Len(s) : (i < 1 + k => i <= k) /\ (~(i < 1 + k) => i > k)
  BY <1>1
<1> QED BY <1>1, <1>3, <1>5, <1>6, <1>7

\* The list with one node more: nothing went, and the order holds.
LEMMA InsertedFits ==
  ASSUME PlistTypes, NEW l \in ProcLists, NEW n \in Nat, NEW m \in Nat, n <= m,
         NodesFit(procList[l], n), NEW node \in PlistNodes,
         node.prio <= LastPriority, node.pid <= m,
         node.pid > 0 => node.pid > n /\ node.prio = LastPriority,
         insertAscending(l, node)
  PROVE  /\ procList' \in [ProcLists -> Seq(PlistNodes)]
         /\ \A k \in ProcLists \ {l} : procList'[k] = procList[k]
         /\ NodesFit(procList'[l], m) /\ Len(procList'[l]) = Len(procList[l]) + 1
         /\ \A i \in DOMAIN procList[l] : \E j \in DOMAIN procList'[l] : procList'[l][j] = procList[l][i]
         /\ \A j \in DOMAIN procList'[l] : \/ procList'[l][j] = node
                                           \/ \E i \in DOMAIN procList[l] : procList'[l][j] = procList[l][i]
         /\ \E j \in DOMAIN procList'[l] : procList'[l][j] = node
<1> DEFINE s == procList[l]
           q == InsertPos(l, node.prio)
           u == InsertAt(s, q, node)
<1>1. s \in Seq(PlistNodes) /\ node.prio \in Int /\ node.pid \in Int
  BY DEF PlistTypes, PlistNodes
<1>2. /\ \A i \in DOMAIN s : s[i].prio <= LastPriority /\ s[i].pid <= n
      /\ \A i, j \in DOMAIN s : i < j => s[i].prio <= s[j].prio
      /\ \A i, j \in DOMAIN s : s[i].pid > 0 /\ s[i].pid = s[j].pid => i = j
      /\ \A i, j \in DOMAIN s : s[i].pid > 0 /\ s[i].pid < s[j].pid => s[i].prio <= s[j].prio
  BY DEF NodesFit
<1>3. /\ q \in 1..(Len(s) + 1)
      /\ \A i \in DOMAIN s : IF i < q THEN s[i].prio <= node.prio ELSE s[i].prio > node.prio
  BY <1>1, <1>2, InsertPosIs
<1>4. procList' = [procList EXCEPT ![l] = u]
  BY DEF insertAscending
<1> HIDE DEF s, q
<1>5. /\ u \in Seq(PlistNodes) /\ Len(u) = Len(s) + 1
      /\ \A k \in 1..(Len(s) + 1) : u[k] = IF k < q THEN s[k] ELSE IF k = q THEN node ELSE s[k - 1]
  <2>1. u \in Seq(PlistNodes) /\ Len(u) = Len(s) + 1
    BY <1>1, <1>3, InsertAtLen
  <2>2. \A k \in 1..(Len(s) + 1) : u[k] = IF k < q THEN s[k] ELSE IF k = q THEN node ELSE s[k - 1]
    BY <1>1, <1>3, InsertAtItems
  <2> QED BY <2>1, <2>2
<1>6. /\ procList' \in [ProcLists -> Seq(PlistNodes)] /\ procList'[l] = u
      /\ \A k \in ProcLists \ {l} : procList'[k] = procList[k]
  <2> HIDE DEF u
  <2> QED BY <1>4, <1>5 DEF PlistTypes
<1> HIDE DEF u
<1> DEFINE N == Len(s)
           was(k) == IF k < q THEN k ELSE k - 1
<1>7. /\ N \in Nat /\ DOMAIN s = 1..N /\ DOMAIN u = 1..(N + 1) /\ q \in 1..(N + 1) /\ q \in Int
      /\ \A i \in 1..N : s[i].prio \in Int /\ s[i].pid \in Int
      /\ \A i \in 1..(N + 1) : u[i].prio \in Int /\ u[i].pid \in Int
  <2>1. \A i \in 1..N : s[i] \in PlistNodes
    BY <1>1
  <2>2. \A i \in 1..(N + 1) : u[i] \in PlistNodes
    BY <1>5
  <2>3. Len(s) \in Nat /\ DOMAIN s = 1..Len(s) /\ DOMAIN u = 1..Len(u)
    BY <1>1, <1>5, LenProperties
  <2>4. \A i \in 1..N : s[i].prio \in Int /\ s[i].pid \in Int
    BY <2>1 DEF PlistNodes
  <2>5. \A i \in 1..(N + 1) : u[i].prio \in Int /\ u[i].pid \in Int
    BY <2>2 DEF PlistNodes
  <2> QED BY <2>3, <2>4, <2>5, <1>3, <1>5
<1>8. \A k \in 1..(N + 1) : k # q => was(k) \in 1..N /\ u[k] = s[was(k)]
  BY <1>5, <1>7
<1>9. u[q] = node
  BY <1>5, <1>7
<1> HIDE DEF N
<1>10. \A i \in 1..(N + 1) : u[i].prio <= LastPriority /\ u[i].pid <= m
  <2> SUFFICES ASSUME NEW i \in 1..(N + 1) PROVE u[i].prio <= LastPriority /\ u[i].pid <= m
    OBVIOUS
  <2>1. CASE i = q
    BY <2>1, <1>9
  <2>2. CASE i # q
    <3> HIDE DEF was
    <3>1. PICK k \in 1..N : u[i] = s[k]
      BY <2>2, <1>8
    <3>2. s[k].prio <= LastPriority /\ s[k].pid <= n
      BY <1>2, <1>7
    <3> QED BY <3>1, <3>2, <1>7
  <2> QED BY <2>1, <2>2
<1>11. ASSUME NEW i \in 1..(N + 1), NEW j \in 1..(N + 1), i < j PROVE u[i].prio <= u[j].prio
  <2>1. CASE i = q
    <3>1. was(j) \in 1..N /\ ~(was(j) < q) /\ u[j] = s[was(j)]
      BY <2>1, <1>11, <1>7, <1>8
    <3> HIDE DEF was
    <3>2. s[was(j)].prio > node.prio
      BY <3>1, <1>3, <1>7
    <3> QED BY <3>1, <3>2, <2>1, <1>1, <1>7, <1>9
  <2>2. CASE j = q
    <3>1. was(i) \in 1..N /\ was(i) < q /\ u[i] = s[was(i)]
      BY <2>2, <1>11, <1>7, <1>8
    <3> HIDE DEF was
    <3>2. s[was(i)].prio <= node.prio
      BY <3>1, <1>3, <1>7
    <3> QED BY <3>1, <3>2, <2>2, <1>1, <1>7, <1>9
  <2>3. CASE i # q /\ j # q
    <3>1. was(i) \in 1..N /\ u[i] = s[was(i)]
      BY <2>3, <1>8
    <3>2. was(j) \in 1..N /\ u[j] = s[was(j)]
      BY <2>3, <1>8
    <3>3. was(i) < was(j)
      <4>1. i \in Int /\ j \in Int /\ q \in Int /\ i < j /\ i # q /\ j # q
        BY <2>3, <1>7, <1>11
      <4> QED BY <4>1
    <3> HIDE DEF was
    <3> QED BY <3>1, <3>2, <3>3, <1>2, <1>7
  <2> QED BY <2>1, <2>2, <2>3
<1>12. ASSUME NEW i \in 1..(N + 1), NEW j \in 1..(N + 1), u[i].pid > 0, u[i].pid = u[j].pid
       PROVE  i = j
  <2>1. \A k \in 1..N : s[k].pid <= n
    BY <1>2, <1>7
  <2>2. CASE i = q \/ j = q
    <3> HIDE DEF was
    <3>1. i # j => FALSE
      <4> SUFFICES ASSUME i # j PROVE FALSE
        OBVIOUS
      <4>1. PICK k \in 1..N : s[k].pid = node.pid /\ node.pid > 0
        BY <2>2, <1>8, <1>9, <1>12
      <4>2. node.pid > n /\ s[k].pid <= n
        BY <4>1, <2>1
      <4> QED BY <4>1, <4>2, <1>1, <1>7
    <3> QED BY <3>1
  <2>3. CASE i # q /\ j # q
    <3>1. was(i) \in 1..N /\ was(j) \in 1..N /\ u[i] = s[was(i)] /\ u[j] = s[was(j)]
      BY <2>3, <1>8
    <3>2. was(i) = was(j)
      <4> HIDE DEF was
      <4> QED BY <3>1, <1>2, <1>7, <1>12
    <3> QED BY <3>2, <2>3, <1>7
  <2> QED BY <2>2, <2>3
<1>13. ASSUME NEW i \in 1..(N + 1), NEW j \in 1..(N + 1), u[i].pid > 0, u[i].pid < u[j].pid
       PROVE  u[i].prio <= u[j].prio
  <2>1. \A k \in 1..N : s[k].pid <= n /\ s[k].prio <= LastPriority
    BY <1>2, <1>7
  <2>2. CASE j = q
    <3>1. node.pid > 0 /\ node.prio = LastPriority
      BY <2>2, <1>1, <1>7, <1>9, <1>13
    <3> QED BY <3>1, <2>2, <1>9, <1>10
  <2>3. CASE i = q /\ j # q
    <3> HIDE DEF was
    <3>1. PICK k \in 1..N : u[j] = s[k]
      BY <2>3, <1>8
    <3>2. node.pid > n /\ s[k].pid <= n /\ node.pid < s[k].pid
      BY <3>1, <2>1, <2>3, <1>9, <1>13
    <3> QED BY <3>2, <1>1, <1>7
  <2>4. CASE i # q /\ j # q
    <3>1. was(i) \in 1..N /\ was(j) \in 1..N /\ u[i] = s[was(i)] /\ u[j] = s[was(j)]
      BY <2>4, <1>8
    <3> HIDE DEF was
    <3> QED BY <3>1, <1>2, <1>7, <1>13
  <2> QED BY <2>2, <2>3, <2>4
<1>14. NodesFit(u, m)
  BY <1>7, <1>10, <1>11, <1>12, <1>13 DEF NodesFit
<1>15. \A i \in 1..N : \E j \in 1..(N + 1) : u[j] = s[i]
  <2> SUFFICES ASSUME NEW i \in 1..N PROVE \E j \in 1..(N + 1) : u[j] = s[i]
    OBVIOUS
  <2>1. CASE i < q
    <3>1. i \in 1..(N + 1) /\ i # q /\ was(i) = i
      BY <2>1, <1>7
    <3> HIDE DEF was
    <3> QED BY <3>1, <1>8
  <2>2. CASE ~(i < q)
    <3>1. i + 1 \in 1..(N + 1) /\ i + 1 # q /\ was(i + 1) = i
      BY <2>2, <1>7
    <3> HIDE DEF was
    <3> QED BY <3>1, <1>8
  <2> QED BY <2>1, <2>2
<1>16. \A j \in 1..(N + 1) : u[j] = node \/ \E i \in 1..N : u[j] = s[i]
  <2> HIDE DEF was
  <2> QED BY <1>8, <1>9
<1>17. Len(u) = Len(s) + 1
  BY <1>5
<1> HIDE DEF was
<1> QED BY <1>6, <1>7, <1>9, <1>14, <1>15, <1>16, <1>17 DEF s

\* The list with a node less, and with one forked.
LEMMA RemovedFits ==
  ASSUME NEW s \in Seq(PlistNodes), NEW n \in Nat, NodesFit(s, n), NEW q \in 1..Len(s)
  PROVE  /\ RemoveAt(s, q) \in Seq(PlistNodes) /\ NodesFit(RemoveAt(s, q), n)
         /\ \A k \in DOMAIN s : k # q => \E j \in DOMAIN RemoveAt(s, q) : RemoveAt(s, q)[j] = s[k]
         /\ \A j \in DOMAIN RemoveAt(s, q) : \E k \in DOMAIN s : RemoveAt(s, q)[j] = s[k]
<1> DEFINE u == RemoveAt(s, q)
           N == Len(s)
           was(k) == IF k < q THEN k ELSE k + 1
<1>1. /\ u \in Seq(PlistNodes) /\ Len(u) = N - 1
      /\ \A k \in 1..(N - 1) : u[k] = IF k < q THEN s[k] ELSE s[k + 1]
  BY RemoveAtIs
<1> HIDE DEF u
<1>2. /\ N \in Nat /\ DOMAIN s = 1..N /\ DOMAIN u = 1..(N - 1) /\ q \in 1..N
  BY <1>1, LenProperties
<1>3. \A k \in 1..(N - 1) : was(k) \in 1..N /\ u[k] = s[was(k)]
  BY <1>1, <1>2
<1>4. \A i, j \in 1..(N - 1) : (i < j => was(i) < was(j)) /\ (was(i) = was(j) => i = j)
  BY <1>2
<1>5. ASSUME NEW k \in 1..N, k # q PROVE \E j \in 1..(N - 1) : was(j) = k
  <2>1. CASE k < q
    <3>1. k \in 1..(N - 1) /\ was(k) = k
      BY <2>1, <1>2
    <3> HIDE DEF was
    <3> QED BY <3>1
  <2>2. CASE k > q
    <3>1. k - 1 \in 1..(N - 1) /\ was(k - 1) = k
      BY <2>2, <1>2
    <3> HIDE DEF was
    <3> QED BY <3>1
  <2>3. k < q \/ k > q
    BY <1>2, <1>5
  <2> QED BY <2>1, <2>2, <2>3
<1> HIDE DEF was, N
<1>6. NodesFit(u, n)
  BY SMTT(30), <1>2, <1>3, <1>4 DEF NodesFit
<1>7. \A k \in DOMAIN s : k # q => \E j \in DOMAIN u : u[j] = s[k]
  <2> SUFFICES ASSUME NEW k \in DOMAIN s, k # q PROVE \E j \in DOMAIN u : u[j] = s[k]
    OBVIOUS
  <2>1. PICK j \in 1..(N - 1) : was(j) = k
    BY <1>2, <1>5
  <2> QED BY <2>1, <1>2, <1>3
<1>8. \A j \in DOMAIN u : \E k \in DOMAIN s : u[j] = s[k]
  BY <1>2, <1>3
<1> QED BY <1>1, <1>6, <1>7, <1>8 DEF u

LEMMA ForkedFits ==
  ASSUME NEW s \in Seq(PlistNodes), NEW n \in Nat, NEW m \in Nat, n <= m, NodesFit(s, n),
         NEW q \in 1..Len(s), \A i \in DOMAIN s : i >= q => s[i].pid = NotStarted,
         NEW v \in Int, v <= m, v > 0 => v > n,
         NEW u, u = [s EXCEPT ![q] = [s[q] EXCEPT !.pid = v]]
  PROVE  /\ u \in Seq(PlistNodes) /\ NodesFit(u, m) /\ DOMAIN u = DOMAIN s /\ u[q].pid = v
         /\ \A i \in DOMAIN s : i # q => u[i] = s[i]
<1> DEFINE N == Len(s)
           w == [s[q] EXCEPT !.pid = v]
<1>1. /\ N \in Nat /\ DOMAIN s = 1..N /\ q \in 1..N /\ s[q] \in PlistNodes
      /\ \A i \in 1..N : s[i] \in PlistNodes
  BY LenProperties, ElementOfSeq
<1>2. w \in PlistNodes /\ w.pid = v /\ w.prio = s[q].prio
  BY <1>1 DEF PlistNodes
<1> HIDE DEF w
<1>3. /\ u \in Seq(PlistNodes) /\ Len(u) = N /\ u[q] = w
      /\ \A i \in 1..N : i # q => u[i] = s[i]
  <2>1. u = [s EXCEPT ![q] = w]
    BY DEF w
  <2> QED BY <2>1, <1>1, <1>2, ExceptSeq
<1>4. DOMAIN u = 1..N
  BY <1>3, LenProperties
<1> HIDE DEF N
<1>5. \A i \in 1..N : u[i].prio = s[i].prio /\ s[i].prio \in Int /\ s[i].pid \in Int
  BY <1>1, <1>2, <1>3 DEF PlistNodes
<1>6. /\ \A i \in 1..N : s[i].prio <= LastPriority /\ s[i].pid <= n
      /\ \A i, j \in 1..N : i < j => s[i].prio <= s[j].prio
      /\ \A i, j \in 1..N : s[i].pid > 0 /\ s[i].pid = s[j].pid => i = j
      /\ \A i, j \in 1..N : s[i].pid > 0 /\ s[i].pid < s[j].pid => s[i].prio <= s[j].prio
      /\ \A i \in 1..N : i >= q => s[i].pid = 0
  BY <1>1 DEF NodesFit, NotStarted
<1>7. \A i \in 1..N : u[i].prio <= LastPriority /\ u[i].pid <= m
  <2> SUFFICES ASSUME NEW i \in 1..N PROVE u[i].prio <= LastPriority /\ u[i].pid <= m
    OBVIOUS
  <2>1. u[i].prio <= LastPriority
    BY <1>5, <1>6
  <2>2. CASE i = q
    BY <2>1, <2>2, <1>2, <1>3
  <2>3. CASE i # q
    <3>1. s[i].pid <= m
      BY <1>5, <1>6
    <3> QED BY <2>1, <2>3, <3>1, <1>3
  <2> QED BY <2>2, <2>3
<1>8. \A i, j \in 1..N : i < j => u[i].prio <= u[j].prio
  BY <1>5, <1>6
<1>9. ASSUME NEW i \in 1..N, NEW j \in 1..N, u[i].pid > 0, u[i].pid = u[j].pid PROVE i = j
  <2>1. CASE i # q /\ j # q
    BY <2>1, <1>3, <1>6, <1>9
  <2>2. CASE i = q /\ j # q
    <3>1. v > 0 /\ s[j].pid = v /\ s[j].pid <= n
      BY <2>2, <1>2, <1>3, <1>6, <1>9
    <3> QED BY <3>1
  <2>3. CASE j = q /\ i # q
    <3>1. v > 0 /\ s[i].pid = v /\ s[i].pid <= n
      BY <2>3, <1>2, <1>3, <1>6, <1>9
    <3> QED BY <3>1
  <2> QED BY <2>1, <2>2, <2>3
<1>10. ASSUME NEW i \in 1..N, NEW j \in 1..N, u[i].pid > 0, u[i].pid < u[j].pid
       PROVE  u[i].prio <= u[j].prio
  <2>1. CASE i # q /\ j # q
    BY <2>1, <1>3, <1>6, <1>10
  <2>2. CASE i = q /\ j # q
    <3>1. v > 0 /\ v < s[j].pid /\ s[j].pid <= n
      BY <2>2, <1>2, <1>3, <1>6, <1>10
    <3> QED BY <3>1, <1>5
  <2>3. CASE j = q /\ i # q
    <3>1. s[i].pid > 0
      BY <2>3, <1>3, <1>10
    <3>2. i < q
      BY <3>1, <1>1, <1>6
    <3> QED BY <3>2, <2>3, <1>8
  <2>4. CASE i = q /\ j = q
    BY <2>4, <1>5
  <2> QED BY <2>1, <2>2, <2>3, <2>4
<1>11. NodesFit(u, m)
  BY <1>4, <1>7, <1>8, <1>9, <1>10 DEF NodesFit
<1> QED BY <1>1, <1>2, <1>3, <1>4, <1>11

-----------------------------------------------------------------------------
(* The process lists: one step *)

LEMMA PlistFacts ==
  ASSUME PlistTypes
  PROVE  /\ Len(child) \in Nat /\ Pids = 1..Len(child) /\ DOMAIN child = 1..Len(child)
         /\ \A p \in Pids : child[p] \in ChildStates
         /\ \A l \in ProcLists :
              /\ procList[l] \in Seq(PlistNodes) /\ Len(procList[l]) \in Nat
              /\ DOMAIN procList[l] = 1..Len(procList[l])
              /\ \A i \in DOMAIN procList[l] : procList[l][i].pid \in Int /\ procList[l][i].prio \in Int
              /\ started[l] \in Seq(Int) /\ Len(started[l]) \in Nat
              /\ DOMAIN started[l] = 1..Len(started[l])
              /\ \A i \in DOMAIN started[l] : started[l][i] \in Int
<1>1. Len(child) \in Nat /\ DOMAIN child = 1..Len(child) /\ \A p \in 1..Len(child) : child[p] \in ChildStates
  BY LenProperties, ElementOfSeq DEF PlistTypes
<1>2. ASSUME NEW l \in ProcLists
      PROVE  /\ procList[l] \in Seq(PlistNodes) /\ Len(procList[l]) \in Nat
             /\ DOMAIN procList[l] = 1..Len(procList[l])
             /\ \A i \in DOMAIN procList[l] : procList[l][i].pid \in Int /\ procList[l][i].prio \in Int
             /\ started[l] \in Seq(Int) /\ Len(started[l]) \in Nat
             /\ DOMAIN started[l] = 1..Len(started[l])
             /\ \A i \in DOMAIN started[l] : started[l][i] \in Int
  <2>1. procList[l] \in Seq(PlistNodes) /\ started[l] \in Seq(Int)
    BY DEF PlistTypes
  <2>2. /\ Len(procList[l]) \in Nat /\ DOMAIN procList[l] = 1..Len(procList[l])
        /\ \A i \in 1..Len(procList[l]) : procList[l][i] \in PlistNodes
    BY <2>1, LenProperties, ElementOfSeq
  <2>3. /\ Len(started[l]) \in Nat /\ DOMAIN started[l] = 1..Len(started[l])
        /\ \A i \in 1..Len(started[l]) : started[l][i] \in Int
    BY <2>1, LenProperties, ElementOfSeq
  <2>4. \A i \in 1..Len(procList[l]) : procList[l][i].pid \in Int /\ procList[l][i].prio \in Int
    BY <2>2 DEF PlistNodes
  <2> QED BY <2>1, <2>2, <2>3, <2>4
<1> QED BY <1>1, <1>2 DEF Pids

\* A fork adds a process and leaves the others.
LEMMA ChildAppended ==
  ASSUME PlistTypes, NEW x \in ChildStates, child' = Append(child, x)
  PROVE  /\ child' \in Seq(ChildStates) /\ Len(child') = Len(child) + 1
         /\ \A p \in Pids : child'[p] = child[p]
         /\ child'[Len(child) + 1] = x
<1>1. child \in Seq(ChildStates) /\ Pids = 1..Len(child)
  BY DEF PlistTypes, Pids
<1> QED BY <1>1, AppendProperties

\* What a list keeps when a step leaves it alone and no process comes to life.
LEMMA UntouchedList ==
  ASSUME PlistTypes, NEW l \in ProcLists, NodesFit(procList[l], Len(child)), ParentFits(l),
         StartedFit(l), child' \in Seq(ChildStates), Len(child') >= Len(child),
         \A p \in Pids : Live(p)' => Live(p), madeLists \subseteq madeLists',
         procList'[l] = procList[l], started'[l] = started[l], parent'[l] = parent[l],
         hasStarted'[l] = hasStarted[l], cursor'[l] = cursor[l]
  PROVE  NodesFit(procList'[l], Len(child')) /\ ParentFits(l)' /\ StartedFit(l)'
<1>1. Len(child') \in Nat /\ Len(child) \in Nat /\ Pids = 1..Len(child) /\ Pids' = 1..Len(child')
  BY PlistFacts, LenProperties DEF Pids
<1>2. Pids \subseteq Pids'
  BY <1>1
<1>3. NodesFit(procList'[l], Len(child'))
  BY <1>1, PlistFacts DEF NodesFit
<1>4. ParentFits(l)'
  BY DEF ParentFits
<1>5. StartedFit(l)'
  BY <1>2 DEF StartedFit
<1> QED BY <1>3, <1>4, <1>5

\* A step of one parent.
LEMMA OneListStep ==
  ASSUME PlistInv, PlistTypes', NEW l \in ProcLists,
         madeLists \subseteq madeLists', l \in madeLists',
         Len(child') >= Len(child), \A p \in Pids : Live(p)' => Live(p),
         \A k \in ProcLists \ {l} :
            /\ procList'[k] = procList[k] /\ started'[k] = started[k] /\ parent'[k] = parent[k]
            /\ hasStarted'[k] = hasStarted[k] /\ cursor'[k] = cursor[k],
         NodesFit(procList'[l], Len(child')), ParentFits(l)', StartedFit(l)',
         AloneFits(l) => AloneFits(l)'
  PROVE  PlistInv'
<1>1. child' \in Seq(ChildStates)
  BY DEF PlistTypes
<1>2. \A k \in ProcLists : NodesFit(procList'[k], Len(child')) /\ ParentFits(k)' /\ StartedFit(k)'
  <2> SUFFICES ASSUME NEW k \in ProcLists, k # l
               PROVE  NodesFit(procList'[k], Len(child')) /\ ParentFits(k)' /\ StartedFit(k)'
    OBVIOUS
  <2> QED BY <1>1, UntouchedList DEF PlistInv
<1>3. \A k \in ProcLists : madeLists' \subseteq {k} => AloneFits(k)'
  BY DEF PlistInv
<1>4. \A k \in ProcLists : NodesFit(procList[k], Len(child))'
  BY <1>2
<1> QED BY <1>2, <1>3, <1>4 DEF PlistInv

\* A process is started: its pid comes last.
LEMMA StartedAppended ==
  ASSUME PlistTypes, NEW l \in ProcLists, StartedFit(l),
         Len(child') = Len(child) + 1, \A p \in Pids : child'[p] = child[p],
         started'[l] = Append(started[l], Len(child) + 1),
         \E k \in DOMAIN procList'[l] : procList'[l][k].pid = Len(child) + 1,
         \A i \in DOMAIN started[l] : Live(started[l][i]) =>
            \E k \in DOMAIN procList'[l] : procList'[l][k].pid = started[l][i]
  PROVE  StartedFit(l)'
<1>1. PICK old, n : old = started[l] /\ n = Len(child)
  OBVIOUS
<1>2. old \in Seq(Int) /\ n \in Nat /\ Pids = 1..n
  BY <1>1, LenProperties DEF PlistTypes, Pids
<1>3. PICK L : L = Len(old)
  OBVIOUS
<1>4. /\ L \in Nat /\ DOMAIN old = 1..L /\ \A i \in 1..L : old[i] \in 1..n
      /\ \A i, j \in 1..L : i < j => old[i] < old[j]
  BY SMTT(60), <1>1, <1>2, <1>3, LenProperties DEF StartedFit
<1>5. PICK new : new = Append(old, n + 1)
  OBVIOUS
<1>6. /\ DOMAIN new = 1..(L + 1) /\ new[L + 1] = n + 1 /\ \A i \in 1..L : new[i] = old[i]
  <2>1. n + 1 \in Int
    BY <1>2
  <2> QED BY <1>2, <1>3, <1>5, <2>1, AppendProperties, LenProperties
<1>7. \A i \in 1..(L + 1) : i \in 1..L \/ i = L + 1
  BY <1>4
<1>8. started'[l] = new /\ Pids' = 1..(n + 1)
  BY <1>1, <1>5, <1>2 DEF Pids
<1>9. \A i \in 1..(L + 1) : new[i] \in 1..(n + 1)
  <2>1. (\A x \in 1..n : x \in 1..(n + 1)) /\ n + 1 \in 1..(n + 1)
    BY <1>2
  <2> QED BY <2>1, <1>4, <1>6, <1>7
<1>10. \A i, j \in 1..(L + 1) : i < j => new[i] < new[j]
  <2> SUFFICES ASSUME NEW i \in 1..(L + 1), NEW j \in 1..(L + 1), i < j PROVE new[i] < new[j]
    OBVIOUS
  <2>1. i \in 1..L
    BY <1>4
  <2>2. new[i] = old[i] /\ old[i] \in 1..n /\ old[i] < n + 1
    BY <2>1, <1>2, <1>4, <1>6
  <2>3. CASE j = L + 1
    BY <2>2, <2>3, <1>6
  <2>4. CASE j \in 1..L
    BY <2>1, <2>2, <2>4, <1>4, <1>6
  <2> QED BY <2>3, <2>4, <1>7
<1>11. \A i \in 1..(L + 1) : child'[new[i]] \in {"init", "running"} =>
          \E k \in DOMAIN procList'[l] : procList'[l][k].pid = new[i]
  <2> SUFFICES ASSUME NEW i \in 1..(L + 1), child'[new[i]] \in {"init", "running"}
               PROVE  \E k \in DOMAIN procList'[l] : procList'[l][k].pid = new[i]
    OBVIOUS
  <2>1. CASE i = L + 1
    BY <2>1, <1>1, <1>6
  <2>2. CASE i \in 1..L
    <3>1. new[i] = started[l][i] /\ i \in DOMAIN started[l] /\ new[i] \in Pids
      BY <2>2, <1>1, <1>2, <1>4, <1>6
    <3>2. child[new[i]] \in {"init", "running"}
      BY <3>1
    <3> QED BY <3>1, <3>2 DEF Live
  <2> QED BY <2>1, <2>2, <1>7
<1> QED BY <1>6, <1>8, <1>9, <1>10, <1>11 DEF StartedFit, Live

LEMMA PlistInitial == PlistInit => PlistInv
<1> SUFFICES ASSUME PlistInit PROVE PlistInv
  OBVIOUS
<1>1. /\ procList = [l \in ProcLists |-> << >>] /\ hasStarted = [l \in ProcLists |-> FALSE]
      /\ parent = [l \in ProcLists |-> "none"] /\ cursor = [l \in ProcLists |-> 0]
      /\ readySem = 0 /\ child = << >> /\ started = [l \in ProcLists |-> << >>]
  BY DEF PlistInit
<1>2. << >> \in Seq(PlistNodes) /\ << >> \in Seq(ChildStates) /\ << >> \in Seq(Int) /\ Len(<< >>) = 0
  BY EmptySeq
<1>3. PlistTypes
  BY <1>1, <1>2 DEF PlistTypes
<1>4. Pids = {} /\ 1..(Len(child) - 1) = {}
  BY <1>1, <1>2 DEF Pids
<1>5. ASSUME NEW l \in ProcLists
      PROVE  NodesFit(procList[l], Len(child)) /\ ParentFits(l) /\ StartedFit(l) /\ AloneFits(l)
  <2>1. DOMAIN procList[l] = {} /\ DOMAIN started[l] = {}
    BY <1>1
  <2>2. NodesFit(procList[l], Len(child))
    BY <2>1 DEF NodesFit
  <2>3. ParentFits(l) /\ StartedFit(l)
    BY <2>1, <1>1 DEF ParentFits, StartedFit
  <2>4. AloneFits(l)
    BY <1>1, <1>4 DEF AloneFits
  <2> QED BY <2>2, <2>3, <2>4
<1> QED BY <1>3, <1>5 DEF PlistInv

LEMMA ProcListCreateInv ==
  ASSUME PlistInv, NEW l \in ProcLists, radProcListCreate(l) PROVE PlistInv'
<1>0. madeLists' = madeLists \cup {l}
  BY DEF radProcListCreate
<1>1. /\ parent[l] = "none" /\ parent' = [parent EXCEPT ![l] = "idle"]
      /\ hasStarted' = [hasStarted EXCEPT ![l] = FALSE] /\ readySem' = 0
      /\ procList' = procList /\ cursor' = cursor /\ child' = child /\ started' = started
  BY DEF radProcListCreate
<1>2. PlistTypes /\ NodesFit(procList[l], Len(child)) /\ ParentFits(l) /\ StartedFit(l)
  BY DEF PlistInv
<1>3. PlistTypes' /\ parent'[l] = "idle"
  BY <1>1, <1>2 DEF PlistTypes
<1>4. procList[l] = << >> /\ DOMAIN procList[l] = {} /\ Len(child) \in Nat
  BY <1>0, <1>1, <1>2, PlistFacts DEF ParentFits
<1>5. ParentFits(l)'
  BY <1>0, <1>1, <1>3, <1>4 DEF ParentFits
<1>6. StartedFit(l)' /\ \A p \in Pids : Live(p)' => Live(p)
  BY <1>1, <1>2 DEF StartedFit, Pids, Live
<1>7. AloneFits(l) => AloneFits(l)'
  BY <1>1, <1>3 DEF AloneFits, Pids
<1>8. \A k \in ProcLists \ {l} :
        /\ procList'[k] = procList[k] /\ started'[k] = started[k] /\ parent'[k] = parent[k]
        /\ hasStarted'[k] = hasStarted[k] /\ cursor'[k] = cursor[k]
  BY <1>1, <1>2 DEF PlistTypes
<1>9. NodesFit(procList'[l], Len(child')) /\ Len(child') >= Len(child)
  BY <1>1, <1>2, <1>4
<1> QED BY <1>0, <1>3, <1>5, <1>6, <1>7, <1>8, <1>9, OneListStep

LEMMA PlistDestroyInv ==
  ASSUME PlistInv, NEW l \in ProcLists, radPlistDestroy(l) PROVE PlistInv'
<1>0. l \in madeLists /\ madeLists' = madeLists
  BY DEF PlistInv, ParentFits, radPlistDestroy, plistHistory
<1>1. /\ parent[l] = "idle" /\ parent' = [parent EXCEPT ![l] = "none"]
      /\ procList' = [procList EXCEPT ![l] = << >>] /\ started' = [started EXCEPT ![l] = << >>]
      /\ hasStarted' = hasStarted /\ readySem' = readySem /\ cursor' = cursor /\ child' = child
  BY DEF radPlistDestroy
<1>2. PlistTypes /\ NodesFit(procList[l], Len(child)) /\ ParentFits(l) /\ StartedFit(l)
  BY DEF PlistInv
<1>3. PlistTypes'
  <2>1. << >> \in Seq(PlistNodes) /\ << >> \in Seq(Int)
    BY EmptySeq
  <2> QED BY <1>1, <1>2, <2>1 DEF PlistTypes
<1>4. /\ parent'[l] = "none" /\ procList'[l] = << >> /\ started'[l] = << >> /\ Len(child) \in Nat
      /\ DOMAIN procList'[l] = {} /\ DOMAIN started'[l] = {}
  BY <1>1, <1>2, PlistFacts DEF PlistTypes
<1>5. NodesFit(procList'[l], Len(child'))
  BY <1>4 DEF NodesFit
<1>6. ParentFits(l)' /\ StartedFit(l)' /\ \A p \in Pids : Live(p)' => Live(p)
  BY <1>1, <1>4 DEF ParentFits, StartedFit, Pids, Live
<1>7. AloneFits(l) => AloneFits(l)'
  BY <1>1, <1>4 DEF AloneFits, Pids
<1>8. \A k \in ProcLists \ {l} :
        /\ procList'[k] = procList[k] /\ started'[k] = started[k] /\ parent'[k] = parent[k]
        /\ hasStarted'[k] = hasStarted[k] /\ cursor'[k] = cursor[k]
  BY <1>1, <1>2 DEF PlistTypes
<1> QED BY <1>0, <1>1, <1>3, <1>4, <1>5, <1>6, <1>7, <1>8, OneListStep

LEMMA PlistAddInv ==
  ASSUME PlistInv, NEW l \in ProcLists, NEW prio \in Priorities, radPlistAdd(l, prio)
  PROVE  PlistInv'
<1>0. l \in madeLists /\ madeLists' = madeLists
  BY DEF PlistInv, ParentFits, radPlistAdd, plistHistory
<1> DEFINE nd == Node(prio, NotStarted)
<1>1. /\ parent[l] = "idle" /\ prio \in 1..100 /\ insertAscending(l, nd)
      /\ hasStarted' = hasStarted /\ parent' = parent /\ cursor' = cursor /\ readySem' = readySem
      /\ child' = child /\ started' = started
  BY DEF radPlistAdd
<1>2. /\ PlistTypes /\ NodesFit(procList[l], Len(child)) /\ ParentFits(l) /\ StartedFit(l)
      /\ Len(child) \in Nat
  BY PlistFacts DEF PlistInv
<1>3. nd \in PlistNodes /\ nd.prio <= LastPriority /\ nd.pid = 0
  BY <1>1 DEF Node, PlistNodes, NotStarted, LastPriority
<1> HIDE DEF nd
<1>4. /\ procList' \in [ProcLists -> Seq(PlistNodes)]
      /\ \A k \in ProcLists \ {l} : procList'[k] = procList[k]
      /\ NodesFit(procList'[l], Len(child))
      /\ \A i \in DOMAIN procList[l] : \E j \in DOMAIN procList'[l] : procList'[l][j] = procList[l][i]
      /\ \A j \in DOMAIN procList'[l] : \/ procList'[l][j] = nd
                                        \/ \E i \in DOMAIN procList[l] : procList'[l][j] = procList[l][i]
  BY <1>1, <1>2, <1>3, InsertedFits
<1>5. PlistTypes'
  BY <1>1, <1>2, <1>4 DEF PlistTypes
<1>6. ParentFits(l)'
  BY <1>0, <1>1, <1>2, <1>3, <1>4 DEF ParentFits, NotStarted
<1>7. StartedFit(l)' /\ \A p \in Pids : Live(p)' => Live(p)
  BY SMTT(30), <1>1, <1>2, <1>4 DEF StartedFit, Pids, Live
<1>8. AloneFits(l) => AloneFits(l)'
  BY <1>1 DEF AloneFits, Pids
<1> QED BY <1>0, <1>1, <1>2, <1>4, <1>5, <1>6, <1>7, <1>8, OneListStep

LEMMA PlistAddPidInv ==
  ASSUME PlistInv, NEW l \in ProcLists, radPlistAddPid(l) PROVE PlistInv'
<1>0. l \in madeLists /\ madeLists' = madeLists
  BY DEF PlistInv, ParentFits, radPlistAddPid, plistHistory
<1> DEFINE n == Len(child)
           nd == Node(LastPriority, n + 1)
<1>1. /\ parent[l] = "idle" /\ hasStarted[l] /\ child' = Append(child, "running")
      /\ insertAscending(l, nd)
      /\ hasStarted' = hasStarted /\ parent' = parent /\ cursor' = cursor /\ readySem' = readySem
      /\ started' = started
  BY DEF radPlistAddPid
<1>2. /\ PlistTypes /\ NodesFit(procList[l], n) /\ ParentFits(l) /\ StartedFit(l)
      /\ n \in Nat /\ Pids = 1..n
  BY PlistFacts DEF PlistInv
<1>3. nd \in PlistNodes /\ nd.prio = LastPriority /\ nd.pid = n + 1
  BY <1>2 DEF Node, PlistNodes, LastPriority
<1>4. /\ child' \in Seq(ChildStates) /\ Len(child') = n + 1
      /\ (\A p \in Pids : child'[p] = child[p]) /\ child'[n + 1] = "running"
  BY <1>1, <1>2, ChildAppended DEF ChildStates
<1> HIDE DEF nd, n
<1>5. /\ procList' \in [ProcLists -> Seq(PlistNodes)]
      /\ \A k \in ProcLists \ {l} : procList'[k] = procList[k]
      /\ NodesFit(procList'[l], n + 1)
      /\ \A i \in DOMAIN procList[l] : \E j \in DOMAIN procList'[l] : procList'[l][j] = procList[l][i]
  <2>1. nd.prio <= LastPriority /\ n + 1 \in Nat /\ n <= n + 1 /\ nd.pid <= n + 1 /\ nd.pid > n
    BY <1>2, <1>3 DEF LastPriority
  <2> QED BY <1>1, <1>2, <1>3, <2>1, InsertedFits
<1>6. PlistTypes'
  BY <1>1, <1>2, <1>4, <1>5 DEF PlistTypes
<1>7. Pids' = Pids \cup {n + 1} /\ Pids' = 1..(n + 1)
  BY <1>2, <1>4 DEF Pids
<1>8. ParentFits(l)'
  BY <1>0, <1>1 DEF ParentFits
<1>9. StartedFit(l)' /\ \A p \in Pids : Live(p)' => Live(p)
  BY SMTT(60), <1>1, <1>2, <1>4, <1>5, <1>7 DEF StartedFit, Live
<1>10. AloneFits(l) => AloneFits(l)'
  <2>1. (n + 1) - 1 = n
    BY <1>2
  <2> QED BY <1>1, <1>2, <1>4, <1>7, <2>1 DEF AloneFits, WasReady
<1>11. Len(child') >= Len(child)
  BY <1>2, <1>4 DEF n
<1> QED BY <1>0, <1>1, <1>4, <1>5, <1>6, <1>8, <1>9, <1>10, <1>11, OneListStep

LEMMA PlistRemovePidInv ==
  ASSUME PlistInv, NEW l \in ProcLists, NEW p \in Pids, radPlistRemovePid(l, p) PROVE PlistInv'
<1>0. l \in madeLists /\ madeLists' = madeLists
  BY DEF PlistInv, ParentFits, radPlistRemovePid, plistHistory
<1> DEFINE s == procList[l]
<1>1. PICK q \in DOMAIN s : s[q].pid = p /\ procList' = [procList EXCEPT ![l] = RemoveAt(s, q)]
  BY DEF radPlistRemovePid
<1>2. /\ parent[l] = "idle" /\ child[p] = "dead"
      /\ hasStarted' = hasStarted /\ parent' = parent /\ cursor' = cursor /\ readySem' = readySem
      /\ child' = child /\ started' = started
  BY DEF radPlistRemovePid
<1>3. /\ PlistTypes /\ NodesFit(s, Len(child)) /\ ParentFits(l) /\ StartedFit(l)
      /\ Len(child) \in Nat /\ s \in Seq(PlistNodes) /\ DOMAIN s = 1..Len(s)
  BY PlistFacts DEF PlistInv
<1> DEFINE u == RemoveAt(s, q)
<1>4. /\ u \in Seq(PlistNodes) /\ NodesFit(u, Len(child))
      /\ \A k \in DOMAIN s : k # q => \E j \in DOMAIN u : u[j] = s[k]
      /\ \A j \in DOMAIN u : \E k \in DOMAIN s : u[j] = s[k]
  <2>1. q \in 1..Len(s)
    BY <1>3
  <2> HIDE DEF s
  <2> QED BY <1>3, <2>1, RemovedFits
<1> HIDE DEF u
<1>5. /\ procList' \in [ProcLists -> Seq(PlistNodes)] /\ procList'[l] = u
      /\ \A k \in ProcLists \ {l} : procList'[k] = procList[k]
  <2>1. procList' = [procList EXCEPT ![l] = u]
    BY <1>1 DEF u
  <2> QED BY <2>1, <1>3, <1>4 DEF PlistTypes
<1>6. PlistTypes'
  BY <1>2, <1>3, <1>5 DEF PlistTypes
<1>7. ParentFits(l)'
  BY <1>0, <1>2, <1>3, <1>4, <1>5 DEF ParentFits
<1>8. StartedFit(l)'
  <2>1. ASSUME NEW i \in DOMAIN started[l], Live(started[l][i])
        PROVE  \E k \in DOMAIN u : u[k].pid = started[l][i]
    <3>1. PICK k \in DOMAIN s : s[k].pid = started[l][i]
      BY <2>1, <1>3 DEF StartedFit
    <3>2. k # q
      BY <3>1, <2>1, <1>1, <1>2 DEF Live
    <3>3. PICK j \in DOMAIN u : u[j] = s[k]
      BY <3>2, <1>4
    <3> QED BY <3>1, <3>3
  <2> QED BY <2>1, <1>2, <1>3, <1>5 DEF StartedFit, Pids, Live
<1>9. AloneFits(l) => AloneFits(l)'
  BY <1>2 DEF AloneFits, Pids
<1>10. \A r \in Pids : Live(r)' => Live(r)
  BY <1>2 DEF Live
<1>11. NodesFit(procList'[l], Len(child')) /\ Len(child') >= Len(child)
  BY <1>2, <1>3, <1>4, <1>5
<1> QED BY <1>0, <1>2, <1>5, <1>6, <1>7, <1>8, <1>9, <1>10, <1>11, OneListStep

LEMMA PlistStartInv ==
  ASSUME PlistInv, NEW l \in ProcLists, radPlistStart(l) PROVE PlistInv'
<1>0. l \in madeLists /\ madeLists' = madeLists
  BY DEF PlistInv, ParentFits, radPlistStart, plistHistory
<1>1. /\ parent[l] = "idle" /\ ~hasStarted[l] /\ hasStarted' = [hasStarted EXCEPT ![l] = TRUE]
      /\ parent' = [parent EXCEPT ![l] = "starting"] /\ cursor' = [cursor EXCEPT ![l] = 1]
      /\ procList' = procList /\ readySem' = readySem /\ child' = child /\ started' = started
  BY DEF radPlistStart
<1>2. /\ PlistTypes /\ NodesFit(procList[l], Len(child)) /\ ParentFits(l) /\ StartedFit(l)
      /\ Len(child) \in Nat
  BY PlistFacts DEF PlistInv
<1>3. PlistTypes' /\ parent'[l] = "starting" /\ cursor'[l] = 1 /\ hasStarted'[l] = TRUE
  BY <1>1, <1>2 DEF PlistTypes
<1>4. ParentFits(l)'
  BY <1>0, <1>1, <1>2, <1>3 DEF ParentFits
<1>5. StartedFit(l)' /\ \A p \in Pids : Live(p)' => Live(p)
  BY <1>1, <1>2 DEF StartedFit, Pids, Live
<1>6. AloneFits(l) => AloneFits(l)'
  BY <1>1, <1>3 DEF AloneFits, Pids
<1>7. \A k \in ProcLists \ {l} :
        /\ procList'[k] = procList[k] /\ started'[k] = started[k] /\ parent'[k] = parent[k]
        /\ hasStarted'[k] = hasStarted[k] /\ cursor'[k] = cursor[k]
  BY <1>1, <1>2 DEF PlistTypes
<1>8. NodesFit(procList'[l], Len(child')) /\ Len(child') >= Len(child)
  BY <1>1, <1>2
<1> QED BY <1>0, <1>3, <1>4, <1>5, <1>6, <1>7, <1>8, OneListStep

\* radStartProcess: the node at the cursor has no process yet that it could lose.
LEMMA StartProcessInv ==
  ASSUME PlistInv, NEW l \in ProcLists, radStartProcess(l) PROVE PlistInv'
<1>0. l \in madeLists /\ madeLists' = madeLists
  BY DEF PlistInv, ParentFits, radStartProcess, plistHistory
<1> DEFINE n == Len(child)
           s == procList[l]
           q == cursor[l]
<1>1. /\ parent[l] = "starting" /\ q <= Len(s) /\ parent' = [parent EXCEPT ![l] = "taking"]
      /\ hasStarted' = hasStarted /\ cursor' = cursor /\ readySem' = readySem
  BY DEF radStartProcess
<1>2. /\ PlistTypes /\ NodesFit(s, n) /\ ParentFits(l) /\ StartedFit(l)
      /\ n \in Nat /\ Pids = 1..n /\ s \in Seq(PlistNodes) /\ Len(s) \in Nat /\ DOMAIN s = 1..Len(s)
      /\ started[l] \in Seq(Int) /\ Len(started[l]) \in Nat /\ DOMAIN started[l] = 1..Len(started[l])
  BY PlistFacts DEF PlistInv
<1>3. /\ q \in 1..Len(s) /\ \A i \in DOMAIN s : i >= q => s[i].pid = NotStarted
      /\ parent'[l] = "taking" /\ hasStarted[l]
  <2>1. q > 0 /\ hasStarted[l] /\ \A i \in DOMAIN s : i >= q => s[i].pid = NotStarted
    BY <1>0, <1>1, <1>2 DEF ParentFits
  <2>2. q \in Int /\ parent'[l] = "taking"
    BY <1>1, <1>2 DEF PlistTypes
  <2>3. q \in 1..Len(s)
    <3>1. q \in Int /\ q > 0 /\ q <= Len(s) /\ Len(s) \in Nat
      BY <2>1, <2>2, <1>1, <1>2
    <3> HIDE DEF q, s
    <3> QED BY <3>1
  <2> QED BY <2>1, <2>2, <2>3
<1> HIDE DEF q
<1>4. ASSUME NEW m \in Nat, n <= m, NEW v \in Int, v <= m, v > 0 => v > n,
             procList' = [procList EXCEPT ![l][q].pid = v]
      PROVE  /\ procList' \in [ProcLists -> Seq(PlistNodes)]
             /\ \A k \in ProcLists \ {l} : procList'[k] = procList[k]
             /\ NodesFit(procList'[l], m) /\ DOMAIN procList'[l] = DOMAIN s
             /\ procList'[l][q].pid = v
             /\ \A i \in DOMAIN s : i # q => procList'[l][i] = s[i]
  <2> DEFINE u == [s EXCEPT ![q] = [s[q] EXCEPT !.pid = v]]
  <2>1. procList' = [procList EXCEPT ![l] = u]
    BY <1>4
  <2> HIDE DEF s
  <2>2. /\ u \in Seq(PlistNodes) /\ NodesFit(u, m) /\ DOMAIN u = DOMAIN s /\ u[q].pid = v
        /\ \A i \in DOMAIN s : i # q => u[i] = s[i]
    BY ZenonT(60), <1>2, <1>3, <1>4, ForkedFits
  <2> HIDE DEF u
  <2>3. procList \in [ProcLists -> Seq(PlistNodes)]
    BY <1>2 DEF PlistTypes
  <2>4. /\ procList' \in [ProcLists -> Seq(PlistNodes)] /\ procList'[l] = u
        /\ \A k \in ProcLists \ {l} : procList'[k] = procList[k]
    BY <2>1, <2>2, <2>3
  <2> QED BY <2>2, <2>4
<1>5. ASSUME \A i \in DOMAIN s : i # q => procList'[l][i] = s[i], DOMAIN procList'[l] = DOMAIN s
      PROVE  ParentFits(l)'
  <2>1. q \in Int
    BY <1>3
  <2> QED BY <1>0, <1>1, <1>2, <1>3, <1>5, <2>1 DEF ParentFits, q
<1>6. ASSUME \A i \in DOMAIN s : i # q => procList'[l][i] = s[i], DOMAIN procList'[l] = DOMAIN s,
             NEW i \in DOMAIN started[l], Live(started[l][i])
      PROVE  \E k \in DOMAIN procList'[l] : procList'[l][k].pid = started[l][i]
  <2>1. started[l][i] \in Pids
    BY <1>2 DEF StartedFit
  <2>2. PICK k \in DOMAIN s : s[k].pid = started[l][i]
    BY <1>2, <1>6 DEF StartedFit
  <2>3. s[q].pid = 0 /\ started[l][i] # 0
    BY SMTT(30), <2>1, <1>2, <1>3 DEF NotStarted
  <2>4. k # q
    BY <2>2, <2>3
  <2> QED BY <2>2, <2>4, <1>6
<1> HIDE DEF s
<1>7. CASE /\ child' = Append(child, "init")
           /\ procList' = [procList EXCEPT ![l][q].pid = n + 1]
           /\ started' = [started EXCEPT ![l] = Append(started[l], n + 1)]
  <2> DEFINE a == Append(started[l], n + 1)
  <2>1. /\ child' \in Seq(ChildStates) /\ Len(child') = n + 1
        /\ (\A p \in Pids : child'[p] = child[p]) /\ child'[n + 1] = "init"
    BY <1>7, <1>2, ChildAppended DEF ChildStates
  <2>2. /\ n + 1 \in Nat /\ n <= n + 1 /\ n + 1 \in Int /\ n + 1 <= n + 1 /\ n + 1 > n /\ (n + 1) - 1 = n
        /\ n + 1 >= n
    BY <1>2
  <2>3. /\ procList' \in [ProcLists -> Seq(PlistNodes)]
        /\ \A k \in ProcLists \ {l} : procList'[k] = procList[k]
        /\ NodesFit(procList'[l], n + 1) /\ DOMAIN procList'[l] = DOMAIN s
        /\ procList'[l][q].pid = n + 1
        /\ \A i \in DOMAIN s : i # q => procList'[l][i] = s[i]
    BY <1>7, <2>2, <1>4
  <2>4. /\ a \in Seq(Int) /\ DOMAIN a = 1..(Len(started[l]) + 1) /\ a[Len(started[l]) + 1] = n + 1
        /\ \A i \in 1..Len(started[l]) : a[i] = started[l][i]
    BY <1>2, <2>2, AppendProperties, LenProperties
  <2> HIDE DEF a
  <2>5. /\ started' \in [ProcLists -> Seq(Int)] /\ started'[l] = a
        /\ \A k \in ProcLists \ {l} : started'[k] = started[k]
    <3>1. started' = [started EXCEPT ![l] = a]
      BY <1>7 DEF a
    <3> QED BY <3>1, <2>4, <1>2 DEF PlistTypes
  <2>6. PlistTypes'
    BY <1>1, <1>2, <2>1, <2>3, <2>5 DEF PlistTypes
  <2>7. Pids' = 1..(n + 1) /\ Pids' = Pids \cup {n + 1}
    BY <1>2, <2>1 DEF Pids
  <2>8. \A p \in Pids : (Live(p)' => Live(p)) /\ child'[p] = child[p] /\ p < n + 1
    BY <1>2, <2>1 DEF Live
  <2>9. StartedFit(l)'
    <3>1. \E k \in DOMAIN procList'[l] : procList'[l][k].pid = Len(child) + 1
      BY <1>3, <2>3 DEF n
    <3>2. \A i \in DOMAIN started[l] : Live(started[l][i]) =>
            \E k \in DOMAIN procList'[l] : procList'[l][k].pid = started[l][i]
      BY <2>3, <1>6
    <3>3. Len(child') = Len(child) + 1 /\ started'[l] = Append(started[l], Len(child) + 1)
      BY <2>1, <2>5 DEF a, n
    <3> QED BY <3>1, <3>2, <3>3, <2>1, <1>2, StartedAppended
  <2>10. AloneFits(l) => AloneFits(l)'
    BY <1>1, <1>2, <1>3, <2>1, <2>2, <2>7, <2>8 DEF AloneFits
  <2>11. ParentFits(l)'
    BY <2>3, <1>5
  <2> HIDE DEF q
  <2>12. /\ \A k \in ProcLists \ {l} :
              /\ procList'[k] = procList[k] /\ started'[k] = started[k] /\ parent'[k] = parent[k]
              /\ hasStarted'[k] = hasStarted[k] /\ cursor'[k] = cursor[k]
         /\ Len(child') >= Len(child) /\ NodesFit(procList'[l], Len(child'))
    BY <1>1, <1>2, <2>1, <2>2, <2>3, <2>5 DEF PlistTypes
  <2> QED BY <1>0, <2>6, <2>8, <2>9, <2>10, <2>11, <2>12, OneListStep
<1>8. CASE /\ procList' = [procList EXCEPT ![l][q].pid = ForkFailed]
           /\ child' = child /\ started' = started
  <2>1. /\ procList' \in [ProcLists -> Seq(PlistNodes)]
        /\ \A k \in ProcLists \ {l} : procList'[k] = procList[k]
        /\ NodesFit(procList'[l], n) /\ DOMAIN procList'[l] = DOMAIN s
        /\ \A i \in DOMAIN s : i # q => procList'[l][i] = s[i]
    <3>1. ForkFailed \in Int /\ ForkFailed <= n /\ ~(ForkFailed > 0) /\ n <= n
      BY <1>2 DEF ForkFailed
    <3> QED BY <1>8, <3>1, <1>2, <1>4
  <2>2. PlistTypes'
    BY <1>1, <1>2, <1>8, <2>1 DEF PlistTypes
  <2>3. ParentFits(l)'
    BY <2>1, <1>5
  <2>4. StartedFit(l)' /\ \A p \in Pids : Live(p)' => Live(p)
    <3>1. \A i \in DOMAIN started[l] : Live(started[l][i]) =>
             \E k \in DOMAIN procList'[l] : procList'[l][k].pid = started[l][i]
      BY <2>1, <1>6
    <3> QED BY ZenonT(30), <3>1, <1>2, <1>8 DEF StartedFit, Pids, Live
  <2>5. AloneFits(l) => AloneFits(l)'
    BY <1>1, <1>3, <1>8 DEF AloneFits, Pids
  <2>6. /\ \A k \in ProcLists \ {l} :
             /\ procList'[k] = procList[k] /\ started'[k] = started[k] /\ parent'[k] = parent[k]
             /\ hasStarted'[k] = hasStarted[k] /\ cursor'[k] = cursor[k]
        /\ Len(child') >= Len(child) /\ NodesFit(procList'[l], Len(child'))
    BY <1>1, <1>2, <1>8, <2>1 DEF PlistTypes
  <2> QED BY <1>0, <2>2, <2>3, <2>4, <2>5, <2>6, OneListStep
<1> QED BY <1>7, <1>8 DEF radStartProcess, q

\* The wait ends, and so does the call at the end of the list.
LEMMA TakeReadyInv ==
  ASSUME PlistInv, NEW l \in ProcLists, TakeReady(l) \/ StartEnds(l) PROVE PlistInv'
<1>0. l \in madeLists /\ madeLists' = madeLists
  BY DEF PlistInv, ParentFits, TakeReady, StartEnds, plistHistory
<1>1. /\ procList' = procList /\ hasStarted' = hasStarted /\ child' = child /\ started' = started
      /\ \/ /\ parent[l] = "taking" /\ readySem > 0 /\ readySem' = readySem - 1
            /\ parent' = [parent EXCEPT ![l] = "starting"]
            /\ cursor' = [cursor EXCEPT ![l] = cursor[l] + 1]
         \/ /\ parent[l] = "starting" /\ parent' = [parent EXCEPT ![l] = "idle"]
            /\ cursor' = cursor /\ readySem' = readySem
  BY DEF TakeReady, StartEnds
<1>2. /\ PlistTypes /\ NodesFit(procList[l], Len(child)) /\ ParentFits(l) /\ StartedFit(l)
      /\ Len(child) \in Nat /\ cursor[l] \in Int /\ readySem \in Nat
  BY PlistFacts DEF PlistInv, PlistTypes
<1>3. /\ \A k \in ProcLists \ {l} : parent'[k] = parent[k] /\ cursor'[k] = cursor[k]
      /\ parent[l] = "taking" => parent'[l] = "starting" /\ cursor'[l] = cursor[l] + 1
      /\ parent[l] = "starting" => parent'[l] = "idle"
      /\ parent[l] \in {"taking", "starting"}
  BY <1>1, <1>2 DEF PlistTypes
<1>4. PlistTypes'
  <2>1. readySem' \in Nat /\ cursor[l] + 1 \in Int
    BY <1>1, <1>2
  <2> QED BY <1>1, <1>2, <2>1 DEF PlistTypes
<1>5. ParentFits(l)'
  <2>1. \A i \in DOMAIN procList[l] : i \in Int
    BY <1>2, PlistFacts
  <2>2. CASE parent[l] = "taking"
    <3>1. cursor[l] > 0 /\ \A i \in DOMAIN procList[l] : i > cursor[l] => procList[l][i].pid = NotStarted
      BY <1>0, <2>2, <1>2 DEF ParentFits
    <3>2. cursor[l] + 1 > 0 /\ \A i \in DOMAIN procList[l] : i >= cursor[l] + 1 => i > cursor[l]
      BY <3>1, <2>1, <1>2
    <3> QED BY <1>0, <2>2, <3>1, <3>2, <1>1, <1>2, <1>3 DEF ParentFits
  <2>3. CASE parent[l] = "starting"
    BY <1>0, <2>3, <1>1, <1>2, <1>3 DEF ParentFits
  <2> QED BY <2>2, <2>3, <1>3
<1>6. StartedFit(l)' /\ \A p \in Pids : Live(p)' => Live(p)
  BY <1>1, <1>2 DEF StartedFit, Pids, Live
<1>7. AloneFits(l) => AloneFits(l)'
  <2>1. CASE parent[l] = "taking"
    <3>1. readySem > 0 /\ readySem' = readySem - 1
      BY <2>1, <1>1
    <3>2. readySem <= 1 => readySem' = 0
      BY <3>1, <1>2
    <3> QED BY <2>1, <3>1, <3>2, <1>1, <1>3 DEF AloneFits, Pids
  <2>2. CASE parent[l] = "starting"
    BY <2>2, <1>1, <1>3 DEF AloneFits, Pids
  <2> QED BY <2>1, <2>2, <1>3
<1> QED BY <1>0, <1>1, <1>2, <1>3, <1>4, <1>5, <1>6, <1>7, OneListStep

\* radPlistAddandStart: the new node may come anywhere, and the wait is the last one.
LEMMA PlistAddandStartInv ==
  ASSUME PlistInv, NEW l \in ProcLists, radPlistAddandStart(l) PROVE PlistInv'
<1>0. l \in madeLists /\ madeLists' = madeLists
  BY DEF PlistInv, ParentFits, radPlistAddandStart, plistHistory
<1> DEFINE n == Len(child)
<1>1. /\ parent[l] = "idle" /\ hasStarted[l] /\ parent' = [parent EXCEPT ![l] = "taking"]
      /\ cursor' = [cursor EXCEPT ![l] = Len(procList'[l])]
      /\ hasStarted' = hasStarted /\ readySem' = readySem
  BY DEF radPlistAddandStart
<1>2. /\ PlistTypes /\ NodesFit(procList[l], n) /\ ParentFits(l) /\ StartedFit(l)
      /\ n \in Nat /\ Pids = 1..n /\ Len(procList[l]) \in Nat /\ started[l] \in Seq(Int)
  BY PlistFacts DEF PlistInv
<1>3. ASSUME NEW m \in Nat, n <= m, NEW pid \in Int, pid <= m, pid > 0 => pid > n,
             insertAscending(l, Node(LastPriority, pid))
      PROVE  /\ procList' \in [ProcLists -> Seq(PlistNodes)]
             /\ \A k \in ProcLists \ {l} : procList'[k] = procList[k]
             /\ NodesFit(procList'[l], m)
             /\ \A i \in DOMAIN started[l] : Live(started[l][i]) =>
                   \E k \in DOMAIN procList'[l] : procList'[l][k].pid = started[l][i]
             /\ \E k \in DOMAIN procList'[l] : procList'[l][k].pid = pid
             /\ cursor' \in [ProcLists -> Int] /\ ParentFits(l)'
  <2> DEFINE nd == Node(LastPriority, pid)
  <2>1. nd \in PlistNodes /\ nd.prio = LastPriority /\ nd.prio <= LastPriority /\ nd.pid = pid
    BY DEF Node, PlistNodes, LastPriority
  <2>2. insertAscending(l, nd)
    BY <1>3
  <2> HIDE DEF nd
  <2>3. /\ procList' \in [ProcLists -> Seq(PlistNodes)]
        /\ \A k \in ProcLists \ {l} : procList'[k] = procList[k]
        /\ NodesFit(procList'[l], m) /\ Len(procList'[l]) = Len(procList[l]) + 1
        /\ \A i \in DOMAIN procList[l] : \E j \in DOMAIN procList'[l] : procList'[l][j] = procList[l][i]
        /\ \E j \in DOMAIN procList'[l] : procList'[l][j] = nd
    BY <1>2, <1>3, <2>1, <2>2, InsertedFits
  <2>4. \A i \in DOMAIN started[l] : Live(started[l][i]) =>
           \E k \in DOMAIN procList'[l] : procList'[l][k].pid = started[l][i]
    BY ZenonT(30), <1>2, <2>3 DEF StartedFit
  <2>5. /\ Len(procList'[l]) \in Int /\ Len(procList'[l]) > 0
        /\ DOMAIN procList'[l] = 1..Len(procList'[l])
    BY <1>2, <2>3, LenProperties
  <2>6. cursor' \in [ProcLists -> Int] /\ cursor'[l] = Len(procList'[l])
    BY <1>1, <1>2, <2>5 DEF PlistTypes
  <2>7. ParentFits(l)'
    <3>1. parent'[l] = "taking" /\ hasStarted'[l]
      BY <1>1, <1>2 DEF PlistTypes
    <3>2. \A i \in DOMAIN procList'[l] : ~(i > cursor'[l])
      BY <2>5, <2>6
    <3> QED BY <1>0, <2>5, <2>6, <3>1, <3>2 DEF ParentFits
  <2> QED BY <2>1, <2>3, <2>4, <2>6, <2>7
<1>4. /\ \A k \in ProcLists \ {l} :
           parent'[k] = parent[k] /\ hasStarted'[k] = hasStarted[k] /\ cursor'[k] = cursor[k]
      /\ parent'[l] = "taking" /\ parent' \in [ProcLists -> {"none", "idle", "starting", "taking"}]
  BY <1>1, <1>2 DEF PlistTypes
<1>5. CASE /\ child' = Append(child, "init")
           /\ insertAscending(l, Node(LastPriority, n + 1))
           /\ started' = [started EXCEPT ![l] = Append(started[l], n + 1)]
  <2>1. /\ child' \in Seq(ChildStates) /\ Len(child') = n + 1 /\ \A p \in Pids : child'[p] = child[p]
    BY <1>5, <1>2, ChildAppended DEF ChildStates
  <2>2. /\ n + 1 \in Nat /\ n <= n + 1 /\ n + 1 \in Int /\ n + 1 <= n + 1 /\ n + 1 > n /\ (n + 1) - 1 = n
        /\ n + 1 >= n
    BY <1>2
  <2>3. /\ procList' \in [ProcLists -> Seq(PlistNodes)]
        /\ \A k \in ProcLists \ {l} : procList'[k] = procList[k]
        /\ NodesFit(procList'[l], n + 1)
        /\ \A i \in DOMAIN started[l] : Live(started[l][i]) =>
              \E k \in DOMAIN procList'[l] : procList'[l][k].pid = started[l][i]
        /\ \E k \in DOMAIN procList'[l] : procList'[l][k].pid = n + 1
        /\ cursor' \in [ProcLists -> Int] /\ ParentFits(l)'
    BY <1>5, <2>2, <1>3
  <2>4. Append(started[l], n + 1) \in Seq(Int)
    BY <1>2, <2>2, AppendProperties
  <2>5. /\ started' \in [ProcLists -> Seq(Int)] /\ started'[l] = Append(started[l], n + 1)
        /\ \A k \in ProcLists \ {l} : started'[k] = started[k]
    <3> DEFINE a == Append(started[l], n + 1)
    <3>1. started' = [started EXCEPT ![l] = a] /\ a \in Seq(Int)
      BY <1>5, <2>4
    <3> HIDE DEF a
    <3>2. /\ started' \in [ProcLists -> Seq(Int)] /\ started'[l] = a
          /\ \A k \in ProcLists \ {l} : started'[k] = started[k]
      BY <3>1, <1>2 DEF PlistTypes
    <3> QED BY <3>2 DEF a
  <2>6. PlistTypes'
    BY <1>1, <1>2, <1>4, <2>1, <2>3, <2>5 DEF PlistTypes
  <2>7. StartedFit(l)'
    BY <2>1, <2>3, <2>5, <1>2, StartedAppended DEF n
  <2>8. (\A p \in Pids : Live(p)' => Live(p)) /\ Pids' = 1..(n + 1)
    BY <2>1 DEF Live, Pids
  <2>9. AloneFits(l) => AloneFits(l)'
    BY <1>1, <1>2, <1>4, <2>1, <2>2, <2>8 DEF AloneFits
  <2>10. /\ \A k \in ProcLists \ {l} :
              /\ procList'[k] = procList[k] /\ started'[k] = started[k] /\ parent'[k] = parent[k]
              /\ hasStarted'[k] = hasStarted[k] /\ cursor'[k] = cursor[k]
         /\ Len(child') >= Len(child) /\ NodesFit(procList'[l], Len(child'))
    BY <1>4, <2>1, <2>2, <2>3, <2>5
  <2> QED BY <1>0, <2>3, <2>6, <2>7, <2>8, <2>9, <2>10, OneListStep
<1>6. CASE /\ insertAscending(l, Node(LastPriority, ForkFailed))
           /\ child' = child /\ started' = started
  <2>1. ForkFailed \in Int /\ ForkFailed <= n /\ ~(ForkFailed > 0) /\ n <= n
    BY <1>2 DEF ForkFailed
  <2>2. /\ procList' \in [ProcLists -> Seq(PlistNodes)]
        /\ \A k \in ProcLists \ {l} : procList'[k] = procList[k]
        /\ NodesFit(procList'[l], n)
        /\ \A i \in DOMAIN started[l] : Live(started[l][i]) =>
              \E k \in DOMAIN procList'[l] : procList'[l][k].pid = started[l][i]
        /\ cursor' \in [ProcLists -> Int] /\ ParentFits(l)'
    BY <1>6, <2>1, <1>2, <1>3
  <2>3. PlistTypes'
    BY <1>1, <1>2, <1>4, <1>6, <2>2 DEF PlistTypes
  <2>4. StartedFit(l)' /\ \A p \in Pids : Live(p)' => Live(p)
    BY <2>2, <1>2, <1>6 DEF StartedFit, Pids, Live
  <2>5. AloneFits(l) => AloneFits(l)'
    BY <1>1, <1>4, <1>6 DEF AloneFits, Pids
  <2>6. /\ \A k \in ProcLists \ {l} :
              /\ procList'[k] = procList[k] /\ started'[k] = started[k] /\ parent'[k] = parent[k]
              /\ hasStarted'[k] = hasStarted[k] /\ cursor'[k] = cursor[k]
        /\ Len(child') >= Len(child) /\ NodesFit(procList'[l], Len(child'))
    BY <1>4, <1>6, <2>1, <2>2, <1>2
  <2> QED BY <1>0, <2>2, <2>3, <2>4, <2>5, <2>6, OneListStep
<1> QED BY <1>5, <1>6 DEF radPlistAddandStart

\* A child says it is ready, or ends: no list changes, and nobody comes to life.
LEMMA ChildStepInv ==
  ASSUME PlistInv, NEW p \in Pids, NEW x \in ChildStates, child' = [child EXCEPT ![p] = x],
         Live(p), readySem' \in Nat,
         UNCHANGED <<procList, hasStarted, parent, cursor, started, madeLists>>,
         \A l \in ProcLists : AloneFits(l) => AloneFits(l)'
  PROVE  PlistInv'
<1>1. /\ PlistTypes /\ Len(child) \in Nat /\ Pids = 1..Len(child) /\ DOMAIN child = 1..Len(child)
      /\ child \in Seq(ChildStates)
  BY PlistFacts DEF PlistInv, PlistTypes
<1>2. child' \in Seq(ChildStates) /\ Len(child') = Len(child)
  BY <1>1, ExceptSeq
<1>3. \A r \in Pids : Live(r)' => Live(r)
  <2>1. \A r \in Pids : r # p => child'[r] = child[r]
    BY <1>1
  <2> QED BY <2>1 DEF Live
<1>4. PlistTypes'
  BY <1>1, <1>2 DEF PlistTypes
<1>5. Len(child') >= Len(child)
  BY <1>1, <1>2
<1>6. \A k \in ProcLists : NodesFit(procList'[k], Len(child')) /\ ParentFits(k)' /\ StartedFit(k)'
  <2> SUFFICES ASSUME NEW k \in ProcLists
               PROVE  NodesFit(procList'[k], Len(child')) /\ ParentFits(k)' /\ StartedFit(k)'
    OBVIOUS
  <2> QED BY <1>1, <1>2, <1>3, <1>5, UntouchedList DEF PlistInv
<1>7. \A k \in ProcLists : NodesFit(procList[k], Len(child))'
  BY <1>6
<1> QED BY <1>4, <1>6, <1>7 DEF PlistInv

LEMMA PlistReadyInv ==
  ASSUME PlistInv, NEW p \in Pids, radPlistProcessReady(p) PROVE PlistInv'
<1>1. /\ child[p] = "init" /\ child' = [child EXCEPT ![p] = "running"] /\ readySem' = readySem + 1
      /\ UNCHANGED <<procList, hasStarted, parent, cursor, started, madeLists>>
  BY DEF radPlistProcessReady, ReadyGiven, plistHistory
<1>2. /\ PlistTypes /\ Len(child) \in Nat /\ Pids = 1..Len(child) /\ DOMAIN child = 1..Len(child)
      /\ readySem \in Nat /\ child \in Seq(ChildStates)
  BY PlistFacts DEF PlistInv, PlistTypes
<1>3. Len(child') = Len(child) /\ Pids' = Pids
  <2>1. Len(child') = Len(child)
    BY <1>1, <1>2
  <2> QED BY <2>1 DEF Pids
<1>4. child'[p] = "running" /\ \A r \in Pids : r # p => child'[r] = child[r]
  BY <1>1, <1>2
<1>5. ASSUME NEW l \in ProcLists, AloneFits(l) PROVE AloneFits(l)'
  <2>1. child[p] \notin WasReady
    BY <1>1 DEF WasReady
  <2>2. ~(readySem > 0) /\ parent[l] = "taking" /\ p \notin 1..(Len(child) - 1)
    BY <1>5, <2>1 DEF AloneFits
  <2>3. readySem = 0 /\ p = Len(child) /\ readySem' = 1
    <3>1. PICK n : n = Len(child)
      OBVIOUS
    <3>2. p = Len(child)
      <4>1. n \in Nat /\ p \in 1..n /\ p \notin 1..(n - 1)
        BY <3>1, <2>2, <1>2
      <4>2. p = n
        BY <4>1
      <4> QED BY <4>2, <3>1
    <3>3. readySem = 0
      BY <2>2, <1>2
    <3> QED BY <3>2, <3>3, <1>1
  <2>4. \A r \in Pids : r # p => r \in 1..(Len(child) - 1)
    BY <2>3, <1>2
  <2>5. \A r \in Pids : child'[r] \in WasReady
    BY <2>4, <1>4, <1>5 DEF AloneFits, WasReady
  <2>6. 1..(Len(child) - 1) \subseteq Pids
    BY <1>2
  <2> QED BY <2>2, <2>3, <2>5, <2>6, <1>1, <1>3 DEF AloneFits
<1>6. readySem' \in Nat /\ "running" \in ChildStates /\ Live(p)
  BY <1>1, <1>2 DEF ChildStates, Live
<1> QED BY <1>1, <1>5, <1>6, ChildStepInv

LEMMA ChildExitsInv ==
  ASSUME PlistInv, NEW p \in Pids, ChildExits(p) PROVE PlistInv'
<1>1. PICK x \in ChildStates : /\ child' = [child EXCEPT ![p] = x]
                               /\ child[p] # "init" => x = "dead"
  BY DEF ChildExits, ChildStates
<1>2. /\ Live(p) /\ UNCHANGED <<procList, hasStarted, parent, cursor, readySem, started, madeLists>>
  BY DEF ChildExits, plistHistory
<1>3. /\ PlistTypes /\ Len(child) \in Nat /\ Pids = 1..Len(child) /\ DOMAIN child = 1..Len(child)
      /\ readySem \in Nat /\ child \in Seq(ChildStates)
  BY PlistFacts DEF PlistInv, PlistTypes
<1>4. Len(child') = Len(child) /\ Pids' = Pids
  <2>1. Len(child') = Len(child)
    BY <1>1, <1>3
  <2> QED BY <2>1 DEF Pids
<1>5. \A r \in Pids : child[r] \in WasReady => child'[r] \in WasReady
  <2>1. (\A r \in Pids : r # p => child'[r] = child[r]) /\ child'[p] = x
    BY <1>1, <1>3
  <2> QED BY <2>1, <1>1 DEF WasReady
<1>6. ASSUME NEW l \in ProcLists, AloneFits(l) PROVE AloneFits(l)'
  <2>1. 1..(Len(child) - 1) \subseteq Pids
    BY <1>3
  <2> QED BY <2>1, <1>2, <1>4, <1>5, <1>6 DEF AloneFits
<1> QED BY <1>1, <1>2, <1>3, <1>6, ChildStepInv

LEMMA PlistStep == PlistInv /\ [PlistNext]_plistVars => PlistInv'
<1> SUFFICES ASSUME PlistInv, [PlistNext]_plistVars PROVE PlistInv'
  OBVIOUS
<1>1. CASE UNCHANGED plistVars
  <2>1. procList' = procList /\ hasStarted' = hasStarted /\ parent' = parent /\ cursor' = cursor
    BY <1>1 DEF plistVars
  <2>2. readySem' = readySem /\ child' = child /\ started' = started /\ madeLists' = madeLists
    BY <1>1 DEF plistVars
  <2> QED BY <2>1, <2>2 DEF PlistInv, PlistTypes, NodesFit, ParentFits, StartedFit, AloneFits, Pids, Live
<1>2. CASE PlistNext
  <2>1. ASSUME NEW l \in ProcLists,
               \/ radProcListCreate(l) \/ radPlistDestroy(l) \/ radPlistAddPid(l) \/ radPlistStart(l)
               \/ ParentStep(l) \/ radPlistAddandStart(l)
        PROVE  PlistInv'
    BY <2>1, ProcListCreateInv, PlistDestroyInv, PlistAddPidInv, PlistStartInv, StartProcessInv,
       TakeReadyInv, PlistAddandStartInv DEF ParentStep
  <2>2. ASSUME NEW l \in ProcLists, NEW prio \in Priorities, radPlistAdd(l, prio) PROVE PlistInv'
    BY <2>2, PlistAddInv
  <2>3. ASSUME NEW l \in ProcLists, NEW p \in Pids, radPlistRemovePid(l, p) PROVE PlistInv'
    BY <2>3, PlistRemovePidInv
  <2>4. ASSUME NEW p \in Pids, radPlistProcessReady(p) \/ ChildExits(p) PROVE PlistInv'
    BY <2>4, PlistReadyInv, ChildExitsInv
  <2> QED BY <1>2, <2>1, <2>2, <2>3, <2>4 DEF PlistNext
<1> QED BY <1>1, <1>2

-----------------------------------------------------------------------------
(* The process lists: what follows *)

\* While no other list was made, a process is forked only after all before it are ready,
\* and, of those that live, in the order of the priorities on the list.
LEMMA StartsFollow == PlistInv => StartsInOrder
<1> SUFFICES ASSUME PlistInv, NEW l \in ProcLists, madeLists \subseteq {l},
                    NEW i \in DOMAIN started[l], NEW j \in DOMAIN started[l], i < j
             PROVE  /\ child[started[l][i]] \in {"running", "dead"}
                    /\ (Live(started[l][i]) /\ Live(started[l][j])) =>
                           PrioOf(l, started[l][i]) <= PrioOf(l, started[l][j])
  BY DEF StartsInOrder
<1>1. PICK a, b : a = started[l][i] /\ b = started[l][j]
  OBVIOUS
<1>2. PICK n : n = Len(child)
  OBVIOUS
<1>3. /\ PlistTypes /\ NodesFit(procList[l], n) /\ StartedFit(l) /\ AloneFits(l)
      /\ n \in Nat /\ Pids = 1..n
  BY <1>2, PlistFacts DEF PlistInv
<1>4. a \in Pids /\ b \in Pids /\ a < b
  BY <1>1, <1>3 DEF StartedFit
<1>5. a \in 1..(n - 1)
  BY <1>3, <1>4
<1>6. child[a] \in {"running", "dead"}
  BY <1>2, <1>3, <1>5 DEF AloneFits, WasReady
<1>7. ASSUME Live(a), Live(b) PROVE PrioOf(l, a) <= PrioOf(l, b)
  <2>1. PICK x \in DOMAIN procList[l] : procList[l][x].pid = a
    BY <1>1, <1>3, <1>7 DEF StartedFit
  <2>2. PICK y \in DOMAIN procList[l] : procList[l][y].pid = b
    BY <1>1, <1>3, <1>7 DEF StartedFit
  <2>3. a > 0 /\ b > 0
    BY <1>3, <1>4
  <2>4. x = CHOOSE k \in DOMAIN procList[l] : procList[l][k].pid = a
    BY <2>1, <2>3, <1>3 DEF NodesFit
  <2>5. y = CHOOSE k \in DOMAIN procList[l] : procList[l][k].pid = b
    BY <2>2, <2>3, <1>3 DEF NodesFit
  <2>6. PrioOf(l, a) = procList[l][x].prio /\ PrioOf(l, b) = procList[l][y].prio
    BY <2>4, <2>5 DEF PrioOf
  <2>7. procList[l][x].prio <= procList[l][y].prio
    BY <2>1, <2>2, <2>3, <1>3, <1>4 DEF NodesFit
  <2> QED BY <2>6, <2>7
<1> QED BY <1>1, <1>6, <1>7

\* A list is in the order of its priorities and has one node for each of its processes that lives.
LEMMA ListFollows == PlistInv => ListKnowsChildren
<1> SUFFICES ASSUME PlistInv, NEW l \in ProcLists
             PROVE  /\ \A i, j \in DOMAIN procList[l] : i < j => procList[l][i].prio <= procList[l][j].prio
                    /\ \A i \in DOMAIN started[l] : Live(started[l][i]) =>
                          Cardinality({j \in DOMAIN procList[l] : procList[l][j].pid = started[l][i]}) = 1
  BY DEF ListKnowsChildren
<1>1. /\ NodesFit(procList[l], Len(child)) /\ StartedFit(l) /\ Pids = 1..Len(child) /\ Len(child) \in Nat
  BY PlistFacts DEF PlistInv
<1>2. ASSUME NEW i \in DOMAIN started[l], Live(started[l][i])
      PROVE  Cardinality({j \in DOMAIN procList[l] : procList[l][j].pid = started[l][i]}) = 1
  <2>1. PICK k \in DOMAIN procList[l] : procList[l][k].pid = started[l][i]
    BY <1>1, <1>2 DEF StartedFit
  <2>2. started[l][i] > 0
    BY <1>1 DEF StartedFit
  <2>3. {j \in DOMAIN procList[l] : procList[l][j].pid = started[l][i]} = {k}
    BY <2>1, <2>2, <1>1 DEF NodesFit
  <2> QED BY <2>3, FS_Singleton
<1> QED BY <1>1, <1>2 DEF NodesFit

\* A process list knows its processes, and they were started in its order, for every number of
\* lists, every set of priorities and every number of processes.
THEOREM ProcessesStayInOrder == PlistSpec => []ProcessesInOrder
<1>1. PlistInv => ProcessesInOrder
  BY StartsFollow, ListFollows DEF ProcessesInOrder
<1> QED BY <1>1, PlistInitial, PlistStep, PTL DEF PlistSpec

-----------------------------------------------------------------------------
(* Datagram sockets: the inductive invariant *)

UdpSockets == [open : BOOLEAN, bound : BOOLEAN, broadcast : BOOLEAN, loop : BOOLEAN, joined : BOOLEAN]
Datagrams == [from : Hosts, to : UdpDests, size : UdpSizes, loop : BOOLEAN, quiet : BOOLEAN]
UdpUnits == Nat \X Nat

UdpTypes ==
    /\ udp \in [UdpIds -> UdpSockets] /\ defaulted \subseteq UdpIds
    /\ flying \in Seq(Datagrams) /\ udpInbox \in [UdpIds -> Seq(Nat)]
    /\ udpBuf \in [UdpIds -> Seq(UdpUnits) \cup {NoRead}] /\ udpReads \in [UdpIds -> Seq(UdpUnits)]

\* What is set by default is off, and what is sent then is not looped back.
LoopFits ==
    /\ \A i \in defaulted : ~udp[i].loop
    /\ \A n \in DOMAIN flying : flying[n].quiet => ~flying[n].loop

\* Datagram n was sent, and socket i may hear it.
Hearable(i, n) ==
    /\ n \in DOMAIN flying
    /\ flying[n].to = "group" /\ flying[n].quiet => flying[n].from # HostOf[i]
HeardFits ==
    \A i \in UdpIds :
        /\ \A k \in DOMAIN udpInbox[i] : Hearable(i, udpInbox[i][k])
        /\ \A k \in DOMAIN udpReads[i] : Hearable(i, udpReads[i][k][1])
        /\ udpBuf[i] # NoRead => \A k \in DOMAIN udpBuf[i] : Hearable(i, udpBuf[i][k][1])

\* A buffer is made of beginnings of the datagrams fl; one that is still read into has
\* all of its last datagram.
BufferOf(b, fl) ==
    /\ Len(b) <= UdpLen
    /\ \A k \in DOMAIN b :
         /\ b[k][1] \in DOMAIN fl
         /\ b[k][2] > 1 => k > 1 /\ b[k - 1] = <<b[k][1], b[k][2] - 1>>
         /\ k < Len(b) /\ b[k][2] < fl[b[k][1]].size => b[k + 1][1] = b[k][1]
EndsWhole(b, fl) == Len(b) > 0 => b[Len(b)][2] >= fl[b[Len(b)][1]].size
DgramsFit ==
    \A i \in UdpIds :
        /\ BufferOf(udpReads[i], flying)
        /\ udpBuf[i] # NoRead => BufferOf(udpBuf[i], flying) /\ EndsWhole(udpBuf[i], flying)

UdpInv == UdpTypes /\ LoopFits /\ HeardFits /\ DgramsFit

-----------------------------------------------------------------------------
(* Datagram sockets: buffers *)

LEMMA MinOfTwo ==
  ASSUME NEW a \in Nat, NEW b \in Nat
  PROVE  Min({a, b}) \in Nat /\ Min({a, b}) <= a /\ Min({a, b}) <= b /\ Min({a, b}) \in {a, b}
<1>1. \E x \in {a, b} : \A y \in {a, b} : x <= y
  <2>1. CASE a <= b
    BY <2>1
  <2>2. CASE b <= a
    BY <2>2
  <2> QED BY <2>1, <2>2
<1>2. Min({a, b}) \in {a, b} /\ \A y \in {a, b} : Min({a, b}) <= y
  BY <1>1 DEF Min
<1> QED BY <1>2

\* The beginning of datagram n goes behind what is there.
LEMMA PieceAppended ==
  ASSUME UdpAssumption, NEW fl \in Seq(Datagrams), NEW b \in Seq(UdpUnits), BufferOf(b, fl),
         EndsWhole(b, fl), NEW n \in DOMAIN fl,
         NEW m \in Nat, m <= fl[n].size, Len(b) + m <= UdpLen
  PROVE  LET now == b \o [k \in 1..m |-> <<n, k>>]
         IN  /\ now \in Seq(UdpUnits) /\ Len(now) = Len(b) + m /\ BufferOf(now, fl)
             /\ m = fl[n].size => EndsWhole(now, fl)
             /\ \A k \in DOMAIN now : \/ k \in DOMAIN b /\ now[k] = b[k]
                                      \/ now[k][1] = n
<1> DEFINE piece == [k \in 1..m |-> <<n, k>>]
           now == b \o piece
<1>1. PICK L : L = Len(b)
  OBVIOUS
<1>2. L \in Nat /\ DOMAIN b = 1..L /\ n \in Nat
  BY <1>1, LenProperties
<1>3. piece \in Seq(UdpUnits) /\ Len(piece) = m /\ \A k \in 1..m : piece[k] = <<n, k>>
  <2>1. \A k \in 1..m : <<n, k>> \in UdpUnits
    BY <1>2 DEF UdpUnits
  <2>2. piece \in [1..m -> UdpUnits]
    BY <2>1
  <2>3. piece \in Seq(UdpUnits)
    BY SMTT(60), <2>2, SeqDef
  <2> QED BY <2>2, <2>3, LenProperties
<1> HIDE DEF piece
<1>4. /\ now \in Seq(UdpUnits) /\ Len(now) = L + m
      /\ \A k \in 1..(L + m) : now[k] = IF k <= L THEN b[k] ELSE piece[k - L]
  <2>1. /\ now \in Seq(UdpUnits) /\ Len(now) = Len(b) + Len(piece)
        /\ \A k \in 1..(Len(b) + Len(piece)) : now[k] = IF k <= Len(b) THEN b[k] ELSE piece[k - Len(b)]
    BY <1>3, ConcatProperties
  <2> QED BY <2>1, <1>1, <1>3
<1> HIDE DEF now
<1>5. DOMAIN now = 1..(L + m)
  BY <1>4, LenProperties
<1>6. \A k \in 1..L : k \in 1..(L + m) /\ now[k] = b[k]
  BY <1>2, <1>4
<1>7. \A j \in 1..m : L + j \in 1..(L + m) /\ now[L + j] = <<n, j>>
  <2> SUFFICES ASSUME NEW j \in 1..m PROVE L + j \in 1..(L + m) /\ now[L + j] = <<n, j>>
    OBVIOUS
  <2>1. L + j \in 1..(L + m) /\ ~(L + j <= L) /\ (L + j) - L = j
    BY <1>2
  <2> QED BY <2>1, <1>3, <1>4
<1>8. \A k \in 1..(L + m) : k \in 1..L \/ \E j \in 1..m : k = L + j
  <2> SUFFICES ASSUME NEW k \in 1..(L + m), k \notin 1..L PROVE \E j \in 1..m : k = L + j
    OBVIOUS
  <2>1. k - L \in 1..m /\ k = L + (k - L)
    BY <1>2
  <2> QED BY <2>1
<1>9. \A k \in DOMAIN now : \/ k \in DOMAIN b /\ now[k] = b[k]
                            \/ now[k][1] = n
  <2>1. \A j \in 1..m : now[L + j][1] = n
    BY <1>7
  <2> QED BY SMTT(60), <2>1, <1>2, <1>5, <1>6, <1>8
<1>10. fl[n].size \in Nat
  <2>1. fl[n] \in Datagrams
    BY LenProperties, ElementOfSeq
  <2> QED BY <2>1 DEF Datagrams, UdpAssumption
<1>11. \A k \in 1..L : /\ b[k] \in UdpUnits /\ b[k][1] \in DOMAIN fl /\ b[k][2] \in Nat
                       /\ b[k][2] > 1 => k > 1 /\ b[k - 1] = <<b[k][1], b[k][2] - 1>>
                       /\ k < L /\ b[k][2] < fl[b[k][1]].size => b[k + 1][1] = b[k][1]
  <2>1. \A k \in 1..L : b[k] \in UdpUnits
    BY <1>1, ElementOfSeq
  <2>2. \A k \in 1..L : b[k][2] \in Nat
    BY <2>1 DEF UdpUnits
  <2> QED BY <2>1, <2>2, <1>1, <1>2 DEF BufferOf
<1>12. \A k \in 1..L : fl[b[k][1]].size \in Nat
  <2>1. \A k \in 1..L : fl[b[k][1]] \in Datagrams
    BY <1>11, LenProperties, ElementOfSeq
  <2> QED BY <2>1 DEF Datagrams, UdpAssumption
<1>13. ASSUME NEW k \in 1..(L + m)
       PROVE  /\ now[k][1] \in DOMAIN fl
              /\ now[k][2] > 1 => k > 1 /\ now[k - 1] = <<now[k][1], now[k][2] - 1>>
              /\ k < L + m /\ now[k][2] < fl[now[k][1]].size => now[k + 1][1] = now[k][1]
  <2>1. CASE k \in 1..L
    <3>1. now[k] = b[k] /\ now[k][1] \in DOMAIN fl
      BY <2>1, <1>6, <1>11
    <3>2. now[k][2] > 1 => k > 1 /\ now[k - 1] = <<now[k][1], now[k][2] - 1>>
      <4> SUFFICES ASSUME now[k][2] > 1 PROVE k > 1 /\ now[k - 1] = <<now[k][1], now[k][2] - 1>>
        OBVIOUS
      <4>1. k > 1 /\ b[k - 1] = <<b[k][1], b[k][2] - 1>>
        BY <3>1, <2>1, <1>11
      <4>2. k - 1 \in 1..L
        BY <4>1, <2>1, <1>2
      <4> QED BY <4>1, <4>2, <3>1, <1>6
    <3>3. ASSUME k < L + m, now[k][2] < fl[now[k][1]].size PROVE now[k + 1][1] = now[k][1]
      <4>1. CASE k < L
        <5>1. k + 1 \in 1..L
          BY <4>1, <2>1, <1>2
        <5> QED BY SMTT(60), <5>1, <4>1, <3>1, <3>3, <2>1, <1>6, <1>11
      <4>2. CASE k = L
        <5>1. b[L][2] >= fl[b[L][1]].size
          BY <4>2, <2>1, <1>1, <1>2 DEF EndsWhole
        <5>2. b[L][2] \in Nat /\ fl[b[L][1]].size \in Nat
          BY <4>2, <2>1, <1>11, <1>12
        <5> QED BY SMTT(60), <5>1, <5>2, <4>2, <3>1, <3>3
      <4>3. k < L \/ k = L
        BY <2>1, <1>2
      <4> QED BY <4>1, <4>2, <4>3
    <3> QED BY <3>1, <3>2, <3>3
  <2>2. ASSUME NEW j \in 1..m, k = L + j
        PROVE  /\ now[k][1] \in DOMAIN fl
               /\ now[k][2] > 1 => k > 1 /\ now[k - 1] = <<now[k][1], now[k][2] - 1>>
               /\ k < L + m /\ now[k][2] < fl[now[k][1]].size => now[k + 1][1] = now[k][1]
    <3>1. now[k] = <<n, j>> /\ now[k][1] = n /\ now[k][2] = j
      BY <2>2, <1>7
    <3>2. ASSUME j > 1 PROVE k > 1 /\ now[k - 1] = <<n, j - 1>>
      <4>1. j - 1 \in 1..m /\ k - 1 = L + (j - 1) /\ k > 1
        BY <2>2, <3>2, <1>2
      <4> QED BY <4>1, <1>7
    <3>3. ASSUME k < L + m PROVE now[k + 1][1] = n
      <4>1. j + 1 \in 1..m /\ k + 1 = L + (j + 1)
        BY <2>2, <3>3, <1>2
      <4>2. now[k + 1] = <<n, j + 1>>
        BY <4>1, <1>7
      <4> QED BY <4>2
    <3> QED BY <3>1, <3>2, <3>3
  <2> QED BY <2>1, <2>2, <1>8
<1>14. BufferOf(now, fl)
  BY <1>1, <1>4, <1>5, <1>13 DEF BufferOf
<1>15. m = fl[n].size => EndsWhole(now, fl)
  <2> SUFFICES ASSUME m = fl[n].size PROVE EndsWhole(now, fl)
    OBVIOUS
  <2>1. CASE m = 0
    <3>1. Len(now) = L /\ (L > 0 => now[L] = b[L])
      BY <2>1, <1>2, <1>4, <1>6
    <3> QED BY <3>1, <1>1 DEF EndsWhole
  <2>2. CASE m > 0
    <3>1. now[L + m] = <<n, m>>
      BY <2>2, <1>7
    <3>2. now[L + m][1] = n /\ now[L + m][2] = m
      BY <3>1
    <3> QED BY <3>2, <1>4, <1>10 DEF EndsWhole
  <2> QED BY <2>1, <2>2
<1> QED BY <1>1, <1>4, <1>9, <1>14, <1>15 DEF now, piece

\* A datagram that is sent changes nothing about those that are there.
LEMMA FlyingAppended ==
  ASSUME NEW fl \in Seq(Datagrams), NEW d \in Datagrams
  PROVE  LET more == Append(fl, d)
         IN  /\ more \in Seq(Datagrams) /\ DOMAIN fl \subseteq DOMAIN more
             /\ \A n \in DOMAIN fl : more[n] = fl[n]
             /\ \A n \in DOMAIN more : n \in DOMAIN fl \/ more[n] = d
<1>1. /\ Append(fl, d) \in Seq(Datagrams) /\ Len(Append(fl, d)) = Len(fl) + 1 /\ Len(fl) \in Nat
      /\ \A n \in 1..Len(fl) : Append(fl, d)[n] = fl[n]
      /\ Append(fl, d)[Len(fl) + 1] = d
  BY AppendProperties, LenProperties
<1>2. DOMAIN fl = 1..Len(fl) /\ DOMAIN Append(fl, d) = 1..(Len(fl) + 1)
  BY <1>1, LenProperties
<1>3. 1..Len(fl) \subseteq 1..(Len(fl) + 1) /\ \A n \in 1..(Len(fl) + 1) : n \in 1..Len(fl) \/ n = Len(fl) + 1
  BY <1>1
<1> QED BY <1>1, <1>2, <1>3

LEMMA BufferStays ==
  ASSUME NEW b \in Seq(UdpUnits), NEW fl, NEW more, BufferOf(b, fl),
         DOMAIN fl \subseteq DOMAIN more, \A n \in DOMAIN fl : more[n] = fl[n]
  PROVE  BufferOf(b, more) /\ (EndsWhole(b, fl) => EndsWhole(b, more))
<1>1. Len(b) \in Nat /\ DOMAIN b = 1..Len(b)
  BY LenProperties
<1>2. Len(b) > 0 => Len(b) \in DOMAIN b
  BY <1>1
<1> QED BY <1>2 DEF BufferOf, EndsWhole

-----------------------------------------------------------------------------
(* Datagram sockets: one step *)

LEMMA UdpInitial == UdpAssumption /\ UdpInit => UdpInv
<1> SUFFICES ASSUME UdpAssumption, UdpInit PROVE UdpInv
  OBVIOUS
<1>1. /\ << >> \in Seq(Datagrams) /\ << >> \in Seq(Nat) /\ << >> \in Seq(UdpUnits)
      /\ DOMAIN << >> = {} /\ Len(<< >>) = 0
  OBVIOUS
<1>2. NoUdp \in UdpSockets
  BY DEF NoUdp, UdpSockets
<1>3. UdpTypes
  BY <1>1, <1>2 DEF UdpInit, UdpTypes
<1>4. LoopFits /\ HeardFits
  BY <1>1 DEF UdpInit, LoopFits, HeardFits
<1>5. DgramsFit
  <2>1. UdpLen \in Nat
    BY DEF UdpAssumption
  <2>2. \A i \in UdpIds : udpReads[i] = << >> /\ udpBuf[i] = NoRead
    BY DEF UdpInit
  <2>3. BufferOf(<< >>, flying)
    BY <1>1, <2>1 DEF BufferOf
  <2> QED BY <2>2, <2>3 DEF DgramsFit
<1> QED BY <1>3, <1>4, <1>5 DEF UdpInv

\* A call about the conditions of a socket.
LEMMA UdpOptionStep ==
  ASSUME UdpInv, NEW i \in UdpIds, NEW s \in UdpSockets, udp' = [udp EXCEPT ![i] = s],
         defaulted' \subseteq UdpIds, \A j \in defaulted' : j # i => j \in defaulted,
         i \in defaulted' => ~s.loop,
         UNCHANGED <<flying, udpInbox, udpBuf, udpReads>>
  PROVE  UdpInv'
<1>1. udp' \in [UdpIds -> UdpSockets] /\ udp'[i] = s /\ \A j \in UdpIds : j # i => udp'[j] = udp[j]
  BY DEF UdpInv, UdpTypes
<1>2. UdpTypes'
  BY <1>1 DEF UdpInv, UdpTypes
<1>3. LoopFits'
  BY <1>1 DEF UdpInv, UdpTypes, LoopFits
<1>4. HeardFits' /\ DgramsFit'
  BY DEF UdpInv, HeardFits, DgramsFit, Hearable
<1> QED BY <1>2, <1>3, <1>4 DEF UdpInv

LEMMA UdpCreateInv ==
  ASSUME UdpInv, NEW i \in UdpIds, radUDPSocketCreate(i) PROVE UdpInv'
<1>1. PICK ok \in BOOLEAN :
         /\ udp' = [udp EXCEPT ![i] = Defaults([NoUdp EXCEPT !.open = TRUE], ok)]
         /\ defaulted' = IF ok THEN defaulted \cup {i} ELSE defaulted \ {i}
  BY DEF radUDPSocketCreate
<1>2. UNCHANGED <<flying, udpInbox, udpBuf, udpReads>>
  BY DEF radUDPSocketCreate
<1>3. PICK s : s = Defaults([NoUdp EXCEPT !.open = TRUE], ok)
  OBVIOUS
<1>4. s \in UdpSockets /\ (ok => ~s.loop)
  BY <1>3 DEF Defaults, NoUdp, UdpSockets
<1>5. /\ defaulted' \subseteq UdpIds /\ (\A j \in defaulted' : j # i => j \in defaulted)
      /\ (i \in defaulted' => ~s.loop)
  BY <1>1, <1>4 DEF UdpInv, UdpTypes
<1> QED BY <1>1, <1>2, <1>3, <1>4, <1>5, UdpOptionStep

LEMMA UdpSetOptionInv ==
  ASSUME UdpInv, NEW i \in UdpIds, NEW s \in UdpSockets, SetOption(i, s), s.loop = udp[i].loop
  PROVE  UdpInv'
<1>1. udp' = [udp EXCEPT ![i] = s] /\ UNCHANGED <<defaulted, flying, udpInbox, udpBuf, udpReads>>
  BY DEF SetOption
<1>2. defaulted \subseteq UdpIds /\ (i \in defaulted => ~s.loop)
  BY DEF UdpInv, UdpTypes, LoopFits
<1> QED BY <1>1, <1>2, UdpOptionStep

LEMMA UdpOptionsInv ==
  ASSUME UdpInv, NEW i \in UdpIds,
         \/ radUDPSocketBind(i) \/ radUDPSocketAddMulticastMembership(i)
         \/ radUDPSocketDropMulticastMembership(i)
         \/ \E on \in BOOLEAN : radUDPSocketSetBroadcast(i, on) \/ radUDPSocketSetMulticastLoopback(i, on)
  PROVE  UdpInv'
<1>1. udp[i] \in UdpSockets /\ udp \in [UdpIds -> UdpSockets] /\ defaulted \subseteq UdpIds
  BY DEF UdpInv, UdpTypes
<1>2. ASSUME NEW on \in BOOLEAN
      PROVE  /\ [udp[i] EXCEPT !.bound = on] \in UdpSockets /\ [udp[i] EXCEPT !.bound = on].loop = udp[i].loop
             /\ [udp[i] EXCEPT !.joined = on] \in UdpSockets /\ [udp[i] EXCEPT !.joined = on].loop = udp[i].loop
             /\ [udp[i] EXCEPT !.broadcast = on] \in UdpSockets
             /\ [udp[i] EXCEPT !.broadcast = on].loop = udp[i].loop
             /\ [udp[i] EXCEPT !.loop = on] \in UdpSockets /\ [udp[i] EXCEPT !.loop = on].loop = on
  BY <1>1 DEF UdpSockets
<1>3. CASE radUDPSocketBind(i)
  BY <1>2, <1>3, UdpSetOptionInv DEF radUDPSocketBind
<1>4. CASE radUDPSocketAddMulticastMembership(i)
  BY <1>2, <1>4, UdpSetOptionInv DEF radUDPSocketAddMulticastMembership
<1>5. CASE radUDPSocketDropMulticastMembership(i)
  BY <1>2, <1>5, UdpSetOptionInv DEF radUDPSocketDropMulticastMembership
<1>6. ASSUME NEW on \in BOOLEAN, radUDPSocketSetBroadcast(i, on) PROVE UdpInv'
  BY <1>2, <1>6, UdpSetOptionInv DEF radUDPSocketSetBroadcast
<1>7. ASSUME NEW on \in BOOLEAN, radUDPSocketSetMulticastLoopback(i, on) PROVE UdpInv'
  <2>1. PICK s : s = [udp[i] EXCEPT !.loop = on]
    OBVIOUS
  <2>2. s \in UdpSockets /\ s.loop = on
    BY <2>1, <1>2
  <2>3. /\ udp' = [udp EXCEPT ![i] = s] /\ UNCHANGED <<flying, udpInbox, udpBuf, udpReads>>
        /\ defaulted' = IF on THEN defaulted \ {i} ELSE defaulted
    BY <2>1, <1>1, <1>7 DEF radUDPSocketSetMulticastLoopback
  <2>4. /\ defaulted' \subseteq UdpIds /\ (\A j \in defaulted' : j # i => j \in defaulted)
        /\ (i \in defaulted' => ~s.loop)
    BY <2>2, <2>3, <1>1
  <2> QED BY <2>2, <2>3, <2>4, UdpOptionStep
<1> QED BY <1>3, <1>4, <1>5, <1>6, <1>7

LEMMA UdpDestroyInv ==
  ASSUME UdpAssumption, UdpInv, NEW i \in UdpIds, radUDPSocketDestroy(i) PROVE UdpInv'
<1>1. /\ udp' = [udp EXCEPT ![i] = NoUdp] /\ defaulted' = defaulted \ {i}
      /\ udpInbox' = [udpInbox EXCEPT ![i] = << >>] /\ udpReads' = [udpReads EXCEPT ![i] = << >>]
      /\ flying' = flying /\ udpBuf' = udpBuf
  BY DEF radUDPSocketDestroy
<1>2. NoUdp \in UdpSockets
  BY DEF NoUdp, UdpSockets
<1>3. /\ << >> \in Seq(Nat) /\ << >> \in Seq(UdpUnits) /\ DOMAIN << >> = {} /\ Len(<< >>) = 0
      /\ UdpLen \in Nat
  BY DEF UdpAssumption
<1>4. UdpTypes'
  BY <1>1, <1>2, <1>3 DEF UdpInv, UdpTypes
<1>5. /\ udpInbox'[i] = << >> /\ udpReads'[i] = << >>
      /\ \A j \in UdpIds : j # i => udpInbox'[j] = udpInbox[j] /\ udpReads'[j] = udpReads[j]
                                    /\ udp'[j] = udp[j]
  BY <1>1 DEF UdpInv, UdpTypes
<1>6. LoopFits'
  BY <1>1, <1>5 DEF UdpInv, UdpTypes, LoopFits
<1>7. HeardFits'
  BY <1>1, <1>3, <1>5 DEF UdpInv, HeardFits, Hearable
<1>8. DgramsFit'
  <2>1. BufferOf(<< >>, flying)
    BY <1>3 DEF BufferOf
  <2>2. \A j \in UdpIds : BufferOf(udpReads'[j], flying)
    BY <2>1, <1>5 DEF UdpInv, DgramsFit
  <2> QED BY <2>2, <1>1 DEF UdpInv, DgramsFit
<1> QED BY <1>4, <1>6, <1>7, <1>8 DEF UdpInv

LEMMA UdpSendToInv ==
  ASSUME UdpInv, NEW i \in UdpIds, NEW to \in UdpDests, NEW size \in UdpSizes,
         radUDPSocketSendTo(i, to, size)
  PROVE  UdpInv'
<1>1. PICK d : d = [from |-> HostOf[i], to |-> to, size |-> size, loop |-> udp[i].loop,
                    quiet |-> i \in defaulted]
  OBVIOUS
<1>2. /\ flying' = Append(flying, d)
      /\ UNCHANGED <<udp, defaulted, udpInbox, udpBuf, udpReads>>
  BY <1>1 DEF radUDPSocketSendTo
<1>3. UdpTypes /\ LoopFits /\ HeardFits /\ DgramsFit
  BY DEF UdpInv
<1>4. d \in Datagrams /\ (d.quiet => ~d.loop)
  <2>1. udp[i].loop \in BOOLEAN /\ HostOf[i] \in Hosts /\ (i \in defaulted => ~udp[i].loop)
    BY <1>3 DEF UdpTypes, UdpSockets, Hosts, LoopFits
  <2>2. PICK quiet : quiet = (i \in defaulted)
    OBVIOUS
  <2>3. quiet \in BOOLEAN /\ (quiet <=> i \in defaulted)
    <3>1. CASE i \in defaulted
      <4>1. quiet = TRUE
        BY <3>1, <2>2
      <4> QED BY <3>1, <4>1
    <3>2. CASE i \notin defaulted
      <4>1. (i \in defaulted) = FALSE
        BY <3>2
      <4>2. quiet = FALSE
        BY <4>1, <2>2
      <4> QED BY <3>2, <4>2
    <3> QED BY <3>1, <3>2
  <2>4. d = [from |-> HostOf[i], to |-> to, size |-> size, loop |-> udp[i].loop, quiet |-> quiet]
    BY <2>2, <1>1, Zenon
  <2>5. d \in Datagrams
    BY <2>1, <2>3, <2>4 DEF Datagrams
  <2>6. d.quiet = quiet /\ d.loop = udp[i].loop
    BY <2>4
  <2> QED BY <2>1, <2>3, <2>5, <2>6
<1>5. /\ flying' \in Seq(Datagrams) /\ DOMAIN flying \subseteq DOMAIN flying'
      /\ \A n \in DOMAIN flying : flying'[n] = flying[n]
      /\ \A n \in DOMAIN flying' : n \in DOMAIN flying \/ flying'[n] = d
  BY <1>2, <1>3, <1>4, FlyingAppended DEF UdpTypes
<1>6. UdpTypes'
  BY <1>2, <1>3, <1>5 DEF UdpTypes
<1>7. LoopFits'
  BY <1>2, <1>3, <1>4, <1>5 DEF LoopFits
<1>8. \A j \in UdpIds, n \in DOMAIN flying : Hearable(j, n) => Hearable(j, n)'
  BY <1>5 DEF Hearable
<1>9. HeardFits'
  <2>1. \A j \in UdpIds : \A n : Hearable(j, n) => n \in DOMAIN flying
    BY DEF Hearable
  <2> QED BY <2>1, <1>2, <1>3, <1>8 DEF HeardFits
<1>10. DgramsFit'
  <2>1. \A j \in UdpIds : BufferOf(udpReads[j], flying')
    BY <1>3, <1>5, BufferStays DEF DgramsFit, UdpTypes
  <2>2. ASSUME NEW j \in UdpIds, udpBuf[j] # NoRead
        PROVE  BufferOf(udpBuf[j], flying') /\ EndsWhole(udpBuf[j], flying')
    <3>1. udpBuf[j] \in Seq(UdpUnits) /\ BufferOf(udpBuf[j], flying) /\ EndsWhole(udpBuf[j], flying)
      BY <2>2, <1>3 DEF UdpTypes, DgramsFit
    <3> QED BY <3>1, <1>5, BufferStays
  <2> QED BY <2>1, <2>2, <1>2 DEF DgramsFit
<1> QED BY <1>6, <1>7, <1>9, <1>10 DEF UdpInv

\* A datagram that was sent quietly is not handed to the host it comes from.
LEMMA UdpArrivesInv ==
  ASSUME UdpInv, NEW n \in DOMAIN flying, NEW h \in Hosts, Arrives(n, h) PROVE UdpInv'
<1>1. UdpTypes /\ LoopFits /\ HeardFits /\ DgramsFit
  BY DEF UdpInv
<1>2. PICK to : /\ \A i \in to : i \in UdpIds /\ HostOf[i] = h
                /\ udpInbox' = [i \in UdpIds |-> IF i \in to THEN Append(udpInbox[i], n) ELSE udpInbox[i]]
  BY ZenonT(30) DEF Arrives
<1>3. Reaches(flying[n], h) /\ UNCHANGED <<udp, defaulted, flying, udpBuf, udpReads>>
  BY DEF Arrives
<1>4. n \in Nat
  BY <1>1, LenProperties DEF UdpTypes
<1>5. flying[n].to = "group" /\ flying[n].quiet => flying[n].from # h
  BY <1>1, <1>3 DEF Reaches, LoopFits
<1>6. \A i \in UdpIds : i \in to => Hearable(i, n)
  BY <1>2, <1>5 DEF Hearable
<1>7. ASSUME NEW i \in UdpIds
      PROVE  /\ udpInbox'[i] \in Seq(Nat)
             /\ \A k \in DOMAIN udpInbox'[i] : Hearable(i, udpInbox'[i][k])
  <2>1. udpInbox[i] \in Seq(Nat) /\ \A k \in DOMAIN udpInbox[i] : Hearable(i, udpInbox[i][k])
    BY <1>1 DEF UdpTypes, HeardFits
  <2>2. CASE i \in to
    <3>1. udpInbox'[i] = Append(udpInbox[i], n)
      BY <2>2, <1>2
    <3>2. /\ udpInbox'[i] \in Seq(Nat) /\ DOMAIN udpInbox'[i] = 1..(Len(udpInbox[i]) + 1)
          /\ \A k \in 1..Len(udpInbox[i]) : udpInbox'[i][k] = udpInbox[i][k]
          /\ udpInbox'[i][Len(udpInbox[i]) + 1] = n /\ Len(udpInbox[i]) \in Nat
          /\ DOMAIN udpInbox[i] = 1..Len(udpInbox[i])
      BY <3>1, <2>1, <1>4, AppendProperties, LenProperties
    <3>3. \A k \in 1..(Len(udpInbox[i]) + 1) : k \in 1..Len(udpInbox[i]) \/ k = Len(udpInbox[i]) + 1
      BY <3>2
    <3> QED BY <3>2, <3>3, <2>1, <2>2, <1>6
  <2>3. CASE i \notin to
    BY <2>1, <2>3, <1>2
  <2> QED BY <2>2, <2>3
<1>8. UdpTypes'
  BY <1>1, <1>2, <1>3, <1>7 DEF UdpTypes
<1>9. LoopFits' /\ DgramsFit'
  BY <1>1, <1>3 DEF LoopFits, DgramsFit
<1>10. HeardFits'
  BY <1>1, <1>3, <1>7 DEF HeardFits, Hearable
<1> QED BY <1>8, <1>9, <1>10 DEF UdpInv

LEMMA UdpReadStartsInv ==
  ASSUME UdpAssumption, UdpInv, NEW i \in UdpIds, UdpReadStarts(i) PROVE UdpInv'
<1>1. /\ udpBuf' = [udpBuf EXCEPT ![i] = << >>] /\ udpReads' = [udpReads EXCEPT ![i] = << >>]
      /\ UNCHANGED <<udp, defaulted, flying, udpInbox>>
  BY DEF UdpReadStarts
<1>2. /\ << >> \in Seq(UdpUnits) /\ DOMAIN << >> = {} /\ Len(<< >>) = 0 /\ UdpLen \in Nat
  BY DEF UdpAssumption
<1>3. UdpTypes'
  BY <1>1, <1>2 DEF UdpInv, UdpTypes
<1>4. /\ udpBuf'[i] = << >> /\ udpReads'[i] = << >>
      /\ \A j \in UdpIds : j # i => udpBuf'[j] = udpBuf[j] /\ udpReads'[j] = udpReads[j]
  BY <1>1 DEF UdpInv, UdpTypes
<1>5. LoopFits'
  BY <1>1 DEF UdpInv, LoopFits
<1>6. HeardFits'
  BY <1>1, <1>2, <1>4 DEF UdpInv, HeardFits, Hearable
<1>7. DgramsFit'
  <2>1. BufferOf(<< >>, flying) /\ EndsWhole(<< >>, flying)
    BY <1>2 DEF BufferOf, EndsWhole
  <2>2. \A j \in UdpIds : /\ BufferOf(udpReads'[j], flying)
                          /\ udpBuf'[j] # NoRead => BufferOf(udpBuf'[j], flying) /\ EndsWhole(udpBuf'[j], flying)
    BY <2>1, <1>4 DEF UdpInv, DgramsFit
  <2> QED BY <2>2, <1>1 DEF DgramsFit
<1> QED BY <1>3, <1>5, <1>6, <1>7 DEF UdpInv

\* The rest of the buffer is filled from the next datagram: it goes on only when it had
\* all of that datagram.
LEMMA UdpReadSomeInv ==
  ASSUME UdpAssumption, UdpInv, NEW i \in UdpIds, UdpReadSome(i) PROVE UdpInv'
<1>1. UdpTypes /\ LoopFits /\ HeardFits /\ DgramsFit /\ UdpLen \in Nat
  BY DEF UdpInv, UdpAssumption
<1>2. PICK n, b : n = Head(udpInbox[i]) /\ b = udpBuf[i]
  OBVIOUS
<1>3. PICK m : m = Min({flying[n].size, RoomLeft(i)})
  OBVIOUS
<1>4. PICK now : now = b \o [k \in 1..m |-> <<n, k>>]
  OBVIOUS
<1>5. /\ b # NoRead /\ udpInbox[i] # << >> /\ udpInbox' = [udpInbox EXCEPT ![i] = Tail(udpInbox[i])]
      /\ IF Len(now) >= UdpLen \/ flying[n].size = 0
         THEN udpBuf' = [udpBuf EXCEPT ![i] = NoRead] /\ udpReads' = [udpReads EXCEPT ![i] = now]
         ELSE udpBuf' = [udpBuf EXCEPT ![i] = now] /\ udpReads' = udpReads
      /\ UNCHANGED <<udp, defaulted, flying>>
  BY <1>2, <1>3, <1>4 DEF UdpReadSome
<1>6. /\ b \in Seq(UdpUnits) /\ BufferOf(b, flying) /\ EndsWhole(b, flying) /\ Len(b) \in Nat
      /\ Len(b) <= UdpLen /\ \A k \in DOMAIN b : Hearable(i, b[k][1])
  <2>1. b \in Seq(UdpUnits) /\ BufferOf(b, flying) /\ EndsWhole(b, flying)
        /\ \A k \in DOMAIN b : Hearable(i, b[k][1])
    BY <1>1, <1>2, <1>5 DEF UdpTypes, DgramsFit, HeardFits
  <2> QED BY <2>1, LenProperties DEF BufferOf
<1>7. /\ Hearable(i, n) /\ n \in DOMAIN flying
      /\ Tail(udpInbox[i]) \in Seq(Nat)
      /\ \A k \in DOMAIN Tail(udpInbox[i]) : Hearable(i, Tail(udpInbox[i])[k])
  <2>1. PICK q : q = udpInbox[i]
    OBVIOUS
  <2>2. q \in Seq(Nat) /\ q # << >> /\ \A k \in DOMAIN q : Hearable(i, q[k])
    BY <2>1, <1>1, <1>5 DEF UdpTypes, HeardFits
  <2>3. /\ Tail(q) \in Seq(Nat) /\ Len(Tail(q)) = Len(q) - 1 /\ Len(q) \in Nat \ {0}
        /\ \A k \in 1..Len(Tail(q)) : Tail(q)[k] = q[k + 1]
        /\ Head(q) = q[1] /\ DOMAIN q = 1..Len(q)
    BY <2>2, HeadTailProperties, EmptySeq, LenProperties
  <2>4. 1 \in DOMAIN q /\ \A k \in 1..(Len(q) - 1) : k + 1 \in DOMAIN q
    BY <2>3
  <2>5. DOMAIN Tail(q) = 1..(Len(q) - 1)
    BY <2>3, LenProperties
  <2>6. Hearable(i, Head(q)) /\ \A k \in DOMAIN Tail(q) : Hearable(i, Tail(q)[k])
    BY <2>2, <2>3, <2>4, <2>5
  <2> QED BY <2>1, <2>3, <2>6, <1>2 DEF Hearable
<1>8. flying \in Seq(Datagrams) /\ flying[n].size \in Nat
  <2>1. flying[n] \in Datagrams
    BY <1>1, <1>7, LenProperties, ElementOfSeq DEF UdpTypes
  <2> QED BY <2>1, <1>1 DEF UdpTypes, Datagrams, UdpAssumption
<1>9. m \in Nat /\ m <= flying[n].size /\ Len(b) + m <= UdpLen
      /\ (Len(b) + m < UdpLen => m = flying[n].size)
  <2>1. PICK r : r = RoomLeft(i)
    OBVIOUS
  <2>2. r = UdpLen - Len(b) /\ r \in Nat
    BY <2>1, <1>1, <1>2, <1>6 DEF RoomLeft
  <2>3. m \in Nat /\ m <= flying[n].size /\ m <= r /\ m \in {flying[n].size, r}
    BY <2>1, <2>2, <1>3, <1>8, MinOfTwo
  <2> QED BY <2>2, <2>3, <1>1, <1>6, <1>8
<1>10. /\ now \in Seq(UdpUnits) /\ Len(now) = Len(b) + m /\ BufferOf(now, flying)
       /\ m = flying[n].size => EndsWhole(now, flying)
       /\ \A k \in DOMAIN now : \/ k \in DOMAIN b /\ now[k] = b[k]
                                \/ now[k][1] = n
  BY SMTT(30), <1>4, <1>6, <1>7, <1>8, <1>9, PieceAppended
<1>11. \A k \in DOMAIN now : Hearable(i, now[k][1])
  BY <1>6, <1>7, <1>10
<1>12. /\ udpInbox' \in [UdpIds -> Seq(Nat)]
       /\ \A j \in UdpIds : \A k \in DOMAIN udpInbox'[j] : Hearable(j, udpInbox'[j][k])
  BY <1>1, <1>5, <1>7 DEF UdpTypes, HeardFits
<1>13. LoopFits'
  BY <1>1, <1>5 DEF LoopFits
<1>14. CASE Len(now) >= UdpLen \/ flying[n].size = 0
  <2>1. udpBuf' = [udpBuf EXCEPT ![i] = NoRead] /\ udpReads' = [udpReads EXCEPT ![i] = now]
    BY <1>5, <1>14
  <2>2. /\ udpBuf' \in [UdpIds -> Seq(UdpUnits) \cup {NoRead}] /\ udpReads' \in [UdpIds -> Seq(UdpUnits)]
        /\ udpBuf'[i] = NoRead /\ udpReads'[i] = now
        /\ \A j \in UdpIds : j # i => udpBuf'[j] = udpBuf[j] /\ udpReads'[j] = udpReads[j]
    BY <2>1, <1>1, <1>10 DEF UdpTypes
  <2>3. UdpTypes'
    BY <2>2, <1>1, <1>5, <1>12 DEF UdpTypes
  <2>4. HeardFits'
    BY SMTT(30), <2>2, <1>1, <1>5, <1>11, <1>12 DEF HeardFits, Hearable
  <2>5. DgramsFit'
    BY <2>2, <1>1, <1>5, <1>10 DEF DgramsFit
  <2> QED BY <2>3, <2>4, <2>5, <1>13 DEF UdpInv
<1>15. CASE ~(Len(now) >= UdpLen \/ flying[n].size = 0)
  <2>1. udpBuf' = [udpBuf EXCEPT ![i] = now] /\ udpReads' = udpReads
    BY <1>5, <1>15
  <2>2. /\ udpBuf' \in [UdpIds -> Seq(UdpUnits) \cup {NoRead}]
        /\ udpBuf'[i] = now /\ \A j \in UdpIds : j # i => udpBuf'[j] = udpBuf[j]
    BY <2>1, <1>1, <1>10 DEF UdpTypes
  <2>3. EndsWhole(now, flying)
    <3>1. Len(b) + m < UdpLen
      BY <1>1, <1>6, <1>9, <1>10, <1>15
    <3> QED BY <3>1, <1>9, <1>10
  <2>4. UdpTypes'
    BY SMTT(30), <2>1, <2>2, <1>1, <1>5, <1>12 DEF UdpTypes
  <2>5. HeardFits'
    BY SMTT(30), <2>1, <2>2, <1>1, <1>5, <1>11, <1>12 DEF HeardFits, Hearable
  <2>6. DgramsFit'
    BY <2>1, <2>2, <2>3, <1>1, <1>5, <1>10 DEF DgramsFit
  <2> QED BY <2>4, <2>5, <2>6, <1>13 DEF UdpInv
<1> QED BY <1>14, <1>15

LEMMA UdpReadStopsInv ==
  ASSUME UdpInv, NEW i \in UdpIds, UdpReadStops(i) PROVE UdpInv'
<1>1. /\ udpBuf[i] # NoRead /\ udpReads' = [udpReads EXCEPT ![i] = udpBuf[i]]
      /\ udpBuf' = [udpBuf EXCEPT ![i] = NoRead] /\ UNCHANGED <<udp, defaulted, flying, udpInbox>>
  BY DEF UdpReadStops
<1>2. UdpTypes /\ LoopFits /\ HeardFits /\ DgramsFit /\ udpBuf[i] \in Seq(UdpUnits)
  BY <1>1 DEF UdpInv, UdpTypes
<1>3. UdpTypes'
  BY <1>1, <1>2 DEF UdpTypes
<1>4. /\ udpBuf'[i] = NoRead /\ udpReads'[i] = udpBuf[i]
      /\ \A j \in UdpIds : j # i => udpBuf'[j] = udpBuf[j] /\ udpReads'[j] = udpReads[j]
  BY <1>1, <1>2 DEF UdpTypes
<1>5. LoopFits'
  BY <1>1, <1>2 DEF LoopFits
<1>6. HeardFits'
  BY <1>1, <1>2, <1>4 DEF HeardFits, Hearable
<1>7. DgramsFit'
  BY <1>1, <1>2, <1>4 DEF DgramsFit
<1> QED BY <1>3, <1>5, <1>6, <1>7 DEF UdpInv

LEMMA UdpStep == UdpAssumption /\ UdpInv /\ [UdpNext]_udpVars => UdpInv'
<1> SUFFICES ASSUME UdpAssumption, UdpInv, [UdpNext]_udpVars PROVE UdpInv'
  OBVIOUS
<1>1. CASE UNCHANGED udpVars
  <2>1. UNCHANGED <<udp, defaulted, flying, udpInbox, udpBuf, udpReads>>
    BY <1>1 DEF udpVars
  <2> QED BY <2>1 DEF UdpInv, UdpTypes, LoopFits, HeardFits, Hearable, DgramsFit
<1>2. ASSUME NEW i \in UdpIds,
             \/ radUDPSocketCreate(i) \/ radUDPSocketDestroy(i) \/ radUDPSocketBind(i)
             \/ radUDPSocketAddMulticastMembership(i) \/ radUDPSocketDropMulticastMembership(i)
             \/ \E on \in BOOLEAN : \/ radUDPSocketSetBroadcast(i, on)
                                    \/ radUDPSocketSetMulticastLoopback(i, on)
      PROVE  UdpInv'
  BY <1>2, UdpCreateInv, UdpDestroyInv, UdpOptionsInv
<1>3. ASSUME NEW i \in UdpIds, NEW to \in UdpDests, NEW size \in UdpSizes, radUDPSocketSendTo(i, to, size)
      PROVE  UdpInv'
  BY <1>3, UdpSendToInv
<1>4. ASSUME NEW i \in UdpIds, radUDPSocketReadExact(i) PROVE UdpInv'
  BY <1>4, UdpReadStartsInv, UdpReadSomeInv, UdpReadStopsInv DEF radUDPSocketReadExact
<1>5. ASSUME NEW n \in DOMAIN flying, NEW h \in Hosts, Arrives(n, h) PROVE UdpInv'
  BY <1>5, UdpArrivesInv
<1> QED BY <1>1, <1>2, <1>3, <1>4, <1>5 DEF UdpNext

-----------------------------------------------------------------------------
(* Datagram sockets: what follows *)

\* A buffer holds beginnings of datagrams, each cut short at its end only, and nobody hears its
\* own quiet multicasts, for any sockets, hosts and sizes and whatever the network does.
THEOREM DatagramsComeAsSent == UdpSpec => []DatagramsAsSent
<1>1. UdpInv => BuffersOfDatagrams
  <2> SUFFICES ASSUME UdpInv, NEW b \in Bufs
               PROVE  /\ Len(b) <= UdpLen
                      /\ \A k \in DOMAIN b :
                           /\ b[k][2] > 1 => k > 1 /\ b[k - 1] = <<b[k][1], b[k][2] - 1>>
                           /\ k < Len(b) /\ b[k][2] < flying[b[k][1]].size => b[k + 1][1] = b[k][1]
    BY DEF BuffersOfDatagrams
  <2>1. BufferOf(b, flying)
    BY DEF Bufs, UdpInv, DgramsFit
  <2> QED BY <2>1 DEF BufferOf
<1>2. UdpInv => OwnMulticastUnheard
  BY DEF UdpInv, HeardFits, Hearable, OwnMulticastUnheard
<1>3. UdpInv => DatagramsAsSent
  BY <1>1, <1>2 DEF DatagramsAsSent
<1> QED BY <1>3, UdpInitial, UdpStep, UdpAssumption, PTL DEF UdpSpec

=============================================================================
