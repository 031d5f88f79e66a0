--------------------------- MODULE ShmUtilProofs ---------------------------
(***************************************************************************)
(* Theorems about ShmUtil, for any number of processes, inodes, segments,  *)
(* sessions, crashes and failing fopen calls, and for every interleaving.  *)
(***************************************************************************)
EXTENDS ShmUtil, FiniteSetTheorems, TLAPS

------------------------------------------------------------------------------
(* Type correctness *)

\* A session that has begun is one of the bounded number of sessions, so that
\* counting it at its end stays in range.
SessionBound ==
  \A p \in Procs : pc[p] \notin {"closed", "dead"} => sess[p] <= MaxSessions

TypeInv == TypeOK /\ SessionBound

\* The number of mappings of a segment, which IPC_STAT returns, is a natural
\* number: there are finitely many processes and sessions.
LEMMA NattchIsNat == ASSUME NEW s PROVE shm_nattch(s) \in Nat
<1>1. IsFiniteSet(Procs) /\ IsFiniteSet(Sessions)
  BY ShmAssumption, FS_Interval DEF Sessions
<1>2. IsFiniteSet(Procs \X Sessions)
  BY <1>1, FS_Product
<1>3. IsFiniteSet(Mappings(map, s))
  BY <1>2, FS_Subset DEF Mappings
<1> QED BY <1>3, FS_CardinalityType DEF shm_nattch

\* Removing mappings or marking a segment for destruction changes nothing but
\* the states of segments.
LEMMA SegmentState ==
  ASSUME NEW g \in Segments, NEW st \in {"free", "live", "dest"}
  PROVE  /\ [g EXCEPT !.state = st] \in Segments
         /\ [g EXCEPT !.state = st].state = st /\ [g EXCEPT !.state = st].key = g.key
         /\ [g EXCEPT !.state = st].size = g.size
  BY DEF Segments

\* Dropping mappings (shmdt, process death) leaves the segments well typed.
LEMMA UnmappedType ==
  ASSUME TypeOK, NEW m PROVE Unmapped(seg, m) \in [Segs -> Segments]
  BY SegmentState DEF TypeOK, Unmapped

\* IPC_RMID leaves the segments well typed.
LEMMA RMIDType ==
  ASSUME TypeOK, NEW s PROVE shmctl_IPC_RMID(s) \in [Segs -> Segments]
<1> DEFINE st == IF Mappings(map, s) = {} THEN "free" ELSE "dest"
<1>1. seg \in [Segs -> Segments]
  BY DEF TypeOK
<1>2. shmctl_IPC_RMID(s) = [seg EXCEPT ![s] = [seg[s] EXCEPT !.state = st]]
  BY <1>1 DEF shmctl_IPC_RMID
<1>3. s \in Segs => [seg[s] EXCEPT !.state = st] \in Segments
  BY <1>1, SegmentState
<1> HIDE DEF st
<1> QED BY <1>1, <1>2, <1>3

\* The type invariant holds before the first call.
LEMMA InitTypeInv == Init => TypeInv
  BY ShmAssumption
  DEF Init, TypeInv, TypeOK, SessionBound, Segments, Keys, PC, Outside

\* A session that ends leaves the state well typed.
LEMMA EndSessionType ==
  ASSUME TypeInv, NEW p \in Procs, pc[p] \notin {"closed", "dead"}, EndSession(p)
  PROVE  /\ pc' \in [Procs -> PC] /\ sess' \in [Procs -> 1..(MaxSessions + 1)]
         /\ key' \in [Procs -> Keys] /\ new' \in [Procs -> BOOLEAN]
         /\ create' \in [Procs -> BOOLEAN] /\ mFd' \in [Procs -> Segs \cup {NoSeg}]
         /\ addr' \in [Procs -> Segs \cup {NoSeg}] /\ nattch' \in [Procs -> Nat]
         /\ SessionBound'
  BY ShmAssumption
  DEF TypeInv, TypeOK, SessionBound, EndSession, ForgetLocals, Goto, Keys, PC, Outside

\* Every call of every process keeps the type invariant.
LEMMA NextTypeInv == TypeInv /\ [Next]_vars => TypeInv'
<1> SUFFICES ASSUME TypeInv, [Next]_vars PROVE TypeInv'
  OBVIOUS
<1> USE ShmAssumption
<1>1. CASE UNCHANGED vars
  BY <1>1 DEF vars, clientVars, locals, budgets, TypeInv, TypeOK, SessionBound
<1>2. ASSUME NEW p \in Procs, shmUtilInit_fopen(p) PROVE TypeInv'
  BY <1>2 DEF shmUtilInit_fopen, Goto, IsNew, budgets, TypeInv, TypeOK, SessionBound, PC
<1>3. ASSUME NEW p \in Procs, shmUtilInit_fail(p) PROVE TypeInv'
  BY <1>3 DEF shmUtilInit_fail, Goto, fopenFails, TypeInv, TypeOK, SessionBound, PC, Keys
<1>4. ASSUME NEW p \in Procs, shmUtilInit_append(p) PROVE TypeInv'
  BY <1>4 DEF shmUtilInit_append, Goto, budgets, TypeInv, TypeOK, SessionBound, PC
<1>5. ASSUME NEW p \in Procs, shmUtilInit_ftok(p) PROVE TypeInv'
  BY <1>5 DEF shmUtilInit_ftok, ftok, Goto, budgets, TypeInv, TypeOK, SessionBound, PC, Keys
<1>6. ASSUME NEW p \in Procs, shmUtilAttach_badParameter(p) PROVE TypeInv'
  BY <1>6 DEF shmUtilAttach_badParameter, AttachReturnsNull, Goto, budgets,
              TypeInv, TypeOK, SessionBound, PC, Outside
<1>7. ASSUME NEW p \in Procs, shmUtilAttach_shmget(p) PROVE TypeInv'
  <2>1. PICK n \in Sizes \ {0}, c \in Creates : shmUtilAttach_shmget(p)!2!(n, c)
    BY <1>7 DEF shmUtilAttach_shmget
  <2>2. \A s \in Segs : [state |-> "live", key |-> key[p], size |-> n, cpid |-> p] \in Segments
    BY DEF TypeInv, TypeOK, Segments
  <2>3. seg' \in [Segs -> Segments] /\ mem' \in [Segs -> {"zero", "used"}]
    BY <2>1, <2>2 DEF TypeInv, TypeOK
  <2>4. pc[p] = "inited" /\ pc' \in [Procs -> PC] /\ \A q \in Procs \ {p} : pc'[q] = pc[q]
    BY SMTT(30), <1>7, <2>1 DEF shmUtilAttach_shmget, Goto, TypeInv, TypeOK, PC, Outside
  <2>5. mFd' \in [Procs -> Segs \cup {NoSeg}] /\ create' \in [Procs -> BOOLEAN]
    BY <2>1 DEF TypeInv, TypeOK
  <2> QED BY <2>1, <2>3, <2>4, <2>5 DEF budgets, TypeInv, TypeOK, SessionBound
<1>8. ASSUME NEW p \in Procs, shmUtilAttach_shmat(p) PROVE TypeInv'
  BY SMTT(60), <1>8 DEF shmUtilAttach_shmat, AttachReturnsNull, Goto, budgets, clientVars, locals,
              TypeInv, TypeOK, SessionBound, PC, Outside
<1>9. ASSUME NEW p \in Procs, shmUtilAttach_lockfile(p) PROVE TypeInv'
  BY <1>9 DEF shmUtilAttach_lockfile, Goto, budgets, clientVars, locals,
              TypeInv, TypeOK, SessionBound, PC
<1>10. ASSUME NEW p \in Procs, shmUtilAttach_lockfileFails(p) PROVE TypeInv'
  BY <1>10 DEF shmUtilAttach_lockfileFails, AttachReturnsNull, fopenFails, Goto,
               TypeInv, TypeOK, SessionBound, PC, Outside
<1>11. ASSUME NEW p \in Procs, shmUtilAttach_clear(p) PROVE TypeInv'
  BY <1>11 DEF shmUtilAttach_clear, Goto, budgets, TypeInv, TypeOK, SessionBound, PC, Outside
<1>12. ASSUME NEW p \in Procs, shmUtilDetach_shmget(p) PROVE TypeInv'
  <2>1. CASE EndSession(p)
    BY <1>12, <2>1, EndSessionType DEF shmUtilDetach_shmget, budgets, TypeInv, TypeOK
  <2>2. CASE ~EndSession(p)
    BY <1>12, <2>2 DEF shmUtilDetach_shmget, Goto, budgets, TypeInv, TypeOK, SessionBound, PC
  <2> QED BY <2>1, <2>2
<1>13. ASSUME NEW p \in Procs, shmUtilDetach_stat(p) PROVE TypeInv'
  BY SMTT(30), <1>13, EndSessionType, NattchIsNat
  DEF shmUtilDetach_stat, Goto, budgets, TypeInv, TypeOK, SessionBound, PC
<1>14. ASSUME NEW p \in Procs, shmUtilDetach_shmdt(p) PROVE TypeInv'
  BY <1>14, UnmappedType
  DEF shmUtilDetach_shmdt, Goto, budgets, TypeInv, TypeOK, SessionBound, PC
<1>15. ASSUME NEW p \in Procs, shmUtilDetach_rmid(p) PROVE TypeInv'
  <2>1. CASE LastUser(p)
    BY <1>15, <2>1, RMIDType
    DEF shmUtilDetach_rmid, Removed, Goto, budgets, locals, TypeInv, TypeOK, SessionBound, PC
  <2>2. CASE ~LastUser(p)
    BY <1>15, <2>2, EndSessionType DEF shmUtilDetach_rmid, budgets, TypeInv, TypeOK
  <2> QED BY <2>1, <2>2
<1>16. ASSUME NEW p \in Procs, shmUtilDetach_unlink(p) PROVE TypeInv'
  BY <1>16, EndSessionType DEF shmUtilDetach_unlink, budgets, TypeInv, TypeOK, SessionBound
<1>17. ASSUME NEW p \in Procs, WriteMemory(p) PROVE TypeInv'
  BY <1>17 DEF WriteMemory, budgets, clientVars, locals, TypeInv, TypeOK, SessionBound
<1>18. ASSUME NEW p \in Procs, smcOpen_givesUp(p) PROVE TypeInv'
  BY <1>18, EndSessionType DEF smcOpen_givesUp, budgets, TypeInv, TypeOK, SessionBound
<1>19. ASSUME NEW p \in Procs, Die(p) PROVE TypeInv'
  BY <1>19, UnmappedType
  DEF Die, ForgetLocals, Goto, TypeInv, TypeOK, SessionBound, PC, Outside, Keys
<1> QED
  BY <1>1, <1>2, <1>3, <1>4, <1>5, <1>6, <1>7, <1>8, <1>9, <1>10, <1>11, <1>12, <1>13,
     <1>14, <1>15, <1>16, <1>17, <1>18, <1>19 DEF Next

\* The type invariant holds in every reachable state: no call leaves a
\* variable outside its type, however the calls of the processes interleave.
THEOREM TypeCorrect == Spec => []TypeOK
<1>1. Spec => []TypeInv
  BY InitTypeInv, NextTypeInv, PTL DEF Spec
<1>2. TypeInv => TypeOK
  BY DEF TypeInv
<1> QED BY <1>1, <1>2, PTL

------------------------------------------------------------------------------
(* The memory a client holds stays mapped *)

\* After shmat, and until shmUtilAttach returns, the call's segment is mapped
\* by the current session.
AttachMaps ==
  \A p \in Procs : pc[p] \in {"lockfile", "clear"} => map[Cur(p)] = mFd[p]

\* The address a client holds is that of its current session's mapping, and a
\* client holds one only between shmUtilAttach's return and shmdt.
AddressMaps ==
  \A p \in Procs : addr[p] # NoSeg =>
    map[Cur(p)] = addr[p] /\ pc[p] \in {"open", "stat", "shmdt"}

\* The kernel destroys no segment that is mapped.
MappedExists ==
  \A x \in Procs \X Sessions : map[x] # NoSeg => seg[map[x]].state # "free"

HeldInv == TypeInv /\ AttachMaps /\ AddressMaps /\ MappedExists

\* What one step may do to a segment: nothing changes its key or size while it
\* exists or while a call holds its identifier, one that is marked for
\* destruction stays so, and one that is still mapped is not destroyed.
SegmentStep(s) ==
  /\ seg[s].state # "free" =>
       /\ seg'[s].key = seg[s].key /\ seg'[s].size = seg[s].size
       /\ seg[s].state = "dest" => seg'[s].state # "live"
       /\ Mappings(map', s) # {} => seg'[s].state # "free"
  /\ (\E q \in Procs : mFd[q] = s) => seg'[s].key = seg[s].key

\* What shmdt and process death do to a segment.
LEMMA UnmappedStep ==
  ASSUME TypeOK, seg' = Unmapped(seg, map'), NEW s \in Segs
  PROVE  SegmentStep(s)
<1>1. seg[s] \in Segments
  BY DEF TypeOK
<1>2. CASE seg[s].state = "dest" /\ Mappings(map', s) = {}
  BY <1>1, <1>2, SegmentState DEF Unmapped, SegmentStep
<1>3. CASE ~(seg[s].state = "dest" /\ Mappings(map', s) = {})
  BY <1>3 DEF Unmapped, SegmentStep
<1> QED BY <1>2, <1>3

\* What IPC_RMID does to a segment.
LEMMA RemovedStep ==
  ASSUME TypeOK, NEW p \in Procs, seg' = Removed(p), map' = map, NEW s \in Segs
  PROVE  SegmentStep(s)
<1> DEFINE st == IF Mappings(map, s) = {} THEN "free" ELSE "dest"
<1>1. seg \in [Segs -> Segments] /\ seg[s] \in Segments
  BY DEF TypeOK
<1>2. CASE seg'[s] = seg[s]
  BY <1>2 DEF SegmentStep
<1>3. CASE seg[s].state = "live" /\ seg'[s] = [seg[s] EXCEPT !.state = st]
  BY <1>1, <1>3, SegmentState DEF SegmentStep
<1>4. seg'[s] = seg[s] \/ (seg[s].state = "live" /\ seg'[s] = [seg[s] EXCEPT !.state = st])
  BY <1>1 DEF Removed, shmctl_IPC_RMID
<1> QED BY <1>2, <1>3, <1>4

\* Every step of every process changes each segment only in these ways.
LEMMA EveryStep == TypeOK /\ [Next]_vars => \A s \in Segs : SegmentStep(s)
<1> SUFFICES ASSUME TypeOK, [Next]_vars, NEW s \in Segs PROVE SegmentStep(s)
  OBVIOUS
<1>1. CASE seg' = seg
  BY <1>1 DEF SegmentStep
<1>2. ASSUME NEW p \in Procs, shmUtilAttach_shmget(p), seg' # seg PROVE SegmentStep(s)
  <2>1. PICK n \in Sizes \ {0}, c \in Creates : shmUtilAttach_shmget(p)!2!(n, c)
    BY <1>2 DEF shmUtilAttach_shmget
  <2>2. PICK t \in FreeIds : \A u \in Segs : u # t => seg'[u] = seg[u]
    BY <1>2, <2>1 DEF TypeOK
  <2> QED BY <2>2 DEF FreeIds, SegmentStep
<1>3. ASSUME NEW p \in Procs, shmUtilDetach_shmdt(p), seg' # seg PROVE SegmentStep(s)
  BY <1>3, UnmappedStep DEF shmUtilDetach_shmdt
<1>4. ASSUME NEW p \in Procs, shmUtilDetach_rmid(p), seg' # seg PROVE SegmentStep(s)
  BY <1>4, RemovedStep DEF shmUtilDetach_rmid
<1>5. ASSUME NEW p \in Procs, Die(p) PROVE SegmentStep(s)
  BY <1>5, UnmappedStep DEF Die
<1> QED
  BY <1>1, <1>2, <1>3, <1>4, <1>5
  DEF Next, vars, shmUtilInit_fopen, shmUtilInit_fail, shmUtilInit_append, shmUtilInit_ftok,
      shmUtilAttach_badParameter, shmUtilAttach_shmat, shmUtilAttach_lockfile,
      shmUtilAttach_lockfileFails, shmUtilAttach_clear, shmUtilDetach_shmget,
      shmUtilDetach_stat, shmUtilDetach_unlink, WriteMemory, smcOpen_givesUp

\* A step that maps nothing new keeps every mapped segment in existence.
LEMMA MappedStays ==
  ASSUME HeldInv, [Next]_vars,
         \A x \in Procs \X Sessions : map'[x] = map[x] \/ map'[x] = NoSeg
  PROVE  MappedExists'
<1> SUFFICES ASSUME NEW x \in Procs \X Sessions, map'[x] # NoSeg
             PROVE  seg'[map'[x]].state # "free"
  BY DEF MappedExists
<1>1. map[x] = map'[x] /\ map[x] \in Segs /\ seg[map[x]].state # "free"
  BY DEF HeldInv, TypeInv, TypeOK, MappedExists
<1>2. Mappings(map', map[x]) # {}
  BY <1>1 DEF Mappings
<1> QED BY <1>1, <1>2, EveryStep DEF HeldInv, TypeInv, SegmentStep

\* A process that is inside a session has a slot for its mapping.
LEMMA ActiveSession ==
  ASSUME TypeInv, NEW p \in Procs, pc[p] \notin {"closed", "dead"}
  PROVE  Cur(p) \in Procs \X Sessions
  BY ShmAssumption DEF TypeInv, SessionBound, TypeOK, Cur, Sessions

\* Nobody holds memory before the first call.
LEMMA InitHeldInv == Init => HeldInv
  BY InitTypeInv DEF Init, HeldInv, AttachMaps, AddressMaps, MappedExists

\* A call that holds no address, or returns none, and leaves the mappings
\* alone keeps HeldInv: closing a session or giving up.
LEMMA EndSessionHeld ==
  ASSUME HeldInv, NEW p \in Procs, EndSession(p), map' = map
  PROVE  AttachMaps' /\ AddressMaps'
  BY DEF HeldInv, TypeInv, TypeOK, AttachMaps, AddressMaps, Cur, EndSession, ForgetLocals, Goto

\* Every step keeps held memory mapped and in existence.
LEMMA NextHeldInv == HeldInv /\ [Next]_vars => HeldInv'
<1> DEFINE Held == AttachMaps /\ AddressMaps /\ MappedExists
<1> SUFFICES ASSUME HeldInv, [Next]_vars PROVE Held'
  BY NextTypeInv DEF HeldInv
<1> USE DEF HeldInv, AttachMaps, AddressMaps
<1>0. TypeOK
  BY DEF TypeInv
<1>1. CASE UNCHANGED vars
  BY <1>1, MappedStays DEF vars, clientVars, locals, Cur
<1>2. ASSUME NEW p \in Procs, shmUtilInit_fopen(p) PROVE Held'
  BY <1>0, <1>2, MappedStays DEF shmUtilInit_fopen, Goto, TypeOK, Cur
<1>3. ASSUME NEW p \in Procs, shmUtilInit_fail(p) PROVE Held'
  BY <1>0, <1>3, MappedStays DEF shmUtilInit_fail, Goto, TypeOK, Cur
<1>4. ASSUME NEW p \in Procs, shmUtilInit_append(p) PROVE Held'
  BY <1>0, <1>4, MappedStays DEF shmUtilInit_append, Goto, TypeOK, Cur
<1>5. ASSUME NEW p \in Procs, shmUtilInit_ftok(p) PROVE Held'
  BY <1>0, <1>5, MappedStays DEF shmUtilInit_ftok, Goto, TypeOK, Cur
<1>6. ASSUME NEW p \in Procs, shmUtilAttach_badParameter(p) PROVE Held'
  BY <1>0, <1>6, MappedStays DEF shmUtilAttach_badParameter, AttachReturnsNull, Goto, TypeOK, Cur
<1>7. ASSUME NEW p \in Procs, shmUtilAttach_shmget(p) PROVE Held'
  <2>1. /\ pc[p] = "inited"
        /\ \A q \in Procs : pc'[q] = pc[q] \/ (q = p /\ pc'[q] \in {"shmat", "null"})
        /\ \A q \in Procs : mFd'[q] = mFd[q] \/ q = p
        /\ UNCHANGED <<map, sess, addr>>
    BY <1>0, <1>7 DEF shmUtilAttach_shmget, Goto, TypeOK
  <2> QED BY <1>0, <2>1, MappedStays DEF TypeOK, Cur
<1>8. ASSUME NEW p \in Procs, shmUtilAttach_shmat(p) PROVE Held'
  <2>1. CASE shmatFails(p)
    BY <1>0, <1>8, <2>1, MappedStays DEF shmUtilAttach_shmat, AttachReturnsNull, Goto, TypeOK, Cur
  <2>2. CASE ~shmatFails(p)
    <3>1. /\ pc[p] = "shmat" /\ pc' = [pc EXCEPT ![p] = "lockfile"]
          /\ map' = [map EXCEPT ![Cur(p)] = mFd[p]]
          /\ UNCHANGED <<seg, sess, mFd, addr>>
      BY <1>8, <2>2 DEF shmUtilAttach_shmat, Goto, clientVars, locals
    <3>2. Cur(p) \in Procs \X Sessions
      BY <3>1, ActiveSession
    <3>3. \A q \in Procs \ {p} : pc[q] \notin {"closed", "dead"} => map'[Cur(q)] = map[Cur(q)]
      BY <1>0, <3>1, ActiveSession DEF TypeOK, Cur
    <3>4. MappedExists'
      BY <1>0, <2>2, <3>1, <3>2 DEF MappedExists, shmatFails, TypeOK
    <3>5. map'[Cur(p)] = mFd[p] /\ \A q \in Procs : Cur(q)' = Cur(q)
      BY <1>0, <3>1, <3>2 DEF TypeOK, Cur
    <3>6. AttachMaps'
      BY <1>0, <3>1, <3>3, <3>5 DEF TypeOK, Cur
    <3>7. AddressMaps'
      BY <1>0, <3>1, <3>3, <3>5 DEF TypeOK, Cur
    <3> QED BY <3>4, <3>6, <3>7
  <2> QED BY <2>1, <2>2
<1>9. ASSUME NEW p \in Procs, shmUtilAttach_lockfile(p) PROVE Held'
  BY <1>0, <1>9, MappedStays DEF shmUtilAttach_lockfile, Goto, clientVars, locals, TypeOK, Cur
<1>10. ASSUME NEW p \in Procs, shmUtilAttach_lockfileFails(p) PROVE Held'
  BY <1>0, <1>10, MappedStays DEF shmUtilAttach_lockfileFails, AttachReturnsNull, Goto, TypeOK, Cur
<1>11. ASSUME NEW p \in Procs, shmUtilAttach_clear(p) PROVE Held'
  BY <1>0, <1>11, MappedStays DEF shmUtilAttach_clear, Goto, TypeOK, Cur
<1>12. ASSUME NEW p \in Procs, shmUtilDetach_shmget(p) PROVE Held'
  <2>1. CASE EndSession(p)
    BY <1>12, <2>1, EndSessionHeld, MappedStays DEF shmUtilDetach_shmget
  <2>2. CASE ~EndSession(p)
    BY <1>0, <1>12, <2>2, MappedStays DEF shmUtilDetach_shmget, Goto, TypeOK, Cur
  <2> QED BY <2>1, <2>2
<1>13. ASSUME NEW p \in Procs, shmUtilDetach_stat(p) PROVE Held'
  <2>1. CASE EndSession(p)
    BY <1>13, <2>1, EndSessionHeld, MappedStays DEF shmUtilDetach_stat
  <2>2. CASE ~EndSession(p)
    BY <1>0, <1>13, <2>2, MappedStays DEF shmUtilDetach_stat, Goto, TypeOK, Cur
  <2> QED BY <2>1, <2>2
<1>14. ASSUME NEW p \in Procs, shmUtilDetach_shmdt(p) PROVE Held'
  <2>1. /\ pc[p] = "shmdt" /\ pc' = [pc EXCEPT ![p] = "rmid"]
        /\ addr' = [addr EXCEPT ![p] = NoSeg]
        /\ map' = map \/ map' = [map EXCEPT ![Cur(p)] = NoSeg]
        /\ UNCHANGED <<sess, mFd>>
    BY <1>14 DEF shmUtilDetach_shmdt, Goto
  <2>2. \A q \in Procs \ {p} : pc[q] \notin {"closed", "dead"} =>
          Cur(q)' = Cur(q) /\ map'[Cur(q)] = map[Cur(q)]
    BY <1>0, <2>1, ActiveSession DEF TypeOK, Cur
  <2>3. MappedExists'
    BY <1>0, <2>1, MappedStays DEF TypeOK
  <2>4. AttachMaps'
    BY <1>0, <2>1, <2>2 DEF TypeOK, Cur
  <2>5. AddressMaps'
    BY <1>0, <2>1, <2>2 DEF TypeOK, Cur
  <2> QED BY <2>3, <2>4, <2>5
<1>15. ASSUME NEW p \in Procs, shmUtilDetach_rmid(p) PROVE Held'
  <2>1. CASE EndSession(p)
    BY <1>15, <2>1, EndSessionHeld, MappedStays DEF shmUtilDetach_rmid
  <2>2. CASE ~EndSession(p)
    BY <1>0, <1>15, <2>2, MappedStays DEF shmUtilDetach_rmid, Goto, locals, TypeOK, Cur
  <2> QED BY <2>1, <2>2
<1>16. ASSUME NEW p \in Procs, shmUtilDetach_unlink(p) PROVE Held'
  BY <1>16, EndSessionHeld, MappedStays DEF shmUtilDetach_unlink
<1>17. ASSUME NEW p \in Procs, WriteMemory(p) PROVE Held'
  BY <1>17, MappedStays DEF WriteMemory, clientVars, locals, Cur
<1>18. ASSUME NEW p \in Procs, smcOpen_givesUp(p) PROVE Held'
  BY <1>18, EndSessionHeld, MappedStays DEF smcOpen_givesUp
<1>19. ASSUME NEW p \in Procs, Die(p) PROVE Held'
  <2>1. /\ pc' = [pc EXCEPT ![p] = "dead"] /\ addr' = [addr EXCEPT ![p] = NoSeg]
        /\ mFd' = [mFd EXCEPT ![p] = NoSeg] /\ sess' = sess
        /\ map' = [x \in Procs \X Sessions |-> IF x[1] = p THEN NoSeg ELSE map[x]]
    BY <1>19 DEF Die, ForgetLocals, Goto
  <2>2. MappedExists'
    BY <2>1, MappedStays
  <2>3. \A q \in Procs \ {p} : pc[q] \notin {"closed", "dead"} =>
          Cur(q)' = Cur(q) /\ map'[Cur(q)] = map[Cur(q)]
    BY <1>0, <2>1, ActiveSession DEF TypeOK, Cur
  <2>4. AttachMaps'
    BY ZenonT(60), <1>0, <2>1, <2>3 DEF TypeOK, Cur
  <2>5. AddressMaps'
    BY ZenonT(30), <1>0, <2>1, <2>3 DEF TypeOK, Cur
  <2> QED BY <2>2, <2>4, <2>5
<1> QED
  BY <1>1, <1>2, <1>3, <1>4, <1>5, <1>6, <1>7, <1>8, <1>9, <1>10, <1>11, <1>12, <1>13,
     <1>14, <1>15, <1>16, <1>17, <1>18, <1>19 DEF Next

\* The address shmUtilAttach returned stays mapped, and its segment in
\* existence, until the client detaches or dies, whatever the other processes
\* remove, unlink or recreate meanwhile.
THEOREM HeldMemory == Spec => []HeldMemoryIsMapped
<1>1. Spec => []HeldInv
  BY InitHeldInv, NextHeldInv, PTL DEF Spec
<1>2. HeldInv => HeldMemoryIsMapped
  <2> SUFFICES ASSUME HeldInv, NEW p \in Procs, addr[p] # NoSeg
               PROVE  map[Cur(p)] = addr[p] /\ seg[addr[p]].state \in {"live", "dest"}
    BY DEF HeldMemoryIsMapped
  <2>1. map[Cur(p)] = addr[p] /\ addr[p] \in Segs /\ Cur(p) \in Procs \X Sessions
    BY ActiveSession DEF HeldInv, AddressMaps, TypeInv, TypeOK
  <2>2. seg[addr[p]] \in Segments /\ seg[addr[p]].state # "free"
    BY <2>1 DEF HeldInv, MappedExists, TypeInv, TypeOK
  <2> QED BY <2>1, <2>2 DEF Segments
<1> QED BY <1>1, <1>2, PTL

------------------------------------------------------------------------------
(* What a finished session can leave mapped                                *)
(*                                                                         *)
(* Every step has one acting process.  The invariant is therefore stated   *)
(* per process (LeakOf), and its proof first shows once that the steps of  *)
(* another process cannot disturb it, then looks at the actor's own step.  *)

\* A segment that shmUtilDetach's shmget cannot find.
Unfindable(s) == seg[s].state = "dest" \/ seg[s].size < DetachSize

\* Later sessions have mapped nothing yet and the dead map nothing; as long as
\* no fopen failed, the current session maps memory only between shmat and
\* shmdt, and holds its address once shmUtilAttach has returned.
CurrentMapping(p) ==
  \A n \in Sessions : map[<<p, n>>] # NoSeg =>
    /\ n <= sess[p]
    /\ pc[p] # "dead"
    /\ n = sess[p] /\ faults = 0 =>
         /\ pc[p] \in {"lockfile", "clear", "open", "stat", "shmdt"}
         /\ pc[p] \in {"open", "stat", "shmdt"} => addr[p] = map[<<p, n>>]

\* The segment of a running attach is the one shmget found or made for the key.
CallSegment(p) ==
  pc[p] \in {"shmat", "lockfile", "clear"} =>
    mFd[p] \in Segs /\ seg[mFd[p]].key = key[p]

\* So is the one the client holds.
HeldKey(p) == addr[p] # NoSeg => seg[addr[p]].key = key[p]

\* The segment shmUtilDetach asks IPC_STAT about is the one the client holds,
\* unless that one cannot be found.
StatSegment(p) ==
  pc[p] = "stat" /\ addr[p] # NoSeg => mFd[p] = addr[p] \/ Unfindable(addr[p])

\* What earlier sessions left mapped.
LeftMapped(p) ==
  faults = 0 => \A n \in Sessions :
    n < sess[p] /\ map[<<p, n>>] # NoSeg => Unfindable(map[<<p, n>>])

LeakOf(p) ==
  CurrentMapping(p) /\ CallSegment(p) /\ HeldKey(p) /\ StatSegment(p) /\ LeftMapped(p)

\* shmget knows at most one segment for a key.
OneLivePerKey == \A s, t \in Live : seg[s].key = seg[t].key => s = t

LeakInv == HeldInv /\ OneLivePerKey /\ \A p \in Procs : LeakOf(p)

------------------------------------------------------------------------------
(* One segment per key *)

\* A step keeps one segment per key: shmget makes a segment only when the key
\* finds none.
LEMMA NextOneLive == HeldInv /\ OneLivePerKey /\ [Next]_vars => OneLivePerKey'
<1> SUFFICES ASSUME HeldInv, OneLivePerKey, [Next]_vars PROVE OneLivePerKey'
  OBVIOUS
<1>1. TypeOK /\ \A s \in Segs : SegmentStep(s)
  BY EveryStep DEF HeldInv, TypeInv
<1>2. ASSUME \A s \in Segs : seg'[s].state = "live" => seg[s].state = "live"
      PROVE  OneLivePerKey'
  BY <1>1, <1>2 DEF OneLivePerKey, Live, SegmentStep
<1>3. ASSUME NEW p \in Procs, shmUtilAttach_shmget(p), seg' # seg PROVE OneLivePerKey'
  <2>1. PICK n \in Sizes \ {0}, c \in Creates : shmUtilAttach_shmget(p)!2!(n, c)
    BY <1>3 DEF shmUtilAttach_shmget
  <2>2. PICK t \in Segs :
          /\ WithKey(key[p]) = {}
          /\ seg' = [seg EXCEPT ![t] = [state |-> "live", key |-> key[p], size |-> n, cpid |-> p]]
    BY <1>3, <2>1 DEF CreatesNew
  <2>3. /\ seg'[t].key = key[p] /\ \A u \in Segs \ {t} : seg'[u] = seg[u]
        /\ \A u \in Live : seg[u].key # key[p]
    BY <1>1, <2>2 DEF TypeOK, WithKey
  <2> QED BY <2>3 DEF OneLivePerKey, Live
<1>4. ASSUME NEW m, seg' = Unmapped(seg, m) PROVE OneLivePerKey'
  <2>1. ASSUME NEW s \in Segs, seg'[s].state = "live" PROVE seg[s].state = "live"
    <3>1. seg[s] \in Segments /\ [seg[s] EXCEPT !.state = "free"].state = "free"
      BY <1>1, SegmentState DEF TypeOK
    <3> QED BY <1>4, <2>1, <3>1 DEF Unmapped
  <2> QED BY <1>2, <2>1
<1>5. ASSUME NEW p \in Procs, seg' = Removed(p) PROVE OneLivePerKey'
  BY <1>1, <1>2, <1>5 DEF Removed, shmctl_IPC_RMID, TypeOK
<1>6. CASE seg' = seg
  BY <1>2, <1>6
<1> QED
  BY <1>3, <1>4, <1>5, <1>6
  DEF Next, vars, shmUtilInit_fopen, shmUtilInit_fail, shmUtilInit_append, shmUtilInit_ftok,
      shmUtilAttach_badParameter, shmUtilAttach_shmat, shmUtilAttach_lockfile,
      shmUtilAttach_lockfileFails, shmUtilAttach_clear, shmUtilDetach_shmget,
      shmUtilDetach_stat, shmUtilDetach_shmdt, shmUtilDetach_rmid, shmUtilDetach_unlink,
      WriteMemory, smcOpen_givesUp, Die

------------------------------------------------------------------------------
(* The steps of the others *)

\* What a process's own state is, and that a step leaves it alone.
Keeps(q) ==
  /\ pc'[q] = pc[q] /\ sess'[q] = sess[q] /\ key'[q] = key[q]
  /\ mFd'[q] = mFd[q] /\ addr'[q] = addr[q]
  /\ \A n \in Sessions : map'[<<q, n>>] = map[<<q, n>>]

\* A segment that stays mapped stays unfindable.
LEMMA UnfindableStays ==
  ASSUME HeldInv, HeldInv', NEW s \in Segs, SegmentStep(s), Unfindable(s),
         NEW x \in Procs \X Sessions, map[x] = s, map'[x] = s
  PROVE  Unfindable(s)'
<1>1. s # NoSeg
  BY ShmAssumption
<1>2. seg[s].state # "free" /\ seg'[s].state # "free"
  BY <1>1 DEF HeldInv, MappedExists
<1>3. seg'[s].state \in {"free", "live", "dest"}
  BY DEF HeldInv, TypeInv, TypeOK, Segments
<1> QED BY <1>2, <1>3 DEF SegmentStep, Unfindable

\* A process that holds an address has its segment mapped and in existence.
LEMMA HeldExists ==
  ASSUME HeldInv, NEW p \in Procs, addr[p] # NoSeg
  PROVE  /\ Cur(p) \in Procs \X Sessions /\ map[Cur(p)] = addr[p]
         /\ addr[p] \in Segs /\ seg[addr[p]].state # "free"
<1>1. Cur(p) \in Procs \X Sessions /\ map[Cur(p)] = addr[p]
  BY ActiveSession DEF HeldInv, AddressMaps
<1>2. addr[p] \in Segs
  BY DEF HeldInv, TypeInv, TypeOK
<1> QED BY <1>1, <1>2 DEF HeldInv, MappedExists

\* A process whose own state a step leaves alone keeps its invariant.
LEMMA KeptLeak ==
  ASSUME HeldInv, HeldInv', \A s \in Segs : SegmentStep(s), faults' = 0 => faults = 0,
         NEW q \in Procs, Keeps(q), LeakOf(q)
  PROVE  LeakOf(q)'
<1>1. CurrentMapping(q)'
  BY DEF Keeps, LeakOf, CurrentMapping
<1>2. CallSegment(q)'
  BY DEF Keeps, LeakOf, CallSegment, SegmentStep
<1>3. HeldKey(q)'
  BY HeldExists DEF Keeps, LeakOf, HeldKey, SegmentStep
<1>4. StatSegment(q)'
  <2> SUFFICES ASSUME pc[q] = "stat", addr[q] # NoSeg, Unfindable(addr[q])
               PROVE  Unfindable(addr[q])'
    BY DEF Keeps, LeakOf, StatSegment, Unfindable
  <2>1. /\ Cur(q) \in Procs \X Sessions /\ map[Cur(q)] = addr[q] /\ addr[q] \in Segs
        /\ map'[Cur(q)] = addr[q] /\ addr'[q] = addr[q]
    BY HeldExists DEF Keeps, Cur
  <2> DEFINE s == addr[q]
  <2>2. (seg'[s].state = "dest" \/ seg'[s].size < DetachSize)
    <3> HIDE DEF s
    <3>1. s \in Segs /\ Unfindable(s) /\ map[Cur(q)] = s /\ map'[Cur(q)] = s
      BY <2>1 DEF s
    <3> QED BY <2>1, <3>1, UnfindableStays DEF Unfindable
  <2> QED BY <2>1, <2>2 DEF Unfindable
<1>5. LeftMapped(q)'
  <2> SUFFICES ASSUME faults = 0, NEW n \in Sessions, n < sess[q], map[<<q, n>>] # NoSeg
               PROVE  Unfindable(map[<<q, n>>])'
    BY DEF Keeps, LeakOf, LeftMapped, Unfindable
  <2>1. PICK s \in Segs : s = map[<<q, n>>]
    BY DEF HeldInv, TypeInv, TypeOK
  <2>2. Unfindable(s) /\ map'[<<q, n>>] = s
    BY <2>1 DEF Keeps, LeakOf, LeftMapped
  <2>3. Unfindable(s)'
    BY <2>1, <2>2, UnfindableStays
  <2> QED BY <2>1, <2>2, <2>3 DEF Unfindable
<1> QED BY <1>1, <1>2, <1>3, <1>4, <1>5 DEF LeakOf

------------------------------------------------------------------------------
(* The actor's own step *)

\* What the earlier sessions of p left mapped stays as it was; a session that
\* ends with this step must leave nothing mapped but what cannot be found.
LEMMA OwnLeft ==
  ASSUME HeldInv, HeldInv', \A s \in Segs : SegmentStep(s), faults' = 0 => faults = 0,
         NEW p \in Procs, LeakOf(p),
         \A n \in Sessions : faults = 0 /\ n < sess'[p] /\ map'[<<p, n>>] # NoSeg =>
           /\ map'[<<p, n>>] = map[<<p, n>>]
           /\ n < sess[p] \/ Unfindable(map[<<p, n>>])
  PROVE  LeftMapped(p)'
<1> SUFFICES ASSUME faults = 0, NEW n \in Sessions, n < sess'[p], map'[<<p, n>>] # NoSeg
             PROVE  Unfindable(map[<<p, n>>])'
  BY DEF LeftMapped, Unfindable
<1>1. PICK s \in Segs : s = map[<<p, n>>]
  BY DEF HeldInv, TypeInv, TypeOK
<1>2. Unfindable(s) /\ map'[<<p, n>>] = s
  BY <1>1 DEF LeakOf, LeftMapped
<1>3. Unfindable(s)'
  BY <1>1, <1>2, UnfindableStays
<1> QED BY <1>1, <1>2, <1>3 DEF Unfindable

\* A step outside the time the memory is mapped, that maps nothing.
LEMMA QuietStep ==
  ASSUME HeldInv, HeldInv', \A s \in Segs : SegmentStep(s), faults' = 0 => faults = 0,
         NEW p \in Procs, LeakOf(p),
         map' = map, sess' = sess, addr' = addr,
         pc[p] \notin {"dead", "lockfile", "clear", "open", "stat", "shmdt"},
         pc'[p] # "dead", CallSegment(p)'
  PROVE  LeakOf(p)'
<1>1. addr[p] = NoSeg
  BY DEF HeldInv, AddressMaps
<1>2. CurrentMapping(p)'
  BY DEF LeakOf, CurrentMapping
<1>3. LeftMapped(p)'
  BY OwnLeft
<1> QED BY <1>1, <1>2, <1>3 DEF LeakOf, HeldKey, StatSegment

\* The end of a session.
LEMMA EndStep ==
  ASSUME HeldInv, HeldInv', \A s \in Segs : SegmentStep(s), faults' = faults,
         NEW p \in Procs, LeakOf(p), EndSession(p), map' = map, pc[p] # "dead",
         faults = 0 /\ addr[p] # NoSeg =>
           pc[p] \in {"open", "stat"} /\ Unfindable(addr[p]),
         pc[p] \notin {"lockfile", "clear", "shmdt"}
  PROVE  LeakOf(p)' /\ \A q \in Procs \ {p} : Keeps(q)
<1>1. /\ pc'[p] = "closed" /\ sess'[p] = sess[p] + 1 /\ addr'[p] = NoSeg
      /\ sess[p] \in Nat /\ Sessions \subseteq Nat
      /\ \A q \in Procs \ {p} : Keeps(q)
  BY DEF HeldInv, TypeInv, TypeOK, EndSession, ForgetLocals, Goto, Keeps, Sessions
<1>2. ASSUME NEW n \in Sessions, map[<<p, n>>] # NoSeg
      PROVE  /\ n < sess'[p] /\ n # sess'[p] /\ n <= sess'[p]
             /\ faults = 0 => n < sess[p] \/ Unfindable(map[<<p, n>>])
  <2>1. n <= sess[p] /\ n \in Nat /\ (n = sess[p] /\ faults = 0 => addr[p] = map[<<p, n>>])
    BY <1>1, <1>2 DEF LeakOf, CurrentMapping
  <2>2. n < sess[p] \/ n = sess[p]
    BY <1>1, <2>1
  <2> QED BY <1>1, <1>2, <2>1, <2>2
<1>3. CurrentMapping(p)'
  BY <1>1, <1>2 DEF CurrentMapping
<1>4. LeftMapped(p)'
  BY <1>2, OwnLeft
<1> QED BY <1>1, <1>3, <1>4 DEF LeakOf, CallSegment, HeldKey, StatSegment

------------------------------------------------------------------------------
(* The invariant *)

\* A step of p: nobody else's state changes, faults are only counted up, and
\* p's own invariant holds afterwards.
ActorStep(p) ==
  /\ \A q \in Procs \ {p} : Keeps(q)
  /\ faults' = 0 => faults = 0
  /\ LeakOf(p)'

\* The invariant holds before the first call.
LEMMA InitLeakInv == Init => LeakInv
  BY InitHeldInv, ShmAssumption
  DEF Init, LeakInv, OneLivePerKey, Live, LeakOf, CurrentMapping, CallSegment, HeldKey,
      StatSegment, LeftMapped

\* Every step is an actor's step (or changes nothing).
LEMMA NextActor ==
  ASSUME LeakInv, HeldInv', [Next]_vars, ~UNCHANGED vars
  PROVE  \E p \in Procs : ActorStep(p)
<1>0. /\ TypeOK /\ HeldInv /\ \A p \in Procs : LeakOf(p)
      /\ \A s \in Segs : SegmentStep(s)
  BY EveryStep DEF LeakInv, HeldInv, TypeInv
<1>a. faults \in Nat
  BY <1>0, ShmAssumption DEF TypeOK
<1> USE DEF ActorStep
<1>1. ASSUME NEW p \in Procs, shmUtilInit_fopen(p) PROVE ActorStep(p)
  BY <1>0, <1>1, QuietStep
  DEF shmUtilInit_fopen, Goto, Keeps, CallSegment, TypeOK, budgets
<1>2. ASSUME NEW p \in Procs, shmUtilInit_fail(p) PROVE ActorStep(p)
  BY <1>0, <1>a, <1>2, QuietStep
  DEF shmUtilInit_fail, fopenFails, Goto, Keeps, CallSegment, TypeOK, budgets
<1>3. ASSUME NEW p \in Procs, shmUtilInit_append(p) PROVE ActorStep(p)
  BY <1>0, <1>3, QuietStep
  DEF shmUtilInit_append, Goto, Keeps, CallSegment, TypeOK, budgets
<1>4. ASSUME NEW p \in Procs, shmUtilInit_ftok(p) PROVE ActorStep(p)
  BY <1>0, <1>4, QuietStep
  DEF shmUtilInit_ftok, Goto, Keeps, CallSegment, TypeOK, budgets
<1>5. ASSUME NEW p \in Procs, shmUtilAttach_badParameter(p) PROVE ActorStep(p)
  BY <1>0, <1>5, QuietStep
  DEF shmUtilAttach_badParameter, AttachReturnsNull, Goto, Keeps, CallSegment, TypeOK, budgets
<1>6. ASSUME NEW p \in Procs, shmUtilAttach_shmget(p) PROVE ActorStep(p)
  <2>1. PICK n \in Sizes \ {0}, c \in Creates : shmUtilAttach_shmget(p)!2!(n, c)
    BY <1>6 DEF shmUtilAttach_shmget
  <2>2. /\ pc[p] = "inited" /\ pc'[p] \in {"shmat", "null"} /\ faults' = faults
        /\ map' = map /\ sess' = sess /\ addr' = addr /\ key' = key
        /\ \A q \in Procs \ {p} : Keeps(q)
    BY <1>0, <1>6, <2>1 DEF shmUtilAttach_shmget, Goto, Keeps, TypeOK, budgets
  <2>3. ASSUME pc'[p] = "shmat" PROVE mFd'[p] \in Segs /\ seg'[mFd'[p]].key = key'[p]
    <3>1. CASE \E s \in Segs : shmget(key[p], n, s) /\ mFd' = [mFd EXCEPT ![p] = s] /\ seg' = seg
      BY <1>0, <2>2, <3>1, ShmAssumption DEF shmget, WithKey, TypeOK
    <3>2. CASE \E s \in Segs :
            /\ mFd' = [mFd EXCEPT ![p] = s]
            /\ seg' = [seg EXCEPT ![s] = [state |-> "live", key |-> key[p], size |-> n, cpid |-> p]]
      BY <1>0, <2>2, <3>2 DEF TypeOK
    <3> QED BY <1>0, <2>1, <2>3, <3>1, <3>2 DEF Goto, TypeOK
  <2> QED BY <1>0, <2>2, <2>3, QuietStep DEF CallSegment
<1>7. ASSUME NEW p \in Procs, shmUtilAttach_shmat(p) PROVE ActorStep(p)
  <2>1. CASE shmatFails(p)
    BY <1>0, <1>7, <2>1, QuietStep
    DEF shmUtilAttach_shmat, AttachReturnsNull, Goto, Keeps, CallSegment, TypeOK, budgets
  <2>2. CASE ~shmatFails(p)
    <3>1. /\ pc[p] = "shmat" /\ pc' = [pc EXCEPT ![p] = "lockfile"]
          /\ map' = [map EXCEPT ![Cur(p)] = mFd[p]]
          /\ UNCHANGED <<seg, sess, key, mFd, addr, faults>>
      BY <1>7, <2>2 DEF shmUtilAttach_shmat, Goto, clientVars, locals, budgets
    <3>2. Cur(p) \in Procs \X Sessions /\ addr[p] = NoSeg
      BY <1>0, <3>1, ActiveSession DEF HeldInv, AddressMaps
    <3>3. \A q \in Procs, n \in Sessions : <<q, n>> # Cur(p) => map'[<<q, n>>] = map[<<q, n>>]
      BY <1>0, <3>1, <3>2 DEF TypeOK
    <3>4. \A q \in Procs \ {p} : Keeps(q)
      BY <1>0, <3>1, <3>3 DEF Keeps, Cur, TypeOK
    <3>5. CurrentMapping(p)'
      <4> SUFFICES ASSUME NEW n \in Sessions, map'[<<p, n>>] # NoSeg PROVE n <= sess[p]
        BY <1>0, <3>1 DEF CurrentMapping, TypeOK
      <4>1. sess[p] \in Nat
        BY <1>0, ShmAssumption DEF TypeOK
      <4>2. CASE n = sess[p]
        BY <4>1, <4>2
      <4>3. CASE n # sess[p]
        BY <1>0, <3>3, <4>3 DEF Cur, LeakOf, CurrentMapping
      <4> QED BY <4>2, <4>3
    <3>6. CallSegment(p)'
      BY <1>0, <3>1 DEF LeakOf, CallSegment
    <3>7. LeftMapped(p)'
      <4>1. sess[p] \in Nat
        BY <1>0, ShmAssumption DEF TypeOK
      <4>2. \A n \in Sessions : n < sess[p] => <<p, n>> # Cur(p)
        BY <4>1 DEF Cur, Sessions
      <4> QED BY <1>0, <3>1, <3>3, <4>2, OwnLeft
    <3>8. HeldKey(p)' /\ StatSegment(p)'
      BY <3>1, <3>2 DEF HeldKey, StatSegment
    <3> QED BY <3>1, <3>4, <3>5, <3>6, <3>7, <3>8 DEF LeakOf
  <2> QED BY <2>1, <2>2
<1>8. ASSUME NEW p \in Procs, shmUtilAttach_lockfile(p) PROVE ActorStep(p)
  <2>1. /\ pc[p] = "lockfile" /\ pc' = [pc EXCEPT ![p] = "clear"]
        /\ UNCHANGED <<seg, map, sess, key, mFd, addr, faults>>
    BY <1>8 DEF shmUtilAttach_lockfile, Goto, clientVars, locals, budgets
  <2>2. addr[p] = NoSeg /\ \A q \in Procs \ {p} : Keeps(q)
    BY <1>0, <2>1 DEF HeldInv, AddressMaps, Keeps, TypeOK
  <2>3. CurrentMapping(p)' /\ CallSegment(p)'
    BY <1>0, <2>1 DEF LeakOf, CurrentMapping, CallSegment, TypeOK
  <2>4. LeftMapped(p)'
    BY <1>0, <2>1, OwnLeft
  <2> QED BY <2>1, <2>2, <2>3, <2>4 DEF LeakOf, HeldKey, StatSegment
<1>9. ASSUME NEW p \in Procs, shmUtilAttach_lockfileFails(p) PROVE ActorStep(p)
  <2>1. /\ pc[p] = "lockfile" /\ pc' = [pc EXCEPT ![p] = "null"] /\ faults' = faults + 1
        /\ mFd' = [mFd EXCEPT ![p] = NoSeg] /\ UNCHANGED <<seg, map, sess, key, addr>>
    BY <1>9 DEF shmUtilAttach_lockfileFails, AttachReturnsNull, fopenFails, Goto
  <2>2. addr[p] = NoSeg /\ faults' # 0 /\ \A q \in Procs \ {p} : Keeps(q)
    BY <1>0, <1>a, <2>1 DEF HeldInv, AddressMaps, Keeps, TypeOK
  <2> QED
    BY <1>0, <2>1, <2>2
    DEF LeakOf, CurrentMapping, CallSegment, HeldKey, StatSegment, LeftMapped, TypeOK
<1>10. ASSUME NEW p \in Procs, shmUtilAttach_clear(p) PROVE ActorStep(p)
  <2>1. /\ pc[p] = "clear" /\ pc' = [pc EXCEPT ![p] = "open"]
        /\ addr' = [addr EXCEPT ![p] = mFd[p]] /\ mFd' = [mFd EXCEPT ![p] = NoSeg]
        /\ UNCHANGED <<seg, map, sess, key, faults>>
    BY <1>10 DEF shmUtilAttach_clear, Goto, budgets
  <2>2. \A q \in Procs \ {p} : Keeps(q)
    BY <1>0, <2>1 DEF Keeps, TypeOK
  <2>3. map[Cur(p)] = mFd[p] /\ addr'[p] = mFd[p] /\ pc'[p] = "open"
    BY <1>0, <2>1 DEF HeldInv, AttachMaps, TypeOK
  <2>4. CurrentMapping(p)'
    BY <1>0, <2>1, <2>3 DEF LeakOf, CurrentMapping, Cur
  <2>5. HeldKey(p)'
    BY <1>0, <2>1, <2>3 DEF LeakOf, CallSegment, HeldKey
  <2>6. LeftMapped(p)'
    BY <1>0, <2>1, OwnLeft
  <2> QED BY <2>1, <2>2, <2>3, <2>4, <2>5, <2>6 DEF LeakOf, CallSegment, StatSegment
<1>11. ASSUME NEW p \in Procs, shmUtilDetach_shmget(p) PROVE ActorStep(p)
  <2>0. /\ pc[p] \in {"open", "null"} /\ UNCHANGED <<seg, map, faults>>
    BY <1>11 DEF shmUtilDetach_shmget, budgets
  <2>1. CASE \E s \in Segs :
          /\ shmget(key[p], DetachSize, s)
          /\ pc' = [pc EXCEPT ![p] = "stat"] /\ mFd' = [mFd EXCEPT ![p] = s]
          /\ UNCHANGED <<sess, key, addr>>
    <3>1. PICK s \in Segs :
            /\ s \in WithKey(key[p])
            /\ pc' = [pc EXCEPT ![p] = "stat"] /\ mFd' = [mFd EXCEPT ![p] = s]
            /\ UNCHANGED <<sess, key, addr>>
      BY <2>1, ShmAssumption DEF shmget
    <3>2. /\ pc'[p] = "stat" /\ mFd'[p] = s /\ seg[s].key = key[p] /\ s \in Live
          /\ \A q \in Procs \ {p} : Keeps(q)
      BY <1>0, <2>0, <3>1 DEF TypeOK, WithKey, Keeps
    <3>3. CurrentMapping(p)'
      BY <1>0, <2>0, <3>1, <3>2 DEF LeakOf, CurrentMapping
    <3>4. StatSegment(p)'
      <4> SUFFICES ASSUME addr[p] # NoSeg PROVE s = addr[p] \/ Unfindable(addr[p])
        BY <2>0, <3>1, <3>2 DEF StatSegment, Unfindable
      <4>1. addr[p] \in Segs /\ seg[addr[p]].state \in {"live", "dest"} /\ seg[addr[p]].key = key[p]
        BY <1>0, HeldExists DEF LeakOf, HeldKey, TypeOK, Segments
      <4> QED BY <3>2, <4>1 DEF LeakInv, OneLivePerKey, Live, Unfindable
    <3>5. LeftMapped(p)'
      BY <1>0, <2>0, <3>1, OwnLeft
    <3> QED BY <1>0, <2>0, <3>1, <3>2, <3>3, <3>4, <3>5 DEF LeakOf, CallSegment, HeldKey
  <2>2. CASE shmget(key[p], DetachSize, NoSeg) /\ EndSession(p)
    <3>1. ASSUME addr[p] # NoSeg PROVE pc[p] \in {"open", "stat"} /\ Unfindable(addr[p])
      <4>1. /\ addr[p] \in Segs /\ seg[addr[p]] \in Segments /\ seg[addr[p]].state # "free"
            /\ seg[addr[p]].key = key[p] /\ pc[p] = "open"
        BY <1>0, <2>0, <3>1, HeldExists DEF LeakOf, HeldKey, TypeOK, HeldInv, AddressMaps
      <4>2. \A t \in WithKey(key[p]) : seg[t].size < DetachSize
        BY <1>0, <2>2, ShmAssumption DEF shmget, WithKey, Live, TypeOK, Segments, DetachSize
      <4> QED BY <4>1, <4>2 DEF Unfindable, WithKey, Live, Segments
    <3> QED BY <1>0, <2>0, <2>2, <3>1, EndStep
  <2> QED BY <1>11, <2>1, <2>2 DEF shmUtilDetach_shmget, Goto
<1>12. ASSUME NEW p \in Procs, shmUtilDetach_stat(p) PROVE ActorStep(p)
  <2>0. /\ pc[p] = "stat" /\ UNCHANGED <<seg, map, faults>>
    BY <1>12 DEF shmUtilDetach_stat, budgets
  <2>1. CASE seg[mFd[p]].state = "free"
    <3>1. addr[p] # NoSeg => Unfindable(addr[p])
      BY <1>0, <2>0, <2>1, HeldExists DEF LeakOf, StatSegment
    <3> QED BY <1>0, <1>12, <2>0, <2>1, <3>1, EndStep DEF shmUtilDetach_stat
  <2>2. CASE seg[mFd[p]].state # "free"
    <3>1. pc' = [pc EXCEPT ![p] = "shmdt"] /\ UNCHANGED <<sess, key, mFd, addr>>
      BY <1>12, <2>2 DEF shmUtilDetach_stat, Goto
    <3>2. pc'[p] = "shmdt" /\ \A q \in Procs \ {p} : Keeps(q)
      BY <1>0, <2>0, <3>1 DEF Keeps, TypeOK
    <3>3. CurrentMapping(p)'
      BY <1>0, <2>0, <3>1, <3>2 DEF LeakOf, CurrentMapping
    <3>4. LeftMapped(p)'
      BY <1>0, <2>0, <3>1, OwnLeft
    <3> QED BY <1>0, <2>0, <3>1, <3>2, <3>3, <3>4 DEF LeakOf, CallSegment, HeldKey, StatSegment
  <2> QED BY <2>1, <2>2
<1>13. ASSUME NEW p \in Procs, shmUtilDetach_shmdt(p) PROVE ActorStep(p)
  <2>1. /\ pc[p] = "shmdt" /\ pc' = [pc EXCEPT ![p] = "rmid"]
        /\ addr' = [addr EXCEPT ![p] = NoSeg] /\ UNCHANGED <<sess, key, mFd, faults>>
        /\ map' = IF addr[p] # NoSeg THEN [map EXCEPT ![Cur(p)] = NoSeg] ELSE map
    BY <1>13 DEF shmUtilDetach_shmdt, Detaches, Goto, budgets
  <2>2. Cur(p) \in Procs \X Sessions /\ addr'[p] = NoSeg /\ pc'[p] = "rmid"
    BY <1>0, <2>1, ActiveSession DEF HeldInv, TypeOK
  <2>3. \A q \in Procs, n \in Sessions :
          map'[<<q, n>>] = map[<<q, n>>] \/ (<<q, n>> = Cur(p) /\ map'[<<q, n>>] = NoSeg)
    BY <1>0, <2>1, <2>2 DEF TypeOK
  <2>4. \A q \in Procs \ {p} : Keeps(q)
    BY <1>0, <2>1, <2>3 DEF Keeps, Cur, TypeOK
  <2>5. faults = 0 => map'[Cur(p)] = NoSeg
    BY <1>0, <2>1, <2>2 DEF LeakOf, CurrentMapping, Cur, TypeOK
  <2>6. CurrentMapping(p)'
    BY <1>0, <2>1, <2>2, <2>3, <2>5 DEF LeakOf, CurrentMapping, Cur
  <2>7. LeftMapped(p)'
    BY <1>0, <2>1, <2>3, OwnLeft
  <2> QED BY <2>1, <2>2, <2>4, <2>6, <2>7 DEF LeakOf, CallSegment, HeldKey, StatSegment
<1>14. ASSUME NEW p \in Procs, shmUtilDetach_rmid(p) PROVE ActorStep(p)
  <2>0. /\ pc[p] = "rmid" /\ addr[p] = NoSeg /\ UNCHANGED <<map, faults>>
    BY <1>0, <1>14 DEF shmUtilDetach_rmid, budgets, HeldInv, AddressMaps
  <2>1. CASE LastUser(p)
    BY <1>0, <1>14, <2>0, <2>1, QuietStep
    DEF shmUtilDetach_rmid, Goto, locals, Keeps, CallSegment, TypeOK
  <2>2. CASE ~LastUser(p)
    BY <1>0, <1>14, <2>0, <2>2, EndStep DEF shmUtilDetach_rmid
  <2> QED BY <2>1, <2>2
<1>15. ASSUME NEW p \in Procs, shmUtilDetach_unlink(p) PROVE ActorStep(p)
  BY <1>0, <1>15, EndStep DEF shmUtilDetach_unlink, budgets, HeldInv, AddressMaps
<1>16. ASSUME NEW p \in Procs, WriteMemory(p) PROVE ActorStep(p)
  BY <1>0, <1>16, KeptLeak DEF WriteMemory, clientVars, locals, budgets, Keeps
<1>17. ASSUME NEW p \in Procs, smcOpen_givesUp(p) PROVE ActorStep(p)
  BY <1>0, <1>17, EndStep DEF smcOpen_givesUp, budgets, HeldInv, AddressMaps
<1>18. ASSUME NEW p \in Procs, Die(p) PROVE ActorStep(p)
  <2>1. /\ pc' = [pc EXCEPT ![p] = "dead"] /\ addr' = [addr EXCEPT ![p] = NoSeg]
        /\ mFd' = [mFd EXCEPT ![p] = NoSeg] /\ key' = [key EXCEPT ![p] = ERR]
        /\ map' = [x \in Procs \X Sessions |-> IF x[1] = p THEN NoSeg ELSE map[x]]
        /\ UNCHANGED <<sess, faults>>
    BY <1>18 DEF Die, ForgetLocals, Goto
  <2>2. /\ \A n \in Sessions : map'[<<p, n>>] = NoSeg
        /\ pc'[p] = "dead" /\ addr'[p] = NoSeg /\ \A q \in Procs \ {p} : Keeps(q)
    BY <1>0, <2>1 DEF Keeps, TypeOK
  <2> QED
    BY <2>1, <2>2
    DEF LeakOf, CurrentMapping, CallSegment, HeldKey, StatSegment, LeftMapped
<1> QED
  BY <1>1, <1>2, <1>3, <1>4, <1>5, <1>6, <1>7, <1>8, <1>9, <1>10, <1>11, <1>12, <1>13,
     <1>14, <1>15, <1>16, <1>17, <1>18 DEF Next

\* Every step keeps the invariant: the actor's part by NextActor, the others'
\* by KeptLeak.
LEMMA NextLeakInv == LeakInv /\ [Next]_vars => LeakInv'
<1> SUFFICES ASSUME LeakInv, [Next]_vars PROVE LeakInv'
  OBVIOUS
<1>1. HeldInv' /\ OneLivePerKey' /\ HeldInv /\ \A s \in Segs : SegmentStep(s)
  BY NextHeldInv, NextOneLive, EveryStep DEF LeakInv, HeldInv, TypeInv
<1>2. CASE UNCHANGED vars
  BY <1>1, <1>2, KeptLeak DEF LeakInv, vars, clientVars, locals, budgets, Keeps
<1>3. CASE ~UNCHANGED vars
  <2>1. PICK p \in Procs : ActorStep(p)
    BY <1>1, <1>3, NextActor
  <2>2. \A q \in Procs \ {p} : LeakOf(q)'
    BY <1>1, <2>1, KeptLeak DEF LeakInv, ActorStep
  <2> QED BY <1>1, <2>1, <2>2 DEF LeakInv, ActorStep
<1> QED BY <1>2, <1>3

\* A finished session leaves a segment mapped only if shmUtilDetach could not
\* find it any more (another process removed it, or it is smaller than the 10
\* bytes shmUtilDetach asks for), unless opening the lock file failed: no
\* interleaving of the calls loses track of memory that could still be found.
THEOREM LeaksAreUnfindable == Spec => []LeaksOnlyUnfindable
<1>1. Spec => []LeakInv
  BY InitLeakInv, NextLeakInv, PTL DEF Spec
<1>2. LeakInv => LeaksOnlyUnfindable
  BY DEF LeakInv, LeakOf, LeftMapped, LeaksOnlyUnfindable, Unfindable
<1> QED BY <1>1, <1>2, PTL

\* At any time the kernel knows at most one segment for a key, so that the
\* segment shmUtilDetach looks up is the one shmUtilAttach found or made.
THEOREM OneSegmentPerKey == Spec => []OneLivePerKey
<1>1. Spec => []LeakInv
  BY InitLeakInv, NextLeakInv, PTL DEF Spec
<1>2. LeakInv => OneLivePerKey
  BY DEF LeakInv
<1> QED BY <1>1, <1>2, PTL

------------------------------------------------------------------------------
(* Clients that serialise opening and closing                              *)
(*                                                                         *)
(* The code leaves it to its clients that a process opens the cache while  *)
(* another one closes it.  What its comments promise holds of clients that *)
(* take turns (Exclusive), create the segment when there is none and ask   *)
(* for the same size, and whose fopen calls work; they may die anywhere.   *)

SameClients(n) ==
  /\ Exclusive /\ MaxFaults = 0
  /\ Creates = {TRUE} /\ Sizes = {n} /\ n >= DetachSize
  /\ Segs # {}

\* At most one process is inside a call.
Serial == \A p, q \in Procs : pc[p] \notin Outside /\ pc[q] \notin Outside => p = q

\* No segment waits for its last user to go, and the lock file leads to each.
SegsFit(n) ==
  \A s \in Segs : /\ seg[s].state # "dest"
                  /\ seg[s].state = "live" => seg[s].size = n /\ seg[s].key = lock.ino

UnwrittenMeansUnused == ~lock.written => Live = {}

\* How far a process has come, and what it may rely on there.
StageOf(p) ==
  /\ pc[p] # "null"
  /\ pc[p] \in Outside \cup {"append", "ftok", "inited"} => mFd[p] = NoSeg
  /\ pc[p] = "open" => addr[p] # NoSeg
  /\ pc[p] \in {"append", "ftok", "inited"} =>
       lock.ino # NoFile /\ (new[p] => Live = {})
  /\ pc[p] = "append" => fd[p] = lock.ino
  /\ pc[p] \in {"ftok", "inited"} => lock.written
  /\ pc[p] = "inited" => key[p] = lock.ino
  /\ pc[p] \in {"shmat", "lockfile", "clear", "stat", "shmdt", "rmid"} => mFd[p] \in Live
  /\ pc[p] \in {"stat", "shmdt"} => addr[p] = mFd[p]
  /\ pc[p] = "shmdt" =>
       /\ shm_nattch(mFd[p]) <= nattch[p]
       /\ crashes = 0 => shm_nattch(mFd[p]) = nattch[p]
  /\ pc[p] = "rmid" =>
       /\ shm_nattch(mFd[p]) <= nattch[p] - 1
       /\ crashes = 0 => shm_nattch(mFd[p]) = nattch[p] - 1
  /\ pc[p] = "unlink" => Live = {}
Stages == \A p \in Procs : StageOf(p)

\* While nobody has died, a segment has a user, or a call that sees to it; and
\* so has the lock file.
NothingForgotten ==
  crashes = 0 =>
    /\ \A s \in Live : Mappings(map, s) # {}
                       \/ \E p \in Procs : mFd[p] = s /\ pc[p] \in {"shmat", "rmid"}
    /\ lock.ino # NoFile =>
         Live # {} \/ \E p \in Procs : pc[p] \in {"append", "ftok", "inited", "unlink"}

SerialInv(n) ==
  /\ LeakInv /\ Serial /\ SegsFit(n) /\ UnwrittenMeansUnused /\ Stages /\ NothingForgotten

\* What SerialInv says of the state at once.
LEMMA SerialFacts ==
  ASSUME NEW n, SameClients(n), SerialInv(n)
  PROVE  /\ TypeOK /\ faults = 0 /\ n \in Nat /\ n # 0 /\ DetachSize \in Nat
         /\ Live \subseteq Segs
         /\ \A s \in Segs : s \in Live <=> seg[s].state = "live"
         /\ \A s \in Segs : s \in Live \/ seg[s].state = "free"
         /\ \A s \in Live : lock.ino = seg[s].key /\ seg[s].size = n
         /\ Live # {} => lock.ino \in Inodes
         /\ \A s, t \in Live : s = t
         /\ lock.ino # NoFile => WithKey(lock.ino) = Live
<1>1. TypeOK /\ MaxFaults = 0 /\ Sizes = {n} /\ n >= DetachSize
  BY DEF SerialInv, LeakInv, HeldInv, TypeInv, SameClients
<1>2. faults = 0 /\ n \in Nat /\ n # 0 /\ DetachSize \in Nat
  BY <1>1, ShmAssumption DEF TypeOK, DetachSize
<1>3. /\ Live \subseteq Segs
      /\ \A s \in Segs : s \in Live <=> seg[s].state = "live"
  BY DEF Live
<1>4. \A s \in Segs : seg[s].state \in {"free", "live", "dest"}
  BY <1>1 DEF TypeOK, Segments
<1>5. \A s \in Segs : s \in Live \/ seg[s].state = "free"
  BY <1>3, <1>4 DEF SerialInv, SegsFit
<1>6. \A s \in Live : lock.ino = seg[s].key /\ seg[s].size = n
  BY <1>3 DEF SerialInv, SegsFit
<1>7. \A s \in Live : seg[s].key \in Keys
  BY <1>1, <1>3 DEF TypeOK, Segments
<1>8. Live # {} => lock.ino \in Inodes
  BY <1>1, <1>6, <1>7, ShmAssumption DEF TypeOK, Keys
<1>9. \A s, t \in Live : s = t
  BY <1>6 DEF SerialInv, LeakInv, OneLivePerKey
<1>10. lock.ino # NoFile => WithKey(lock.ino) = Live
  BY <1>6 DEF WithKey
<1> QED BY <1>1, <1>2, <1>3, <1>5, <1>6, <1>8, <1>9, <1>10

\* The number of mappings is 0 only when there is none.
LEMMA NoneMapped == ASSUME NEW s PROVE shm_nattch(s) = 0 <=> Mappings(map, s) = {}
<1>1. IsFiniteSet(Procs) /\ IsFiniteSet(Sessions)
  BY ShmAssumption, FS_Interval DEF Sessions
<1>2. IsFiniteSet(Procs \X Sessions)
  BY <1>1, FS_Product
<1>3. IsFiniteSet(Mappings(map, s))
  BY <1>2, FS_Subset DEF Mappings
<1> QED BY <1>3, FS_EmptySet DEF shm_nattch

\* Dropping a mapping of s makes one less; dropping mappings never makes more.
LEMMA FewerMapped ==
  ASSUME NEW s, NEW m, Mappings(m, s) \subseteq Mappings(map, s)
  PROVE  /\ Cardinality(Mappings(m, s)) \in Nat
         /\ Cardinality(Mappings(m, s)) <= shm_nattch(s)
         /\ \A x \in Mappings(map, s) : Mappings(m, s) = Mappings(map, s) \ {x}
              => Cardinality(Mappings(m, s)) = shm_nattch(s) - 1
<1>1. IsFiniteSet(Procs) /\ IsFiniteSet(Sessions)
  BY ShmAssumption, FS_Interval DEF Sessions
<1>2. IsFiniteSet(Procs \X Sessions)
  BY <1>1, FS_Product
<1>3. IsFiniteSet(Mappings(map, s))
  BY <1>2, FS_Subset DEF Mappings
<1>4. IsFiniteSet(Mappings(m, s)) /\ Cardinality(Mappings(m, s)) <= shm_nattch(s)
  BY <1>3, FS_Subset DEF shm_nattch
<1>5. Cardinality(Mappings(m, s)) \in Nat
  BY <1>4, FS_CardinalityType
<1>6. ASSUME NEW x \in Mappings(map, s), Mappings(m, s) = Mappings(map, s) \ {x}
      PROVE  Cardinality(Mappings(m, s)) = shm_nattch(s) - 1
  BY <1>3, <1>6, FS_RemoveElement DEF shm_nattch
<1> QED BY <1>4, <1>5, <1>6

\* Without segments marked for destruction, losing a mapping destroys nothing.
LEMMA UnmappedSame ==
  ASSUME NEW n, SameClients(n), SerialInv(n), NEW m
  PROVE  Unmapped(seg, m) = seg
<1>1. seg \in [Segs -> Segments] /\ \A s \in Segs : seg[s].state # "dest"
  BY SerialFacts DEF TypeOK, SerialInv, SegsFit
<1>2. Unmapped(seg, m) = [s \in Segs |-> seg[s]]
  BY <1>1 DEF Unmapped
<1> QED BY <1>1, <1>2

\* A step that only its process can see.
OnlyActor(p) == \A q \in Procs \ {p} : /\ pc'[q] = pc[q] /\ mFd'[q] = mFd[q] /\ addr'[q] = addr[q]
                                       /\ fd'[q] = fd[q] /\ key'[q] = key[q] /\ new'[q] = new[q]
                                       /\ nattch'[q] = nattch[q]

\* A step of a call leaves the others, who are outside, where they were.
LEMMA OthersOutside ==
  ASSUME NEW n, SerialInv(n), NEW p \in Procs, OnlyActor(p),
         pc[p] \notin Outside \/ \A q \in Procs \ {p} : pc[q] \in Outside
  PROVE  /\ \A q \in Procs \ {p} : pc[q] \in Outside
         /\ \A q \in Procs \ {p} : StageOf(q)'
         /\ Serial'
<1>1. \A q \in Procs \ {p} : pc[q] \in Outside
  BY DEF SerialInv, Serial
<1>2. ASSUME NEW q \in Procs \ {p} PROVE StageOf(q)'
  <2>1. StageOf(q) /\ pc[q] \in Outside /\ pc'[q] = pc[q] /\ mFd'[q] = mFd[q] /\ addr'[q] = addr[q]
    BY <1>1 DEF SerialInv, Stages, OnlyActor
  <2> QED BY <2>1 DEF StageOf, Outside
<1>3. Serial'
  BY <1>1 DEF Serial, OnlyActor, Outside
<1> QED BY <1>1, <1>2, <1>3

------------------------------------------------------------------------------
(* Their steps *)

LEMMA FopenSerial ==
  ASSUME NEW n, SameClients(n), SerialInv(n), LeakInv', NEW p \in Procs, shmUtilInit_fopen(p)
  PROVE  SerialInv(n)'
<1> USE DEF SerialInv
<1>1. PICK f \in [ino : Inodes, written : BOOLEAN] :
        fopen_a(f) /\ lock' = f /\ fd' = [fd EXCEPT ![p] = f.ino] /\ new' = [new EXCEPT ![p] = IsNew(f)]
  BY DEF shmUtilInit_fopen
<1>2. /\ pc[p] = "closed" /\ pc' = [pc EXCEPT ![p] = "append"]
      /\ UNCHANGED <<seg, mem, map, sess, key, create, mFd, addr, nattch, crashes, faults>>
      /\ \A q \in Procs \ {p} : pc[q] \in Outside
  BY DEF shmUtilInit_fopen, Goto, budgets, MayStart, SameClients
<1>3. /\ pc'[p] = "append" /\ fd'[p] = f.ino /\ new'[p] = ~f.written /\ OnlyActor(p)
  BY <1>1, <1>2, SerialFacts DEF TypeOK, OnlyActor, IsNew
<1>4. Serial' /\ \A q \in Procs \ {p} : StageOf(q)'
  BY <1>2, <1>3, OthersOutside
<1>5. Live' = Live
  BY <1>2 DEF Live
<1>6. lock' = lock \/ (Live = {} /\ lock.ino = NoFile)
  BY <1>1, SerialFacts, ShmAssumption DEF fopen_a
<1>7. lock'.ino \in Inodes /\ lock'.ino # NoFile
  BY <1>1, ShmAssumption
<1>8. ~lock'.written => Live = {}
  BY <1>6 DEF UnwrittenMeansUnused
<1>9. SegsFit(n)'
  BY <1>2, <1>6, SerialFacts DEF SegsFit
<1>10. StageOf(p)'
  <2>1. mFd'[p] = NoSeg
    BY <1>2 DEF Stages, StageOf, Outside
  <2>2. new'[p] => Live' = {}
    BY <1>1, <1>3, <1>5, <1>8
  <2> QED BY <1>1, <1>3, <1>7, <2>1, <2>2 DEF StageOf, Outside
<1>11. NothingForgotten'
  BY <1>2, <1>3, <1>5 DEF NothingForgotten
<1> QED BY <1>4, <1>5, <1>8, <1>9, <1>10, <1>11 DEF Stages, UnwrittenMeansUnused

LEMMA AppendSerial ==
  ASSUME NEW n, SameClients(n), SerialInv(n), LeakInv', NEW p \in Procs,
         shmUtilInit_append(p) \/ shmUtilInit_ftok(p)
  PROVE  SerialInv(n)'
<1> USE DEF SerialInv
<1>1. /\ UNCHANGED <<seg, mem, map, sess, new, create, mFd, addr, nattch, crashes, faults>>
      /\ pc[p] \in {"append", "ftok"} /\ pc'[p] \in {"ftok", "inited"} /\ OnlyActor(p)
      /\ pc[p] = "append" => pc'[p] = "ftok" /\ lock' = IF lock.ino = fd[p] THEN [lock EXCEPT !.written = TRUE] ELSE lock
      /\ pc[p] = "ftok" => pc'[p] = "inited" /\ lock' = lock /\ key'[p] = ftok
  BY SerialFacts DEF shmUtilInit_append, shmUtilInit_ftok, Goto, budgets, TypeOK, OnlyActor
<1>2. StageOf(p)
  BY DEF Stages
<1>3. Serial' /\ \A q \in Procs \ {p} : StageOf(q)'
  BY <1>1, OthersOutside DEF Outside
<1>4. Live' = Live
  BY <1>1 DEF Live
<1>5. lock'.ino = lock.ino /\ lock'.written
  <2>1. CASE pc[p] = "append"
    <3>1. lock' = [lock EXCEPT !.written = TRUE]
      BY <1>1, <1>2, <2>1 DEF StageOf
    <3> QED BY <3>1, SerialFacts DEF TypeOK
  <2>2. CASE pc[p] = "ftok"
    BY <1>1, <1>2, <2>2 DEF StageOf
  <2> QED BY <1>1, <2>1, <2>2
<1>6. SegsFit(n)'
  BY <1>1, <1>5 DEF SegsFit
<1>7. StageOf(p)'
  <2>1. lock.ino # NoFile /\ mFd[p] = NoSeg /\ (new[p] => Live = {})
    BY <1>1, <1>2 DEF StageOf
  <2>2. pc'[p] = "inited" => key'[p] = lock.ino
    BY <1>1, <2>1 DEF ftok
  <2> QED BY <1>1, <1>4, <1>5, <2>1, <2>2 DEF StageOf, Outside
<1>8. NothingForgotten'
  BY <1>1, <1>4 DEF NothingForgotten, OnlyActor
<1> QED BY <1>3, <1>5, <1>6, <1>7, <1>8 DEF Stages, UnwrittenMeansUnused

LEMMA AttachShmgetSerial ==
  ASSUME NEW n, SameClients(n), SerialInv(n), LeakInv', NEW p \in Procs, shmUtilAttach_shmget(p)
  PROVE  SerialInv(n)'
<1> USE DEF SerialInv
<1>0. /\ UNCHANGED <<lock, map, sess, key, fd, new, addr, nattch, crashes, faults>>
      /\ pc[p] = "inited"
      /\ \/ \E s \in Segs : /\ shmget(key[p], n, s)
                            /\ pc' = [pc EXCEPT ![p] = "shmat"] /\ mFd' = [mFd EXCEPT ![p] = s]
                            /\ UNCHANGED <<seg, mem>>
         \/ \E s \in Segs : /\ CreatesNew(TRUE, key[p]) /\ s \in FreeIds
                            /\ pc' = [pc EXCEPT ![p] = "shmat"] /\ mFd' = [mFd EXCEPT ![p] = s]
                            /\ seg' = [seg EXCEPT ![s] = [state |-> "live", key |-> key[p], size |-> n, cpid |-> p]]
         \/ /\ shmget(key[p], n, NoSeg)
            /\ CreatesNew(TRUE, key[p]) => FreeIds = {}
  <2>1. Sizes = {n} /\ Creates = {TRUE}
    BY DEF SameClients
  <2> QED BY ZenonT(30), <2>1 DEF shmUtilAttach_shmget, Goto, budgets
<1>1. StageOf(p) /\ \A q \in Procs \ {p} : pc[q] \in Outside
  BY <1>0 DEF Stages, Serial, Outside
<1>2. key[p] = lock.ino /\ lock.ino # NoFile /\ lock.written /\ WithKey(key[p]) = Live
  BY <1>0, <1>1, SerialFacts DEF StageOf
<1>3. ASSUME NEW s \in Segs, s \in Live', pc' = [pc EXCEPT ![p] = "shmat"], mFd' = [mFd EXCEPT ![p] = s],
             SegsFit(n)'
      PROVE  SerialInv(n)'
  <2>1. pc'[p] = "shmat" /\ mFd'[p] = s /\ OnlyActor(p)
    BY <1>0, <1>3, SerialFacts DEF TypeOK, OnlyActor
  <2>2. Serial' /\ \A q \in Procs \ {p} : StageOf(q)'
    BY <1>1, <2>1, OthersOutside
  <2>3. StageOf(p)'
    BY <1>3, <2>1 DEF StageOf, Outside
  <2>4. \A t \in Live' : t = s
    BY <1>3 DEF SegsFit, LeakInv, OneLivePerKey, Live
  <2>5. NothingForgotten'
    BY <1>3, <2>1, <2>4 DEF NothingForgotten
  <2> QED BY <1>0, <1>2, <1>3, <2>2, <2>3, <2>5 DEF Stages, UnwrittenMeansUnused
<1>4. ASSUME NEW s \in Segs, shmget(key[p], n, s), seg' = seg,
             pc' = [pc EXCEPT ![p] = "shmat"], mFd' = [mFd EXCEPT ![p] = s]
      PROVE  SerialInv(n)'
  <2>1. s \in Live /\ Live' = Live
    BY <1>2, <1>4, ShmAssumption DEF shmget, Live
  <2>2. SegsFit(n)'
    BY <1>0, <1>4 DEF SegsFit
  <2> QED BY <1>3, <1>4, <2>1, <2>2
<1>5. ASSUME NEW s \in Segs, CreatesNew(TRUE, key[p]), s \in FreeIds,
             pc' = [pc EXCEPT ![p] = "shmat"], mFd' = [mFd EXCEPT ![p] = s],
             seg' = [seg EXCEPT ![s] = [state |-> "live", key |-> key[p], size |-> n, cpid |-> p]]
      PROVE  SerialInv(n)'
  <2>1. Live = {}
    BY <1>2, <1>5 DEF CreatesNew
  <2>2. /\ seg'[s] = [state |-> "live", key |-> key[p], size |-> n, cpid |-> p]
        /\ \A t \in Segs \ {s} : seg'[t] = seg[t]
    BY <1>5, SerialFacts DEF TypeOK
  <2>3. SegsFit(n)'
    BY <1>0, <1>2, <2>2 DEF SegsFit
  <2>4. s \in Live'
    BY <2>2 DEF Live
  <2> QED BY <1>3, <1>5, <2>3, <2>4
<1>6. ASSUME shmget(key[p], n, NoSeg), CreatesNew(TRUE, key[p]) => FreeIds = {}
      PROVE  FALSE
  <2>1. WithKey(key[p]) = {}
    <3>1. \A s \in Live : n > seg[s].size
      BY <1>2, <1>6, SerialFacts, ShmAssumption DEF shmget
    <3>2. \A s \in Live : seg[s].size = n /\ n \in Nat
      BY SerialFacts
    <3> QED BY <1>2, <3>1, <3>2
  <2>2. FreeIds = {} /\ Live = {}
    BY <1>2, <1>6, <2>1 DEF CreatesNew
  <2>3. PICK s \in Segs : TRUE
    BY DEF SameClients
  <2>4. seg[s].state = "free"
    BY <2>2, SerialFacts
  <2>5. \A q \in Procs : mFd[q] = NoSeg
    BY <1>0, <1>1 DEF Stages, StageOf
  <2>6. s # NoSeg
    BY ShmAssumption
  <2> QED BY <2>2, <2>4, <2>5, <2>6 DEF FreeIds
<1> QED BY <1>0, <1>4, <1>5, <1>6

LEMMA AttachShmatSerial ==
  ASSUME NEW n, SameClients(n), SerialInv(n), LeakInv', NEW p \in Procs, shmUtilAttach_shmat(p)
  PROVE  SerialInv(n)'
<1> USE DEF SerialInv
<1>1. pc[p] = "shmat" /\ StageOf(p) /\ mFd[p] \in Live
  BY DEF shmUtilAttach_shmat, Stages, StageOf
<1>2. ~shmatFails(p)
  BY <1>1, SerialFacts DEF shmatFails
<1>3. /\ pc' = [pc EXCEPT ![p] = "lockfile"] /\ map' = [map EXCEPT ![Cur(p)] = mFd[p]]
      /\ UNCHANGED <<lock, seg, mem, sess, key, fd, new, create, mFd, addr, nattch, crashes, faults>>
  BY <1>2 DEF shmUtilAttach_shmat, Goto, clientVars, locals, budgets
<1>4. pc'[p] = "lockfile" /\ OnlyActor(p) /\ Live' = Live
  BY <1>3, SerialFacts DEF TypeOK, OnlyActor, Live
<1>5. Serial' /\ \A q \in Procs \ {p} : StageOf(q)'
  BY <1>1, <1>4, OthersOutside DEF Outside
<1>6. StageOf(p)'
  BY <1>1, <1>3, <1>4 DEF StageOf, Outside
<1>7. SegsFit(n)'
  BY <1>3 DEF SegsFit
<1>8. NothingForgotten'
  <2>1. Cur(p) \in Procs \X Sessions
    BY SMTT(30), <1>1 DEF LeakInv, HeldInv, TypeInv, TypeOK, SessionBound, Cur, Sessions
  <2>2. map'[Cur(p)] = mFd[p]
    BY <1>3, <2>1, SerialFacts DEF TypeOK
  <2>3. Cur(p) \in Mappings(map', mFd[p])
    BY <2>1, <2>2 DEF Mappings
  <2>4. \A t \in Live' : t = mFd[p]
    BY <1>1, <1>4, SerialFacts
  <2>5. \A t \in Live' : Mappings(map', t) # {}
    BY <2>3, <2>4
  <2>6. Live' # {}
    BY <1>1, <1>4
  <2> QED BY <2>5, <2>6 DEF NothingForgotten
<1> QED BY <1>3, <1>4, <1>5, <1>6, <1>7, <1>8 DEF Stages, UnwrittenMeansUnused

LEMMA AttachLockfileSerial ==
  ASSUME NEW n, SameClients(n), SerialInv(n), LeakInv', NEW p \in Procs,
         shmUtilAttach_lockfile(p) \/ shmUtilAttach_clear(p)
  PROVE  SerialInv(n)'
<1> USE DEF SerialInv
<1>1. /\ pc[p] \in {"lockfile", "clear"} /\ UNCHANGED <<seg, map, sess, key, fd, new, create, nattch, crashes, faults>>
      /\ pc[p] = "lockfile" => /\ pc'[p] = "clear" /\ mFd' = mFd /\ addr' = addr
                               /\ \E f \in [ino : Inodes, written : BOOLEAN] :
                                    fopen_a(f) /\ lock' = [f EXCEPT !.written = TRUE]
      /\ pc[p] = "clear" => /\ pc'[p] = "open" /\ mFd'[p] = NoSeg /\ addr'[p] = mFd[p] /\ lock' = lock
      /\ OnlyActor(p)
  BY SerialFacts DEF shmUtilAttach_lockfile, shmUtilAttach_clear, Goto, clientVars, locals, budgets,
                     TypeOK, OnlyActor
<1>2. StageOf(p) /\ mFd[p] \in Live /\ Live' = Live
  BY <1>1 DEF Stages, StageOf, Live
<1>3. Serial' /\ \A q \in Procs \ {p} : StageOf(q)'
  BY <1>1, OthersOutside DEF Outside
<1>4. lock.ino # NoFile /\ lock.written
  BY <1>2, SerialFacts, ShmAssumption DEF UnwrittenMeansUnused, TypeOK
<1>5. lock'.ino = lock.ino /\ lock'.written
  <2>1. CASE pc[p] = "lockfile"
    <3>1. lock' = [lock EXCEPT !.written = TRUE]
      BY <1>1, <1>4, <2>1 DEF fopen_a
    <3> QED BY <3>1, SerialFacts DEF TypeOK
  <2>2. CASE pc[p] = "clear"
    BY <1>1, <1>4, <2>2
  <2> QED BY <1>1, <2>1, <2>2
<1>6. StageOf(p)'
  <2>1. mFd[p] # NoSeg
    BY <1>2, SerialFacts, ShmAssumption
  <2> QED BY <1>1, <1>2, <2>1 DEF StageOf, Outside
<1>7. SegsFit(n)'
  BY <1>1, <1>5 DEF SegsFit
<1>8. NothingForgotten'
  BY <1>1, <1>2 DEF NothingForgotten, OnlyActor
<1> QED BY <1>3, <1>5, <1>6, <1>7, <1>8 DEF Stages, UnwrittenMeansUnused

LEMMA DetachShmgetSerial ==
  ASSUME NEW n, SameClients(n), SerialInv(n), LeakInv', NEW p \in Procs, shmUtilDetach_shmget(p)
  PROVE  SerialInv(n)'
<1> USE DEF SerialInv
<1>1. /\ UNCHANGED <<lock, seg, mem, map, fd, crashes, faults>>
      /\ pc[p] = "open" /\ StageOf(p) /\ \A q \in Procs \ {p} : pc[q] \in Outside
  BY DEF shmUtilDetach_shmget, MayStart, SameClients, Stages, StageOf, budgets
<1>2. addr[p] \in Segs /\ addr[p] # NoSeg /\ map[Cur(p)] = addr[p] /\ Cur(p) \in Procs \X Sessions
  BY <1>1 DEF StageOf, LeakInv, HeldInv, TypeInv, TypeOK, SessionBound, Cur, Sessions, AddressMaps
<1>3. addr[p] \in Live
  BY <1>2, SerialFacts DEF LeakInv, HeldInv, MappedExists
<1>4. addr[p] \in WithKey(key[p])
  BY <1>2, <1>3 DEF LeakInv, LeakOf, HeldKey, WithKey
<1>5. ~shmget(key[p], DetachSize, NoSeg)
  <2>1. seg[addr[p]].size = n /\ n >= DetachSize /\ n \in Nat /\ DetachSize \in Nat
    BY <1>3, SerialFacts DEF SameClients
  <2>2. NoSeg \notin Segs /\ WithKey(key[p]) \subseteq Segs
    BY ShmAssumption DEF WithKey, Live
  <2> QED BY <1>4, <2>1, <2>2 DEF shmget
<1>6. PICK s \in Segs : /\ shmget(key[p], DetachSize, s)
                        /\ pc' = [pc EXCEPT ![p] = "stat"] /\ mFd' = [mFd EXCEPT ![p] = s]
                        /\ UNCHANGED <<sess, key, new, create, addr, nattch>>
  BY <1>5 DEF shmUtilDetach_shmget, Goto
<1>7. s \in Live
  BY <1>6, ShmAssumption DEF shmget, WithKey
<1>8. s = addr[p] /\ Live' = Live
  BY <1>1, <1>3, <1>7, SerialFacts DEF Live
<1>9. pc'[p] = "stat" /\ mFd'[p] = s /\ OnlyActor(p)
  BY <1>1, <1>6, SerialFacts DEF TypeOK, OnlyActor
<1>10. Serial' /\ \A q \in Procs \ {p} : StageOf(q)'
  BY <1>1, <1>9, OthersOutside
<1>11. StageOf(p)'
  BY <1>6, <1>7, <1>8, <1>9 DEF StageOf, Outside
<1>12. SegsFit(n)'
  BY <1>1 DEF SegsFit
<1>13. NothingForgotten'
  BY <1>1, <1>7, <1>8, <1>9 DEF NothingForgotten, OnlyActor
<1> QED BY <1>1, <1>8, <1>10, <1>11, <1>12, <1>13 DEF Stages, UnwrittenMeansUnused

LEMMA DetachStatSerial ==
  ASSUME NEW n, SameClients(n), SerialInv(n), LeakInv', NEW p \in Procs, shmUtilDetach_stat(p)
  PROVE  SerialInv(n)'
<1> USE DEF SerialInv
<1>1. pc[p] = "stat" /\ StageOf(p) /\ mFd[p] \in Live /\ addr[p] = mFd[p]
  BY DEF shmUtilDetach_stat, Stages, StageOf
<1>2. /\ pc' = [pc EXCEPT ![p] = "shmdt"] /\ nattch' = [nattch EXCEPT ![p] = shm_nattch(mFd[p])]
      /\ UNCHANGED <<lock, seg, mem, map, sess, key, fd, new, create, mFd, addr, crashes, faults>>
  BY <1>1, SerialFacts DEF shmUtilDetach_stat, Goto, budgets
<1>3. pc'[p] = "shmdt" /\ nattch'[p] = shm_nattch(mFd[p]) /\ OnlyActor(p) /\ Live' = Live
  BY <1>2, SerialFacts DEF TypeOK, OnlyActor, Live
<1>4. Serial' /\ \A q \in Procs \ {p} : StageOf(q)'
  BY <1>1, <1>3, OthersOutside DEF Outside
<1>5. StageOf(p)'
  <2>1. shm_nattch(mFd[p])' = shm_nattch(mFd[p]) /\ shm_nattch(mFd[p]) \in Nat
    BY <1>2, NattchIsNat DEF shm_nattch
  <2> QED BY <1>1, <1>2, <1>3, <2>1 DEF StageOf, Outside
<1>6. SegsFit(n)'
  BY <1>2 DEF SegsFit
<1>7. NothingForgotten'
  BY <1>1, <1>2, <1>3 DEF NothingForgotten, OnlyActor
<1> QED BY <1>2, <1>3, <1>4, <1>5, <1>6, <1>7 DEF Stages, UnwrittenMeansUnused

LEMMA DetachShmdtSerial ==
  ASSUME NEW n, SameClients(n), SerialInv(n), LeakInv', NEW p \in Procs, shmUtilDetach_shmdt(p)
  PROVE  SerialInv(n)'
<1> USE DEF SerialInv
<1> DEFINE s == mFd[p]
<1>1. /\ pc[p] = "shmdt" /\ StageOf(p) /\ s \in Live /\ addr[p] = s /\ addr[p] # NoSeg
  BY SerialFacts, ShmAssumption DEF shmUtilDetach_shmdt, Stages, StageOf
<1>2. /\ pc' = [pc EXCEPT ![p] = "rmid"] /\ map' = [map EXCEPT ![Cur(p)] = NoSeg] /\ seg' = seg
      /\ addr' = [addr EXCEPT ![p] = NoSeg]
      /\ UNCHANGED <<lock, mem, sess, key, fd, new, create, mFd, nattch, crashes, faults>>
  BY <1>1, UnmappedSame DEF shmUtilDetach_shmdt, Detaches, Goto, budgets
<1>3. pc'[p] = "rmid" /\ OnlyActor(p) /\ Live' = Live
  BY <1>2, SerialFacts DEF TypeOK, OnlyActor, Live
<1>4. Serial' /\ \A q \in Procs \ {p} : StageOf(q)'
  BY <1>1, <1>3, OthersOutside DEF Outside
<1>5. shm_nattch(s)' \in Nat /\ shm_nattch(s)' = shm_nattch(s) - 1
  <2>1. Cur(p) \in Procs \X Sessions /\ map[Cur(p)] = s
    BY SMTT(30), <1>1 DEF LeakInv, HeldInv, TypeInv, TypeOK, SessionBound, Cur, Sessions, AddressMaps
  <2>2. Cur(p) \in Mappings(map, s)
    BY <2>1 DEF Mappings
  <2>3. Mappings(map', s) = Mappings(map, s) \ {Cur(p)}
    <3>1. s # NoSeg /\ map \in [Procs \X Sessions -> Segs \cup {NoSeg}]
      BY <1>1, SerialFacts DEF TypeOK
    <3>2. \A x \in Procs \X Sessions : map'[x] = IF x = Cur(p) THEN NoSeg ELSE map[x]
      BY <1>2, <3>1
    <3> HIDE DEF s
    <3> QED BY <3>1, <3>2 DEF Mappings
  <2>4. s' = s
    BY <1>2
  <2> HIDE DEF s
  <2>5. /\ Cardinality(Mappings(map', s)) \in Nat
        /\ Cardinality(Mappings(map', s)) = shm_nattch(s) - 1
    BY <2>2, <2>3, FewerMapped
  <2> QED BY <2>4, <2>5 DEF shm_nattch
<1>6. StageOf(p)'
  <2>1. /\ shm_nattch(s) <= nattch[p]
        /\ crashes = 0 => shm_nattch(s) = nattch[p]
    BY <1>1 DEF StageOf
  <2>2. shm_nattch(s) \in Nat /\ nattch[p] \in Nat
    BY NattchIsNat, SerialFacts DEF TypeOK
  <2>3. /\ shm_nattch(mFd[p])' <= nattch'[p] - 1
        /\ crashes' = 0 => shm_nattch(mFd[p])' = nattch'[p] - 1
    BY <1>2, <1>5, <2>1, <2>2
  <2> QED BY <1>1, <1>2, <1>3, <2>3 DEF StageOf, Outside
<1>7. SegsFit(n)'
  BY <1>2 DEF SegsFit
<1>8. NothingForgotten'
  <2>1. \A t \in Live' : t = mFd'[p]
    BY <1>1, <1>2, <1>3, SerialFacts
  <2> QED BY <1>1, <1>3, <2>1 DEF NothingForgotten
<1> QED BY <1>2, <1>3, <1>4, <1>6, <1>7, <1>8 DEF Stages, UnwrittenMeansUnused

LEMMA DetachRmidSerial ==
  ASSUME NEW n, SameClients(n), SerialInv(n), LeakInv', NEW p \in Procs, shmUtilDetach_rmid(p)
  PROVE  SerialInv(n)'
<1> USE DEF SerialInv
<1>1. /\ pc[p] = "rmid" /\ StageOf(p) /\ mFd[p] \in Live /\ mFd[p] \in Segs
      /\ UNCHANGED <<lock, mem, map, fd, crashes, faults>>
  BY SerialFacts DEF shmUtilDetach_rmid, Stages, StageOf, budgets
<1>2. /\ shm_nattch(mFd[p]) <= nattch[p] - 1 /\ (crashes = 0 => shm_nattch(mFd[p]) = nattch[p] - 1)
      /\ shm_nattch(mFd[p]) \in Nat /\ nattch[p] \in Nat
  BY <1>1, NattchIsNat, SerialFacts DEF StageOf, TypeOK
<1>3. CASE nattch[p] = 1
  <2>1. Mappings(map, mFd[p]) = {}
    BY <1>2, <1>3, NoneMapped
  <2>2. /\ pc' = [pc EXCEPT ![p] = "unlink"] /\ seg' = [seg EXCEPT ![mFd[p]].state = "free"]
        /\ UNCHANGED <<sess, key, new, create, mFd, addr, nattch>>
    BY <1>1, <1>3, <2>1, SerialFacts DEF shmUtilDetach_rmid, LastUser, Removed, shmctl_IPC_RMID, Goto, locals
  <2>3. pc'[p] = "unlink" /\ OnlyActor(p)
    BY <1>1, <2>2, SerialFacts DEF TypeOK, OnlyActor
  <2>4. seg'[mFd[p]].state = "free" /\ \A t \in Segs \ {mFd[p]} : seg'[t] = seg[t]
    <3>1. seg \in [Segs -> Segments] /\ seg[mFd[p]] \in Segments
      BY <1>1, SerialFacts DEF TypeOK
    <3>2. seg' = [seg EXCEPT ![mFd[p]] = [seg[mFd[p]] EXCEPT !.state = "free"]]
      BY <2>2
    <3>3. [seg[mFd[p]] EXCEPT !.state = "free"].state = "free"
      BY <3>1, SegmentState
    <3> QED BY <1>1, <3>1, <3>2, <3>3
  <2>5. \A t \in Segs : seg'[t].state = "free"
    BY <1>1, <2>4, SerialFacts
  <2>6. Live' = {}
    BY <2>5 DEF Live
  <2>7. Serial' /\ \A q \in Procs \ {p} : StageOf(q)'
    BY <1>1, <2>3, OthersOutside DEF Outside
  <2>8. StageOf(p)'
    BY <2>3, <2>6 DEF StageOf, Outside
  <2>9. SegsFit(n)'
    BY <2>5 DEF SegsFit
  <2>10. NothingForgotten'
    BY <2>3, <2>6 DEF NothingForgotten
  <2> QED BY <2>6, <2>7, <2>8, <2>9, <2>10 DEF Stages, UnwrittenMeansUnused
<1>4. CASE nattch[p] # 1
  <2>1. /\ pc' = [pc EXCEPT ![p] = "closed"] /\ seg' = seg
        /\ key' = [key EXCEPT ![p] = ERR] /\ new' = [new EXCEPT ![p] = FALSE]
        /\ mFd' = [mFd EXCEPT ![p] = NoSeg] /\ addr' = [addr EXCEPT ![p] = NoSeg]
        /\ nattch' = [nattch EXCEPT ![p] = 0]
    BY <1>4 DEF shmUtilDetach_rmid, LastUser, EndSession, ForgetLocals, Goto
  <2>2. pc'[p] = "closed" /\ mFd'[p] = NoSeg /\ OnlyActor(p) /\ Live' = Live
    BY <1>1, <2>1, SerialFacts DEF TypeOK, OnlyActor, Live
  <2>3. Serial' /\ \A q \in Procs \ {p} : StageOf(q)'
    BY <1>1, <2>2, OthersOutside DEF Outside
  <2>4. StageOf(p)'
    BY <2>2 DEF StageOf, Outside
  <2>5. SegsFit(n)'
    BY <1>1, <2>1 DEF SegsFit
  <2>6. NothingForgotten'
    <3> SUFFICES ASSUME crashes = 0
                 PROVE  /\ \A t \in Live : Mappings(map, t) # {}
                        /\ Live # {}
      BY <1>1, <2>2 DEF NothingForgotten
    <3>1. shm_nattch(mFd[p]) # 0
      BY <1>2, <1>4
    <3>2. Mappings(map, mFd[p]) # {}
      BY <3>1, NoneMapped
    <3> QED BY <1>1, <3>2, SerialFacts
  <2> QED BY <1>1, <2>2, <2>3, <2>4, <2>5, <2>6 DEF Stages, UnwrittenMeansUnused
<1> QED BY <1>3, <1>4

LEMMA DetachUnlinkSerial ==
  ASSUME NEW n, SameClients(n), SerialInv(n), LeakInv', NEW p \in Procs, shmUtilDetach_unlink(p)
  PROVE  SerialInv(n)'
<1> USE DEF SerialInv
<1>1. /\ pc[p] = "unlink" /\ Live = {} /\ lock' = [ino |-> NoFile, written |-> FALSE]
      /\ UNCHANGED <<seg, mem, map, fd, crashes, faults>>
      /\ pc' = [pc EXCEPT ![p] = "closed"]
      /\ key' = [key EXCEPT ![p] = ERR] /\ new' = [new EXCEPT ![p] = FALSE]
      /\ mFd' = [mFd EXCEPT ![p] = NoSeg] /\ addr' = [addr EXCEPT ![p] = NoSeg]
      /\ nattch' = [nattch EXCEPT ![p] = 0]
  BY DEF shmUtilDetach_unlink, EndSession, ForgetLocals, Goto, budgets, Stages, StageOf
<1>2. pc'[p] = "closed" /\ mFd'[p] = NoSeg /\ OnlyActor(p) /\ Live' = {}
  BY <1>1, SerialFacts DEF TypeOK, OnlyActor, Live
<1>3. Serial' /\ \A q \in Procs \ {p} : StageOf(q)'
  BY <1>1, <1>2, OthersOutside DEF Outside
<1>4. StageOf(p)'
  BY <1>2 DEF StageOf, Outside
<1>5. SegsFit(n)'
  BY <1>1, SerialFacts DEF SegsFit
<1>6. NothingForgotten'
  BY <1>1, <1>2 DEF NothingForgotten
<1> QED BY <1>2, <1>3, <1>4, <1>5, <1>6 DEF Stages, UnwrittenMeansUnused

\* A process may die, or write to its memory, while another one is in a call.
LEMMA DieSerial ==
  ASSUME NEW n, SameClients(n), SerialInv(n), LeakInv', NEW p \in Procs, Die(p)
  PROVE  SerialInv(n)'
<1> USE DEF SerialInv
<1>1. /\ pc' = [pc EXCEPT ![p] = "dead"] /\ crashes' = crashes + 1 /\ seg' = seg
      /\ map' = [x \in Procs \X Sessions |-> IF x[1] = p THEN NoSeg ELSE map[x]]
      /\ fd' = [fd EXCEPT ![p] = NoFile]
      /\ key' = [key EXCEPT ![p] = ERR] /\ new' = [new EXCEPT ![p] = FALSE]
      /\ mFd' = [mFd EXCEPT ![p] = NoSeg] /\ addr' = [addr EXCEPT ![p] = NoSeg]
      /\ nattch' = [nattch EXCEPT ![p] = 0] /\ UNCHANGED <<lock, mem, sess, faults>>
  BY UnmappedSame DEF Die, ForgetLocals, Goto
<1>2. /\ pc'[p] = "dead" /\ mFd'[p] = NoSeg /\ OnlyActor(p) /\ Live' = Live
      /\ crashes' # 0 /\ crashes \in Nat
  BY <1>1, SerialFacts DEF TypeOK, OnlyActor, Live
<1>3. Serial'
  BY <1>2 DEF Serial, OnlyActor, Outside
<1>4. ASSUME NEW q \in Procs \ {p} PROVE StageOf(q)'
  <2>1. StageOf(q) /\ pc'[q] = pc[q] /\ mFd'[q] = mFd[q] /\ addr'[q] = addr[q]
        /\ fd'[q] = fd[q] /\ key'[q] = key[q] /\ new'[q] = new[q] /\ nattch'[q] = nattch[q]
    BY <1>2 DEF Stages, OnlyActor
  <2>2. ASSUME mFd[q] # NoSeg
        PROVE  /\ shm_nattch(mFd[q])' \in Nat /\ shm_nattch(mFd[q]) \in Nat
               /\ shm_nattch(mFd[q])' <= shm_nattch(mFd[q])
    <3>1. Mappings(map', mFd[q]) \subseteq Mappings(map, mFd[q])
      BY <1>1, <2>2 DEF Mappings
    <3>2. Cardinality(Mappings(map', mFd[q])) \in Nat
          /\ Cardinality(Mappings(map', mFd[q])) <= shm_nattch(mFd[q])
      BY <3>1, FewerMapped
    <3>3. shm_nattch(mFd[q])' = Cardinality(Mappings(map', mFd[q]))
      BY <2>1 DEF shm_nattch
    <3> QED BY <3>2, <3>3, NattchIsNat
  <2>3. nattch[q] \in Nat
    BY SerialFacts DEF TypeOK
  <2>4. pc[q] \in {"shmdt", "rmid"} => mFd[q] # NoSeg
    BY <2>1, SerialFacts, ShmAssumption DEF StageOf
  <2>5. pc[q] = "shmdt" => shm_nattch(mFd[q])' <= nattch[q]
    BY <2>1, <2>2, <2>3, <2>4 DEF StageOf
  <2>6. pc[q] = "rmid" => shm_nattch(mFd[q])' <= nattch[q] - 1
    BY <2>1, <2>2, <2>3, <2>4 DEF StageOf
  <2> QED BY <1>1, <1>2, <2>1, <2>5, <2>6 DEF StageOf
<1>5. StageOf(p)'
  BY <1>2 DEF StageOf, Outside
<1>6. SegsFit(n)' /\ NothingForgotten'
  BY <1>1, <1>2 DEF SegsFit, NothingForgotten
<1> QED BY <1>1, <1>2, <1>3, <1>4, <1>5, <1>6 DEF Stages, UnwrittenMeansUnused

LEMMA UnchangedSerial ==
  ASSUME NEW n, SerialInv(n), LeakInv',
         UNCHANGED <<lock, seg, map, pc, sess, key, new, mFd, addr, nattch, fd, crashes, faults>>
  PROVE  SerialInv(n)'
<1> USE DEF SerialInv
<1>1. Live' = Live
  BY DEF Live
<1>2. Serial' /\ SegsFit(n)' /\ UnwrittenMeansUnused'
  BY <1>1 DEF Serial, SegsFit, UnwrittenMeansUnused
<1>3. Stages'
  BY <1>1 DEF Stages, StageOf, shm_nattch
<1>4. NothingForgotten'
  BY <1>1 DEF NothingForgotten
<1> QED BY <1>2, <1>3, <1>4

LEMMA NextSerial ==
  ASSUME NEW n, SameClients(n), SerialInv(n), LeakInv', [Next]_vars
  PROVE  SerialInv(n)'
<1>1. ASSUME NEW p \in Procs PROVE ~shmUtilInit_fail(p) /\ ~shmUtilAttach_lockfileFails(p)
  BY SerialFacts DEF shmUtilInit_fail, shmUtilAttach_lockfileFails, fopenFails, SameClients
<1>2. ASSUME NEW p \in Procs PROVE ~shmUtilAttach_badParameter(p)
  BY SerialFacts DEF shmUtilAttach_badParameter, SameClients
<1>3. ASSUME NEW p \in Procs PROVE ~smcOpen_givesUp(p)
  BY DEF smcOpen_givesUp, SerialInv, Stages, StageOf
<1>4. ASSUME NEW p \in Procs, WriteMemory(p) PROVE SerialInv(n)'
  BY <1>4, UnchangedSerial DEF WriteMemory, clientVars, locals, budgets
<1>5. CASE UNCHANGED vars
  BY <1>5, UnchangedSerial DEF vars, clientVars, locals, budgets
<1> QED BY <1>1, <1>2, <1>3, <1>4, <1>5, FopenSerial, AppendSerial, AttachShmgetSerial,
           AttachShmatSerial, AttachLockfileSerial, DetachShmgetSerial, DetachStatSerial,
           DetachShmdtSerial, DetachRmidSerial, DetachUnlinkSerial, DieSerial DEF Next

LEMMA InitSerial == ASSUME NEW n, SameClients(n), Init, LeakInv PROVE SerialInv(n)
<1>1. Live = {} /\ lock.ino = NoFile /\ ~lock.written /\ \A p \in Procs : pc[p] = "closed" /\ mFd[p] = NoSeg
  BY DEF Init, Live
<1>2. Serial
  BY <1>1 DEF Serial, Outside
<1>3. SegsFit(n)
  BY DEF Init, SegsFit
<1>4. Stages
  BY <1>1 DEF Stages, StageOf, Outside
<1>5. UnwrittenMeansUnused /\ NothingForgotten
  BY <1>1 DEF UnwrittenMeansUnused, NothingForgotten
<1> QED BY <1>2, <1>3, <1>4, <1>5 DEF SerialInv

LEMMA SerialClients == ASSUME NEW n, SameClients(n) PROVE Spec => []SerialInv(n)
<1>1. Init => SerialInv(n)
  BY InitLeakInv, InitSerial
<1>2. SerialInv(n) /\ [Next]_vars => SerialInv(n)'
  BY NextLeakInv, NextSerial DEF SerialInv
<1> QED BY <1>1, <1>2, PTL DEF Spec

\* Clients that take turns and ask for the same size share one segment: two of
\* them that have the cache open hold the same memory, also after others died.
THEOREM SerialClientsShareCache == ASSUME NEW n, SameClients(n) PROVE Spec => []OneCache
<1>1. SerialInv(n) => OneCache
  <2> SUFFICES ASSUME SerialInv(n), NEW p \in Procs, NEW q \in Procs, addr[p] # NoSeg, addr[q] # NoSeg
               PROVE  addr[p] = addr[q]
    BY DEF OneCache
  <2>1. ASSUME NEW r \in Procs, addr[r] # NoSeg PROVE addr[r] \in Live
    <3>1. map[Cur(r)] = addr[r] /\ addr[r] \in Segs /\ pc[r] \in {"open", "stat", "shmdt"}
      BY <2>1, SerialFacts DEF SerialInv, LeakInv, HeldInv, AddressMaps, TypeOK
    <3>2. Cur(r) \in Procs \X Sessions
      <4>1. sess[r] <= MaxSessions /\ sess[r] \in 1..(MaxSessions + 1)
        BY <3>1, SerialFacts DEF SerialInv, LeakInv, HeldInv, TypeInv, TypeOK, SessionBound
      <4> QED BY <4>1, ShmAssumption DEF Cur, Sessions
    <3> QED BY <2>1, <3>1, <3>2, SerialFacts DEF SerialInv, LeakInv, HeldInv, MappedExists
  <2> QED BY <2>1, SerialFacts
<1> QED BY <1>1, SerialClients, PTL

\* The lock file they meet at leads to the segment, and *new is returned only
\* where no segment is in use.
THEOREM LockFileTellsSegment == ASSUME NEW n, SameClients(n) PROVE Spec => []FileTellsSegment
<1>1. SerialInv(n) => FileTellsSegment
  <2> SUFFICES ASSUME SerialInv(n) PROVE LockNamesSegment /\ NewMeansUnused
    BY DEF FileTellsSegment
  <2>1. LockNamesSegment
    BY SerialFacts DEF LockNamesSegment
  <2>2. ASSUME NEW p \in Procs, pc[p] = "inited", new[p] PROVE ~shmUtilExists(key[p])
    BY <2>2 DEF SerialInv, Stages, StageOf, shmUtilExists, WithKey
  <2> QED BY <2>1, <2>2 DEF NewMeansUnused
<1> QED BY <1>1, SerialClients, PTL

\* When all of them have closed the cache, and none has died, the segment and
\* the lock file are gone.
THEOREM LastCloseFrees == ASSUME NEW n, SameClients(n) PROVE Spec => []LastDetachFrees
<1>1. SerialInv(n) => LastDetachFrees
  <2> SUFFICES ASSUME SerialInv(n), crashes = 0, \A p \in Procs : pc[p] = "closed"
               PROVE  lock.ino = NoFile /\ \A s \in Segs : seg[s].state = "free"
    BY DEF LastDetachFrees
  <2>1. ASSUME NEW s \in Live PROVE FALSE
    <3>1. PICK x \in Mappings(map, s) : TRUE
      BY DEF SerialInv, NothingForgotten
    <3>2. PICK p \in Procs, k \in Sessions : x = <<p, k>>
      BY <3>1 DEF Mappings
    <3>3. map[<<p, k>>] = s /\ s # NoSeg /\ s \in Segs
      BY <3>1, <3>2, SerialFacts, ShmAssumption DEF Mappings
    <3>4. k <= sess[p] /\ k # sess[p]
      BY <3>3, SerialFacts DEF SerialInv, LeakInv, LeakOf, CurrentMapping
    <3>5. k < sess[p]
      <4>1. sess[p] \in 1..(MaxSessions + 1) /\ k \in 1..MaxSessions /\ MaxSessions \in Nat
        BY SerialFacts, ShmAssumption DEF TypeOK, Sessions
      <4> QED BY <3>4, <4>1
    <3>6. Unfindable(s)
      BY <3>3, <3>5, SerialFacts DEF SerialInv, LeakInv, LeakOf, LeftMapped
    <3>7. seg[s].state = "live" /\ seg[s].size = n /\ n >= DetachSize /\ n \in Nat /\ DetachSize \in Nat
      BY <3>3, SerialFacts DEF SameClients
    <3> QED BY <3>6, <3>7 DEF Unfindable
  <2>2. Live = {}
    BY <2>1
  <2>3. lock.ino = NoFile
    BY <2>2 DEF SerialInv, NothingForgotten
  <2> QED BY <2>2, <2>3, SerialFacts
<1> QED BY <1>1, SerialClients, PTL

=============================================================================
