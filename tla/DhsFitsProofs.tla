--------------------------- MODULE DhsFitsProofs ---------------------------
(***************************************************************************)
(* Theorems about DhsFits, for any clients, exposures, names, directories, *)
(* sends and failures of cfitsio, with the sends of all clients            *)
(* interleaving.                                                           *)
(***************************************************************************)
EXTENDS DhsFits, TLAPS

------------------------------------------------------------------------------
(* The inductive invariants *)

\* What a send in progress knows: its call, and the container that it found or
\* made, once it has.
InSend ==
  \A c \in Clients :
    /\ pc[c] \in {"create", "open", "write"} => call[c] # NoCall
    /\ pc[c] \in {"open", "write"} => call[c].file \in DOMAIN hdus

TypeInv == TypeOK /\ InSend

\* The naming state of a client still names every container it used since it
\* last changed it; a file name alone has then been settled.
SinceCurrent ==
  \A c \in Clients :
    /\ flag[c] = 1 => since[c] = {}
    /\ \A x \in since[c] : x[3] = fitsFile(c, x[2], x[1])

\* Two sends that have a container open at the same time share it, and one that
\* shares it with nobody is looking at what the container still holds.
OpenedAlone ==
  \A c \in Clients : pc[c] = "write" /\ Block(c) \notin clash =>
    /\ view[c] = hdus[call[c].file]
    /\ \A d \in Clients \ {c} : pc[d] = "write" => call[d].file # call[c].file

\* What was acknowledged and shared with nobody is in its container, and seen by
\* whoever has that container open.
Stored(a) ==
  /\ a[3] \in DOMAIN hdus
  /\ a[2] # "OTHER" /\ a[1] \notin clash =>
       /\ <<a[1], a[4]>> \in hdus[a[3]]
       /\ \A c \in Clients : pc[c] = "write" /\ call[c].file = a[3] => <<a[1], a[4]>> \in view[c]
AckedStored ==
  \A a \in acked : Stored(a) /\ (a[2] = "PIXELS" => a[4] = "whole")

StoreInv == TypeInv /\ OpenedAlone /\ AckedStored

------------------------------------------------------------------------------
(* Lemmas about calls and containers *)

\* The file a send takes is one, and its name depends on nothing but the naming
\* state, the kind of block and the exposure.
LEMMA FileType ==
  ASSUME TypeOK, NEW c \in Clients, NEW k \in Kinds, NEW e \in ExpIDs
  PROVE  fitsFile(c, k, e) \in Files
  BY DEF TypeOK, fitsFile, Files, Bases, Padded, Plain, UserBase

\* A send in progress has a call with a number and a file.
LEMMA CallType ==
  ASSUME TypeInv, NEW c \in Clients, pc[c] \in {"create", "open", "write"}
  PROVE  /\ call[c] \in [kind : Kinds, exp : ExpIDs, num : 1..MaxSends, file : Files]
         /\ Block(c) \in Blocks
<1>1. call[c] \in Calls /\ call[c] # NoCall
  BY DEF TypeInv, TypeOK, InSend
<1>2. call[c] \in [kind : Kinds, exp : ExpIDs, num : 1..MaxSends, file : Files]
  BY <1>1 DEF Calls
<1> QED BY <1>2 DEF Block, Blocks

\* A call that returns leaves its process well typed and out of any send.
LEMMA ReturnType ==
  ASSUME TypeInv, NEW c \in Clients, pc[c] \in {"create", "open", "write"},
         NEW how \in {"part", "whole"}, Return(c, how) \/ ReturnError(c)
  PROVE  /\ istat' \in [Clients -> {"ok", "bad"}]
         /\ pc' \in [Clients -> {"idle", "create", "open", "write", "dead"}]
         /\ call' \in [Clients -> Calls] /\ view' \in [Clients -> SUBSET HDUs]
         /\ acked' \subseteq Blocks \X Kinds \X Files \X {"part", "whole"}
         /\ pc'[c] = "idle"
         /\ \A d \in Clients \ {c} : pc'[d] = pc[d] /\ call'[d] = call[d] /\ view'[d] = view[d]
         /\ acked \subseteq acked'
         /\ acked' \subseteq acked \cup {<<Block(c), call[c].kind, call[c].file, how>>}
         /\ ReturnError(c) => acked' = acked
<1>1. <<Block(c), call[c].kind, call[c].file, how>> \in Blocks \X Kinds \X Files \X {"part", "whole"}
  BY CallType
<1>2. Ends(c, "ok") \/ Ends(c, "bad")
  BY DEF Return, ReturnError
<1>3. /\ acked \subseteq acked'
      /\ acked' \subseteq acked \cup {<<Block(c), call[c].kind, call[c].file, how>>}
      /\ ReturnError(c) => acked' = acked
  BY DEF Return, ReturnError
<1> QED BY <1>1, <1>2, <1>3 DEF Ends, SetStatus, TypeInv, TypeOK, Calls

\* What a process writes goes into its container, behind what it saw there.
LEMMA FlushedType ==
  ASSUME TypeInv, NEW c \in Clients, pc[c] = "write", NEW new \in SUBSET HDUs
  PROVE  /\ Flushed(c, new) \in [DOMAIN hdus -> SUBSET HDUs]
         /\ DOMAIN Flushed(c, new) = DOMAIN hdus
         /\ Flushed(c, new)[call[c].file] = view[c] \cup new
         /\ \A f \in DOMAIN hdus \ {call[c].file} : Flushed(c, new)[f] = hdus[f]
  BY DEF Flushed, TypeInv, TypeOK, InSend

\* A write, successful or not: the container keeps what was stored in it while
\* nobody shared it, and an acknowledged block is added.
LEMMA WriteKeeps ==
  ASSUME StoreInv, NEW c \in Clients, pc[c] = "write", NEW new \in SUBSET HDUs,
         NEW how \in {"part", "whole"}, hdus' = Flushed(c, new),
         \/ ReturnError(c)
         \/ /\ Return(c, how)
            /\ call[c].kind # "OTHER" => <<Block(c), how>> \in new
            /\ call[c].kind = "PIXELS" => how = "whole",
         UNCHANGED <<libVars, sends, ioctls, clash, since>>, failures' \in 0..MaxFailures
  PROVE  StoreInv'
<1> USE DEF StoreInv
<1>0. DOMAIN hdus' = DOMAIN hdus /\ call[c].file \in DOMAIN hdus
  BY FlushedType DEF TypeInv, InSend
<1>1. TypeInv'
  <2>1. TypeOK'
    BY <1>0, ReturnType, FlushedType DEF TypeInv, TypeOK, libVars
  <2>2. InSend'
    BY <1>0, ReturnType DEF TypeInv, InSend
  <2> QED BY <2>1, <2>2 DEF TypeInv
<1>5. \A d \in Clients : pc'[d] = "write" =>
         /\ d # c /\ pc[d] = "write" /\ call'[d] = call[d] /\ view'[d] = view[d]
         /\ Block(d)' = Block(d)
  BY ReturnType DEF Block
<1>2. OpenedAlone'
  <2> SUFFICES ASSUME NEW d \in Clients, pc'[d] = "write", Block(d)' \notin clash'
               PROVE  /\ view'[d] = hdus'[call'[d].file]
                      /\ \A x \in Clients \ {d} : pc'[x] = "write" => call'[x].file # call'[d].file
    BY DEF OpenedAlone
  <2>1. /\ d # c /\ pc[d] = "write" /\ call'[d] = call[d] /\ view'[d] = view[d]
        /\ Block(d) \notin clash
    BY <1>5
  <2>2. call[d].file # call[c].file /\ call[d].file \in DOMAIN hdus
    BY <2>1 DEF OpenedAlone, TypeInv, InSend
  <2>3. hdus'[call[d].file] = hdus[call[d].file]
    BY <2>2, FlushedType
  <2> QED BY <1>5, <2>1, <2>3 DEF OpenedAlone
<1>3. ASSUME NEW a \in acked PROVE Stored(a)'
  <2>1. Stored(a)
    BY DEF AckedStored
  <2>2. ASSUME a[2] # "OTHER", a[1] \notin clash PROVE <<a[1], a[4]>> \in hdus'[a[3]]
    <3>1. CASE a[3] # call[c].file
      BY <2>1, <2>2, <3>1, FlushedType DEF Stored
    <3>2. CASE a[3] = call[c].file
      BY <2>1, <2>2, <3>2, FlushedType DEF Stored
    <3> QED BY <3>1, <3>2
  <2> QED BY <1>0, <1>5, <2>1, <2>2 DEF Stored
<1>4. ASSUME NEW a \in acked', a \notin acked
      PROVE  Stored(a)' /\ (a[2] = "PIXELS" => a[4] = "whole")
  <2>1. a = <<Block(c), call[c].kind, call[c].file, how>> /\ ~ReturnError(c)
    BY <1>4, ReturnType
  <2>2. a[1] = Block(c) /\ a[2] = call[c].kind /\ a[3] = call[c].file /\ a[4] = how
    BY <2>1
  <2>3. a[2] # "OTHER" => <<a[1], a[4]>> \in hdus'[a[3]]
    BY <2>1, <2>2, FlushedType
  <2>4. a[1] \notin clash => \A d \in Clients : pc'[d] = "write" => call'[d].file # a[3]
    BY <1>5, <2>2 DEF OpenedAlone
  <2> QED BY <1>0, <2>1, <2>2, <2>3, <2>4 DEF Stored
<1>6. AckedStored'
  BY <1>3, <1>4 DEF AckedStored
<1> QED BY <1>1, <1>2, <1>6

\* A call that returns without having written: nothing but its own progress
\* changes.
LEMMA RefusedKeeps ==
  ASSUME StoreInv, NEW c \in Clients, pc[c] \in {"create", "open"}, ReturnError(c),
         UNCHANGED <<libVars, hdus, sends, ioctls, clash, since>>,
         failures' \in 0..MaxFailures
  PROVE  StoreInv'
<1> USE DEF StoreInv
<1>5. "part" \in {"part", "whole"} /\ acked' = acked
  BY DEF ReturnError
<1>1. TypeOK'
  BY <1>5, ReturnType DEF TypeInv, TypeOK, libVars
<1>2. InSend'
  BY <1>5, ReturnType DEF TypeInv, InSend
<1>6. \A d \in Clients : pc'[d] = "write" =>
         pc[d] = "write" /\ call'[d] = call[d] /\ view'[d] = view[d] /\ Block(d)' = Block(d)
  BY <1>5, ReturnType DEF Block
<1>3. OpenedAlone'
  BY <1>6 DEF OpenedAlone
<1>4. AckedStored'
  BY <1>5, <1>6 DEF AckedStored, Stored
<1> QED BY <1>1, <1>2, <1>3, <1>4 DEF TypeInv

\* A container that a process opens, seen as it then is: whoever had it open
\* before shares it with the process now.
LEMMA OpenKeeps ==
  ASSUME StoreInv, NEW c \in Clients, pc[c] \in {"create", "open"},
         NEW v, v = hdus'[call[c].file], v \in SUBSET HDUs, Opened(c, v),
         call[c].file \in DOMAIN hdus', DOMAIN hdus \subseteq DOMAIN hdus',
         DOMAIN hdus' \subseteq Files, hdus' \in [DOMAIN hdus' -> SUBSET HDUs],
         \A f \in DOMAIN hdus : hdus'[f] = hdus[f],
         UNCHANGED <<libVars, sends, ioctls, failures, since>>
  PROVE  StoreInv'
<1> USE DEF StoreInv
<1>0. /\ \A d \in Clients \ {c} : pc'[d] = pc[d] /\ view'[d] = view[d]
      /\ pc'[c] = "write" /\ view'[c] = v /\ call' = call /\ clash \subseteq clash'
      /\ \A d \in Clients \ {c} : pc[d] = "write" /\ call[d].file = call[c].file =>
           Block(c) \in clash' /\ Block(d) \in clash'
      /\ \A d \in Clients : Block(d)' = Block(d)
  BY DEF Opened, Others, Block, TypeInv, TypeOK
<1>1. TypeOK'
  <2>1. \A d \in Others(c) \cup {c} : Block(d) \in Blocks
    BY CallType DEF Others
  <2>2. clash' \subseteq Blocks
    BY <2>1 DEF Opened, TypeInv, TypeOK
  <2> QED BY <2>2, CallType DEF Opened, TypeInv, TypeOK, libVars
<1>2. InSend'
  BY <1>0 DEF TypeInv, InSend
<1>3. OpenedAlone'
  <2> SUFFICES ASSUME NEW d \in Clients, pc'[d] = "write", Block(d)' \notin clash'
               PROVE  /\ view'[d] = hdus'[call'[d].file]
                      /\ \A x \in Clients \ {d} : pc'[x] = "write" => call'[x].file # call'[d].file
    BY DEF OpenedAlone
  <2>1. CASE d = c
    BY <1>0, <2>1
  <2>2. CASE d # c
    <3>1. pc[d] = "write" /\ Block(d) \notin clash /\ call[d].file # call[c].file
      BY <1>0, <2>2
    <3>2. call[d].file \in DOMAIN hdus
      BY <3>1 DEF TypeInv, InSend
    <3> QED BY <1>0, <2>2, <3>1, <3>2 DEF OpenedAlone
  <2> QED BY <2>1, <2>2
<1>4. ASSUME NEW a \in acked PROVE Stored(a)' /\ (a[2] = "PIXELS" => a[4] = "whole")
  <2>1. Stored(a) /\ (a[2] = "PIXELS" => a[4] = "whole")
    BY DEF AckedStored
  <2>2. a[3] \in DOMAIN hdus' /\ hdus'[a[3]] = hdus[a[3]]
    BY <2>1 DEF Stored
  <2>3. ASSUME a[2] # "OTHER", a[1] \notin clash', NEW d \in Clients, pc'[d] = "write",
               call'[d].file = a[3]
        PROVE  <<a[1], a[4]>> \in view'[d]
    <3>1. CASE d = c
      BY <1>0, <2>1, <2>2, <2>3, <3>1 DEF Stored
    <3>2. CASE d # c
      BY <1>0, <2>1, <2>3, <3>2 DEF Stored
    <3> QED BY <3>1, <3>2
  <2> QED BY <1>0, <2>1, <2>2, <2>3 DEF Stored
<1>5. AckedStored'
  BY <1>4 DEF Opened, AckedStored
<1> QED BY <1>1, <1>2, <1>3, <1>5 DEF TypeInv

------------------------------------------------------------------------------
(* The invariants are inductive *)

\* They hold before the first call.
LEMMA InitFitsInv == Init => StoreInv /\ SinceCurrent
<1> SUFFICES ASSUME Init PROVE StoreInv /\ SinceCurrent
  OBVIOUS
<1>1. TypeOK
  BY FitsAssumption DEF Init, TypeOK, Calls
<1>2. InSend /\ OpenedAlone /\ AckedStored /\ SinceCurrent
  BY DEF Init, InSend, OpenedAlone, AckedStored, Stored, Block, SinceCurrent
<1> QED BY <1>1, <1>2 DEF StoreInv, TypeInv

\* Every call of every client keeps the containers' invariant.
LEMMA NextStoreInv == StoreInv /\ [Next]_vars => StoreInv'
<1> SUFFICES ASSUME StoreInv, [Next]_vars PROVE StoreInv'
  OBVIOUS
<1> USE FitsAssumption
<1>1. CASE UNCHANGED vars
  BY <1>1 DEF vars, libVars, histVars, StoreInv, TypeInv, TypeOK, InSend, OpenedAlone,
              AckedStored, Stored, Block
<1>2. ASSUME NEW c \in Clients, dhsUtil_rejects(c) \/ ClearStatus(c) PROVE StoreInv'
  <2>1. TypeOK' /\ InSend'
    BY <1>2 DEF dhsUtil_rejects, ClearStatus, SetStatus, libVars, histVars, StoreInv, TypeInv,
                TypeOK, InSend
  <2>2. UNCHANGED <<pc, call, view, hdus, acked, clash>>
    BY <1>2 DEF dhsUtil_rejects, ClearStatus, histVars
  <2> QED BY <2>1, <2>2 DEF StoreInv, TypeInv, OpenedAlone, AckedStored, Stored, Block
<1>3. ASSUME NEW c \in Clients,
             dhsUtilIOCtl_SETFILENAME(c) \/ dhsUtilIOCtl_SETDIR(c) PROVE StoreInv'
  <2>1. TypeOK'
    BY <1>3 DEF dhsUtilIOCtl_SETFILENAME, dhsUtilIOCtl_SETDIR, NamingIOCtl, FlagAfter,
                StoreInv, TypeInv, TypeOK
  <2> QED BY <1>3, <2>1 DEF dhsUtilIOCtl_SETFILENAME, dhsUtilIOCtl_SETDIR, NamingIOCtl,
             StoreInv, TypeInv, InSend, OpenedAlone, AckedStored, Stored, Block
<1>4. ASSUME NEW c \in Clients, Send_stat(c) PROVE StoreInv'
  <2>1. PICK k \in Kinds, e \in ExpIDs :
          /\ call' = [call EXCEPT ![c] = [kind |-> k, exp |-> e, num |-> sends[c] + 1,
                                         file |-> fitsFile(c, k, e)]]
          /\ pc' = [pc EXCEPT ![c] = IF fitsFile(c, k, e) \in DOMAIN hdus THEN "open"
                                    ELSE "create"]
          /\ since' = [since EXCEPT ![c] = @ \cup {<<e, k, fitsFile(c, k, e)>>}]
    BY <1>4 DEF Send_stat
  <2>2. fitsFile(c, k, e) \in Files
    BY FileType DEF StoreInv, TypeInv
  <2>3. sends[c] + 1 \in 1..MaxSends
    BY <1>4 DEF Send_stat, StoreInv, TypeInv, TypeOK
  <2>4. TypeOK'
    <3>1. call' \in [Clients -> Calls] /\ since' \in [Clients -> SUBSET (ExpIDs \X Kinds \X Files)]
      BY <2>1, <2>2, <2>3 DEF StoreInv, TypeInv, TypeOK, Calls
    <3>2. pc' \in [Clients -> {"idle", "create", "open", "write", "dead"}]
          /\ sends' \in [Clients -> 0..MaxSends]
      BY <1>4, <2>1, <2>3 DEF Send_stat, StoreInv, TypeInv, TypeOK
    <3>3. flag' \in [Clients -> 0..3] /\ dir' \in [Clients -> UserDirs \cup {EnvDir, Unset}]
      BY <1>4 DEF Send_stat, SettleDirectory, StoreInv, TypeInv, TypeOK
    <3> QED BY <1>4, <3>1, <3>2, <3>3 DEF Send_stat, StoreInv, TypeInv, TypeOK
  <2>5. InSend'
    BY <1>4, <2>1 DEF Send_stat, NoCall, StoreInv, TypeInv, TypeOK, InSend
  <2>6. \A d \in Clients : pc'[d] = "write" => pc[d] = "write" /\ call'[d] = call[d]
    BY <1>4, <2>1 DEF Send_stat, Entered, StoreInv, TypeInv, TypeOK
  <2>7. OpenedAlone' /\ AckedStored'
    BY <1>4, <2>6 DEF Send_stat, StoreInv, OpenedAlone, AckedStored, Stored, Block
  <2> QED BY <2>4, <2>5, <2>7 DEF StoreInv, TypeInv
<1>5. ASSUME NEW c \in Clients, Send_defaultDirectory(c) PROVE StoreInv'
  BY <1>5 DEF Send_defaultDirectory, libVars, histVars, StoreInv, TypeInv,
              TypeOK, InSend, OpenedAlone, AckedStored, Stored, Block
<1>6. ASSUME NEW c \in Clients, Send_create(c) PROVE StoreInv'
  <2>1. call[c].file \in Files /\ pc[c] = "create"
    BY <1>6, CallType DEF Send_create, StoreInv
  <2>2. CASE /\ call[c].file \notin DOMAIN hdus /\ Opened(c, {}) /\ UNCHANGED failures
             /\ hdus' = [f \in DOMAIN hdus \cup {call[c].file} |->
                           IF f = call[c].file THEN {} ELSE hdus[f]]
    <3>1. /\ hdus' \in [DOMAIN hdus' -> SUBSET HDUs] /\ DOMAIN hdus' \subseteq Files
          /\ hdus'[call[c].file] = {} /\ call[c].file \in DOMAIN hdus'
          /\ DOMAIN hdus \subseteq DOMAIN hdus' /\ \A f \in DOMAIN hdus : hdus'[f] = hdus[f]
      BY <2>1, <2>2 DEF StoreInv, TypeInv, TypeOK
    <3>2. UNCHANGED <<libVars, sends, ioctls, failures, since>>
      BY <1>6, <2>2 DEF Send_create
    <3>3. {} = hdus'[call[c].file] /\ {} \in SUBSET HDUs /\ Opened(c, {})
      BY <2>2, <3>1
    <3> HIDE <2>2
    <3> QED BY <2>1, <3>1, <3>2, <3>3, OpenKeeps
  <2>3. CASE ReturnError(c) /\ UNCHANGED <<hdus, clash>> /\ (Fails \/ UNCHANGED failures)
    <3>1. failures' \in 0..MaxFailures
      BY <2>3 DEF Fails, StoreInv, TypeInv, TypeOK
    <3> QED BY <1>6, <2>1, <2>3, <3>1, RefusedKeeps DEF Send_create
  <2> QED BY <1>6, <2>2, <2>3 DEF Send_create
<1>7. ASSUME NEW c \in Clients, Send_ffopen(c) PROVE StoreInv'
  <2>1. pc[c] = "open" /\ call[c].file \in DOMAIN hdus
    BY <1>7 DEF Send_ffopen, StoreInv, TypeInv, InSend
  <2>2. CASE Opened(c, hdus[call[c].file]) /\ UNCHANGED failures
    BY <1>7, <2>1, <2>2, OpenKeeps DEF Send_ffopen, StoreInv, TypeInv, TypeOK
  <2>3. CASE ReturnError(c) /\ UNCHANGED clash /\ (Fails \/ UNCHANGED failures)
    <3>1. failures' \in 0..MaxFailures
      BY <2>3 DEF Fails, StoreInv, TypeInv, TypeOK
    <3> QED BY <1>7, <2>1, <2>3, <3>1, RefusedKeeps DEF Send_ffopen
  <2> QED BY <1>7, <2>2, <2>3 DEF Send_ffopen
<1>8. ASSUME NEW c \in Clients, pc[c] = "write"
      PROVE  /\ <<Block(c), "part">> \in HDUs /\ <<Block(c), "whole">> \in HDUs
             /\ Fails => failures' \in 0..MaxFailures
             /\ UNCHANGED failures => failures' \in 0..MaxFailures
  BY <1>8, CallType DEF HDUs, Fails, StoreInv, TypeInv, TypeOK
<1>9. ASSUME NEW c \in Clients, Send_write(c) PROVE StoreInv'
  <2> DEFINE new == IF call[c].kind = "OTHER" THEN {} ELSE {<<Block(c), "whole">>}
  <2>1. pc[c] = "write" /\ new \in SUBSET HDUs
    BY <1>8, <1>9 DEF Send_write
  <2>2. call[c].kind # "OTHER" => <<Block(c), "whole">> \in new
    OBVIOUS
  <2>3. hdus' = Flushed(c, new)
    BY <1>9 DEF Send_write
  <2> HIDE DEF new
  <2> QED BY <1>8, <1>9, <2>1, <2>2, <2>3, WriteKeeps DEF Send_write
<1>10. ASSUME NEW c \in Clients, dhsUtilSendPixelData_fails(c) PROVE StoreInv'
  <2>1. PICK new \in {{}, {<<Block(c), "part">>}, {<<Block(c), "whole">>}} : hdus' = Flushed(c, new)
    BY <1>10 DEF dhsUtilSendPixelData_fails
  <2>2. pc[c] = "write" /\ new \in SUBSET HDUs
    BY <1>8, <1>10 DEF dhsUtilSendPixelData_fails
  <2> QED BY <1>8, <1>10, <2>1, <2>2, WriteKeeps DEF dhsUtilSendPixelData_fails
<1>11. ASSUME NEW c \in Clients, dhsUtilSendMetaData_dropsRecord(c) PROVE StoreInv'
  <2>1. pc[c] = "write" /\ {<<Block(c), "part">>} \in SUBSET HDUs /\ call[c].kind # "PIXELS"
    BY <1>8, <1>11 DEF dhsUtilSendMetaData_dropsRecord
  <2> QED BY <1>8, <1>11, <2>1, WriteKeeps DEF dhsUtilSendMetaData_dropsRecord
<1>12. ASSUME NEW c \in Clients, dhsUtilSendMetaData_fails(c) PROVE StoreInv'
  <2>1. PICK some \in {{}, {<<Block(c), "part">>}, {<<Block(c), "whole">>}} :
          hdus' = Flushed(c, IF call[c].kind = "OTHER" THEN {} ELSE some)
    BY <1>12 DEF dhsUtilSendMetaData_fails
  <2> DEFINE new == IF call[c].kind = "OTHER" THEN {} ELSE some
  <2>2. pc[c] = "write" /\ new \in SUBSET HDUs
    BY <1>8, <1>12 DEF dhsUtilSendMetaData_fails
  <2> HIDE DEF new
  <2> QED BY <1>8, <1>12, <2>1, <2>2, WriteKeeps DEF dhsUtilSendMetaData_fails, new
<1> QED
  BY <1>1, <1>2, <1>3, <1>4, <1>5, <1>6, <1>7, <1>9, <1>10, <1>11, <1>12 DEF Next

\* The naming state of a client keeps naming the containers it used: a change
\* forgets them, and settling the default directory names the same one.
LEMMA NextSinceCurrent ==
  TypeInv /\ SinceCurrent /\ [Next]_vars => SinceCurrent'
<1> SUFFICES ASSUME TypeInv, SinceCurrent, [Next]_vars PROVE SinceCurrent'
  OBVIOUS
<1>1. CASE UNCHANGED <<libVars, since>>
  BY <1>1 DEF libVars, SinceCurrent, fitsFile
<1>2. ASSUME NEW c \in Clients, dhsUtilIOCtl_SETFILENAME(c) \/ dhsUtilIOCtl_SETDIR(c)
      PROVE  SinceCurrent'
  <2>1. since' = [since EXCEPT ![c] = {}] /\ since'[c] = {}
    BY <1>2 DEF dhsUtilIOCtl_SETFILENAME, dhsUtilIOCtl_SETDIR, NamingIOCtl, TypeInv, TypeOK
  <2>2. \A d \in Clients \ {c} : /\ flag'[d] = flag[d] /\ dir'[d] = dir[d]
                                 /\ name'[d] = name[d] /\ since'[d] = since[d]
    BY <1>2, <2>1 DEF dhsUtilIOCtl_SETFILENAME, dhsUtilIOCtl_SETDIR, TypeInv, TypeOK
  <2> QED BY <2>1, <2>2 DEF SinceCurrent, fitsFile
<1>3. ASSUME NEW c \in Clients, Send_stat(c) PROVE SinceCurrent'
  <2>1. PICK k \in Kinds, e \in ExpIDs :
          since' = [since EXCEPT ![c] = @ \cup {<<e, k, fitsFile(c, k, e)>>}]
    BY <1>3 DEF Send_stat
  <2>2. /\ name' = name
        /\ \A d \in Clients \ {c} : flag'[d] = flag[d] /\ dir'[d] = dir[d] /\ since'[d] = since[d]
    BY <1>3, <2>1 DEF Send_stat, SettleDirectory, TypeInv, TypeOK
  <2>3. /\ flag[c] = 1 => flag'[c] = 3 /\ dir'[c] = EnvDir
        /\ flag[c] # 1 => flag'[c] = flag[c] /\ dir'[c] = dir[c]
    BY <1>3 DEF Send_stat, SettleDirectory, TypeInv, TypeOK
  <2>4. \A q \in Kinds, x \in ExpIDs : fitsFile(c, q, x)' = fitsFile(c, q, x)
    BY <2>2, <2>3 DEF fitsFile
  <2>5. \A x \in since[c] : x[1] \in ExpIDs /\ x[2] \in Kinds
    BY DEF TypeInv, TypeOK
  <2>6. since'[c] = since[c] \cup {<<e, k, fitsFile(c, k, e)>>}
    BY <2>1 DEF TypeInv, TypeOK
  <2>7. \A x \in since'[c] : x[3] = fitsFile(c, x[2], x[1])'
    BY <2>4, <2>5, <2>6 DEF SinceCurrent
  <2>8. \A d \in Clients \ {c} : \A q, x : fitsFile(d, q, x)' = fitsFile(d, q, x)
    BY <2>2 DEF fitsFile
  <2> QED BY <2>2, <2>3, <2>7, <2>8 DEF SinceCurrent
<1> QED
  BY <1>1, <1>2, <1>3
  DEF Next, vars, histVars, dhsUtil_rejects, ClearStatus, Send_defaultDirectory, Send_create,
      Send_ffopen, Send_write, dhsUtilSendPixelData_fails, dhsUtilSendMetaData_dropsRecord,
      dhsUtilSendMetaData_fails

\* Both invariants hold in every reachable state.
LEMMA FitsInvHolds == Spec => [](StoreInv /\ SinceCurrent)
<1>1. StoreInv /\ SinceCurrent /\ [Next]_vars => (StoreInv /\ SinceCurrent)'
  BY NextStoreInv, NextSinceCurrent DEF StoreInv
<1> QED BY <1>1, InitFitsInv, PTL DEF Spec

------------------------------------------------------------------------------
(* What follows *)

\* An image that was acknowledged stays complete in its container, unless
\* another process had the container open during its send.
THEOREM AckedImagesStay == Spec => []PixelAckedIsStored
<1>1. StoreInv => PixelAckedIsStored
  <2> SUFFICES ASSUME StoreInv, NEW a \in acked, a[2] = "PIXELS", a[1] \notin clash
               PROVE  <<a[1], "whole">> \in hdus[a[3]]
    BY DEF PixelAckedIsStored
  <2>1. Stored(a) /\ a[4] = "whole"
    BY DEF StoreInv, AckedStored
  <2> QED BY <2>1 DEF Stored
<1> QED BY <1>1, FitsInvHolds, PTL

\* Acknowledged metadata stays too, whole but for what cfitsio refused of it.
THEOREM AckedMetadataStays == Spec => []MetadataAckedIsStored
<1>1. StoreInv => MetadataAckedIsStored
  <2> SUFFICES ASSUME StoreInv, NEW a \in acked, a[2] \in {"FITSHEADER", "AVPAIR"},
                      a[1] \notin clash
               PROVE  <<a[1], a[4]>> \in hdus[a[3]]
    BY DEF MetadataAckedIsStored
  <2>1. Stored(a)
    BY DEF StoreInv, AckedStored
  <2> QED BY <2>1 DEF Stored
<1> QED BY <1>1, FitsInvHolds, PTL

\* What one exposure sends goes to one container until the client renames it,
\* but for padded identifiers under a directory alone; and every variable keeps
\* its type.
THEOREM ExposureHasOneContainer == Spec => []ExposuresKeptTogether
<1>1. StoreInv /\ SinceCurrent => TypeOK
  BY DEF StoreInv, TypeInv
<1>2. StoreInv /\ SinceCurrent => SameExposureSameFile
  <2> SUFFICES ASSUME TypeOK, SinceCurrent,
                      NEW c \in Clients, NEW x \in since[c], NEW y \in since[c],
                      x[1] = y[1], x[3] # y[3]
               PROVE  /\ x[1] \in ShortIDs /\ flag[c] = 2
                      /\ {"PIXELS"} \subseteq {x[2], y[2]} /\ x[2] # y[2]
    BY <1>1 DEF SameExposureSameFile
  <2>1. fitsFile(c, x[2], x[1]) # fitsFile(c, y[2], x[1])
    BY DEF SinceCurrent
  <2>2. flag[c] = 2 /\ (x[2] = "PIXELS" <=> y[2] # "PIXELS") /\ Plain(x[1]) # Padded(x[1])
    BY <2>1 DEF fitsFile
  <2> QED BY <2>2 DEF Padded
<1> QED BY <1>1, <1>2, FitsInvHolds, PTL DEF ExposuresKeptTogether

=============================================================================
