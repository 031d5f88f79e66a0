------------------------------ MODULE DhsFits ------------------------------
(***************************************************************************)
(* The FITS implementation of the DHS interface (dhsLibraries/_fits): each *)
(* client process links its own copy of the library, with its own global   *)
(* naming state (dhsUtilFLAG, dhsUtilDIR, dhsUtilFILENAME) and its own     *)
(* inherited status, and all of them write FITS container files in a       *)
(* shared file system.                                                     *)
(*                                                                         *)
(* A call that only checks arguments and sets the status is one step.  A   *)
(* send is several: it picks the file name and stats it, creates or opens  *)
(* the container, and appends its data and closes the container; the sends *)
(* of different processes interleave between these.                        *)
(*                                                                         *)
(* cfitsio is modelled from its use here.  A container opened by a process *)
(* is its own view of the file: what it appends goes behind what it saw    *)
(* when it opened the file, and over what another process appended since.  *)
(***************************************************************************)
EXTENDS Naturals, FiniteSets

CONSTANTS
  Clients,      \* client processes
  EnvClients,   \* the ones with MONSOON_DATA in their environment
  ExpIDs,       \* exposure identifiers
  ShortIDs,     \* the ones printed differently by %014.6f and by %f
  UserNames,    \* names given to DHS_IOC_SETFILENAME
  UserDirs,     \* directories given to DHS_IOC_SETDIR
  EnvDir,       \* the directory MONSOON_DATA names
  Unset,        \* the empty string the name and directory buffers start with
  MaxSends,     \* bound: sends per client
  MaxIOCtls,    \* bound: naming IOCtls per client
  MaxFailures   \* bound: cfitsio calls that fail

ASSUME FitsAssumption ==
  /\ EnvClients \subseteq Clients
  /\ ShortIDs \subseteq ExpIDs
  /\ Unset \notin UserNames \cup UserDirs \cup {EnvDir}
  /\ EnvDir \notin UserDirs
  /\ MaxSends \in Nat /\ MaxIOCtls \in Nat /\ MaxFailures \in Nat

\* What a block of data is: FITS header records, an AV-pair table, one of the
\* metadata types that are not implemented, or an image.
MetaTypes == {"FITSHEADER", "AVPAIR", "OTHER"}
Kinds == MetaTypes \cup {"PIXELS"}

\* A send, named by the process and its number.
Blocks == Clients \X (1..MaxSends)

\* Base names: one the user chose, or the exposure identifier as printed.
UserBase(n) == <<"user", n>>
Plain(e) == <<"plain", e>>                                     \* "%f"
Padded(e) == IF e \in ShortIDs THEN <<"padded", e>> ELSE Plain(e)  \* "%014.6f"
Bases == {UserBase(n) : n \in UserNames \cup {Unset}}
         \cup {Plain(e) : e \in ExpIDs} \cup {Padded(e) : e \in ExpIDs}
Files == (UserDirs \cup {EnvDir, Unset}) \X Bases

VARIABLES
  istat,     \* the inherited status of each client: "ok" (DHS_OK) or "bad"
  flag,      \* dhsUtilFLAG
  dir,       \* dhsUtilDIR
  name,      \* dhsUtilFILENAME
  pc,        \* where each client is in its current send
  call,      \* the send: its kind, exposure, number and file
  view,      \* what the opened container held when it was opened
  hdus,      \* hdus[f]: blocks in container f; an absent file is not in the domain
  sends, ioctls, failures,
  acked,     \* sends that returned with a good status: block, kind, file, and "part"
             \* when cfitsio refused a record of it
  clash,     \* sends that shared their container: another process had it open meanwhile
  since      \* where each client's sends went since it last named its file

libVars == <<flag, dir, name>>
histVars == <<acked, clash, since>>
vars == <<istat, libVars, pc, call, view, hdus, sends, ioctls, failures, histVars>>

NoCall == [kind |-> "none"]

Init ==
  /\ istat = [c \in Clients |-> "ok"]
  /\ flag = [c \in Clients |-> 0]
  /\ dir = [c \in Clients |-> Unset]
  /\ name = [c \in Clients |-> Unset]
  /\ pc = [c \in Clients |-> "idle"]
  /\ call = [c \in Clients |-> NoCall]
  /\ view = [c \in Clients |-> {}]
  /\ hdus = [f \in {} |-> {}]
  /\ sends = [c \in Clients |-> 0]
  /\ ioctls = [c \in Clients |-> 0]
  /\ failures = 0
  /\ acked = {}
  /\ clash = {}
  /\ since = [c \in Clients |-> {}]

------------------------------------------------------------------------------
(* Every entry point returns at once when the inherited status is bad. *)

Entered(c) == pc[c] = "idle" /\ istat[c] = "ok"

SetStatus(c, s) == istat' = [istat EXCEPT ![c] = s]

\* A NULL pointer, a negative handle, too many fields, a bad whoami or an
\* unknown ioctl: the status goes bad and nothing else happens.  The calls that
\* open, close or read (SysOpen, OpenConnect, OpenExp, ...) do nothing but these
\* checks and hand out a constant handle.
dhsUtil_rejects(c) ==
  /\ Entered(c)
  /\ SetStatus(c, "bad")
  /\ UNCHANGED <<libVars, pc, call, view, hdus, sends, ioctls, failures, histVars>>

\* The client puts the status right again, as dhsTcl.c does before each call.
ClearStatus(c) ==
  /\ pc[c] = "idle" /\ istat[c] = "bad"
  /\ SetStatus(c, "ok")
  /\ UNCHANGED <<libVars, pc, call, view, hdus, sends, ioctls, failures, histVars>>

------------------------------------------------------------------------------
(* dhsUtilIOCtl *)

NamingIOCtl(c) ==
  /\ Entered(c)
  /\ ioctls[c] < MaxIOCtls
  /\ ioctls' = [ioctls EXCEPT ![c] = @ + 1]
  /\ since' = [since EXCEPT ![c] = {}]
  /\ UNCHANGED <<istat, pc, call, view, hdus, sends, failures, acked, clash>>

\* dhsUtilFLAG once a name (alone = 1) or a directory (alone = 2) is set.
FlagAfter(f, alone) == IF f > 0 THEN 3 ELSE alone

dhsUtilIOCtl_SETFILENAME(c) ==
  /\ NamingIOCtl(c)
  /\ \E n \in UserNames : name' = [name EXCEPT ![c] = n]
  /\ flag' = [flag EXCEPT ![c] = FlagAfter(@, 1)]
  /\ UNCHANGED dir

dhsUtilIOCtl_SETDIR(c) ==
  /\ NamingIOCtl(c)
  /\ \E d \in UserDirs : dir' = [dir EXCEPT ![c] = d]
  /\ flag' = [flag EXCEPT ![c] = FlagAfter(@, 2)]
  /\ UNCHANGED name

------------------------------------------------------------------------------
(* dhsUtilSendMetaData and dhsUtilSendPixelData *)

\* The container's name.  Metadata and pixels print the exposure identifier
\* differently when only the directory is set.
fitsFile(c, k, e) ==
  CASE flag[c] = 1 -> <<EnvDir, UserBase(name[c])>>
    [] flag[c] = 2 -> <<dir[c], IF k = "PIXELS" THEN Plain(e) ELSE Padded(e)>>
    [] flag[c] = 3 -> <<dir[c], UserBase(name[c])>>
    [] OTHER       -> <<EnvDir, Plain(e)>>

NeedsEnv(c) == flag[c] \in {0, 1}

\* With only a file name set, the default directory becomes the client's own.
SettleFlagOnly(c) ==                            \* mutant: the strncpy is missing
  /\ flag' = IF flag[c] = 1 THEN [flag EXCEPT ![c] = 3] ELSE flag
  /\ UNCHANGED dir
SettleDirectory(c) ==
  /\ flag' = IF flag[c] = 1 THEN [flag EXCEPT ![c] = 3] ELSE flag
  /\ dir' = IF flag[c] = 1 THEN [dir EXCEPT ![c] = EnvDir] ELSE dir

\* The name is made (which settles directory and flag when only the file name
\* was set) and the file is looked up.  An empty block of metadata returns
\* before this with a good status.
Send_stat(c) ==
  /\ Entered(c)
  /\ sends[c] < MaxSends
  /\ NeedsEnv(c) => c \in EnvClients
  /\ \E k \in Kinds, e \in ExpIDs :
       LET f == fitsFile(c, k, e) IN
       /\ call' = [call EXCEPT ![c] = [kind |-> k, exp |-> e, num |-> sends[c] + 1, file |-> f]]
       /\ pc' = [pc EXCEPT ![c] = IF f \in DOMAIN hdus THEN "open" ELSE "create"]
       /\ since' = [since EXCEPT ![c] = @ \cup {<<e, k, f>>}]
  /\ sends' = [sends EXCEPT ![c] = @ + 1]
  /\ SettleDirectory(c)
  /\ UNCHANGED <<istat, name, view, hdus, ioctls, failures, acked, clash>>

\* Without MONSOON_DATA the default is the string literal "./", whose trailing
\* slash the code then overwrites: the process dies.
Send_defaultDirectory(c) ==
  /\ Entered(c)
  /\ sends[c] < MaxSends
  /\ NeedsEnv(c) /\ c \notin EnvClients
  /\ pc' = [pc EXCEPT ![c] = "dead"]
  /\ UNCHANGED <<istat, libVars, call, view, hdus, sends, ioctls, failures, histVars>>

Block(c) == <<c, call[c].num>>

Fails == failures < MaxFailures /\ failures' = failures + 1

\* The call returns.  Its block counts as acknowledged when the status is good.
Ends(c, s) ==
  /\ pc' = [pc EXCEPT ![c] = "idle"]
  /\ SetStatus(c, s)
  /\ call' = [call EXCEPT ![c] = NoCall]
  /\ view' = [view EXCEPT ![c] = {}]
Return(c, how) ==
  /\ Ends(c, "ok")
  /\ acked' = acked \cup {<<Block(c), call[c].kind, call[c].file, how>>}
ReturnError(c) == Ends(c, "bad") /\ UNCHANGED acked

OpenedTruncated(c, v) ==                       \* mutant: what is there is lost
  /\ pc' = [pc EXCEPT ![c] = "write"]
  /\ UNCHANGED <<istat, call, acked, clash, view>>
\* The processes that have the container of c open already.
Others(c) == {d \in Clients \ {c} : pc[d] = "write" /\ call[d].file = call[c].file}

\* The container is open, seen as it is now.
Opened(c, v) ==
  /\ pc' = [pc EXCEPT ![c] = "write"]
  /\ view' = [view EXCEPT ![c] = v]
  /\ clash' = clash \cup (IF Others(c) = {} THEN {} ELSE {Block(d) : d \in Others(c) \cup {c}})
  /\ UNCHANGED <<istat, call, acked>>

\* fits_create_file fails on a file that exists by now.
Send_create(c) ==
  /\ pc[c] = "create"
  /\ \/ /\ call[c].file \notin DOMAIN hdus
        /\ hdus' = [f \in DOMAIN hdus \cup {call[c].file} |->
                      IF f = call[c].file THEN {} ELSE hdus[f]]
        /\ Opened(c, {})
        /\ UNCHANGED failures
     \/ /\ call[c].file \in DOMAIN hdus
        /\ ReturnError(c)
        /\ UNCHANGED <<hdus, failures, clash>>
     \/ /\ Fails
        /\ ReturnError(c)
        /\ UNCHANGED <<hdus, clash>>
  /\ UNCHANGED <<libVars, sends, ioctls, since>>

\* A container without an HDU, created and not yet (or never) written, is no
\* FITS file to ffopen.
Send_ffopen(c) ==
  /\ pc[c] = "open"
  /\ LET content == hdus[call[c].file] IN
     \/ content # {} /\ Opened(c, content) /\ UNCHANGED failures
     \/ content = {} /\ ReturnError(c) /\ UNCHANGED <<failures, clash>>
     \/ Fails /\ ReturnError(c) /\ UNCHANGED clash
  /\ UNCHANGED <<libVars, hdus, sends, ioctls, since>>

\* What is in the container once this process has written its view and, after
\* it, what it appended.
Flushed(c, new) == [hdus EXCEPT ![call[c].file] = view[c] \cup new]

\* The data is written and the container closed.
Send_write(c) ==
  /\ pc[c] = "write"
  /\ Return(c, "whole")
  /\ hdus' = Flushed(c, IF call[c].kind = "OTHER" THEN {} ELSE {<<Block(c), "whole">>})
  /\ UNCHANGED <<libVars, sends, ioctls, failures, clash, since>>

\* fits_create_img or fits_write_img fails, or the final close does: the
\* status goes bad whatever reached the file.
dhsUtilSendPixelData_fails(c) ==
  /\ pc[c] = "write" /\ call[c].kind = "PIXELS"
  /\ Fails
  /\ ReturnError(c)
  /\ \E new \in {{}, {<<Block(c), "part">>}, {<<Block(c), "whole">>}} : hdus' = Flushed(c, new)
  /\ UNCHANGED <<libVars, sends, ioctls, clash, since>>

\* ffprec fails: the status is set to DHS_OK and the loop goes on (cfitsio skips
\* the records that follow).  A failed write of an AV pair's comment (write3)
\* ends the loop and leaves the status good.
dhsUtilSendMetaData_dropsRecord(c) ==
  /\ pc[c] = "write" /\ call[c].kind \in {"FITSHEADER", "AVPAIR"}
  /\ Fails
  /\ Return(c, "part")
  /\ hdus' = Flushed(c, {<<Block(c), "part">>})
  /\ UNCHANGED <<libVars, sends, ioctls, clash, since>>

\* Creating the table or writing a name or a value (write1, write2) fails, or
\* the final close does, whatever was written before.
FailureForgotten(c) ==                         \* mutant: the status is not set here either
  /\ pc[c] = "write" /\ call[c].kind \in MetaTypes
  /\ Fails
  /\ Return(c, "whole")
  /\ hdus' = Flushed(c, {})
  /\ UNCHANGED <<libVars, sends, ioctls, clash, since>>
dhsUtilSendMetaData_fails(c) ==
  /\ pc[c] = "write" /\ call[c].kind \in MetaTypes
  /\ Fails
  /\ ReturnError(c)
  /\ \E new \in {{}, {<<Block(c), "part">>}, {<<Block(c), "whole">>}} :
       hdus' = Flushed(c, IF call[c].kind = "OTHER" THEN {} ELSE new)
  /\ UNCHANGED <<libVars, sends, ioctls, clash, since>>

------------------------------------------------------------------------------
Next == \E c \in Clients :
  \/ dhsUtil_rejects(c) \/ ClearStatus(c)
  \/ dhsUtilIOCtl_SETFILENAME(c) \/ dhsUtilIOCtl_SETDIR(c)
  \/ Send_stat(c) \/ Send_defaultDirectory(c) \/ Send_create(c) \/ Send_ffopen(c)
  \/ Send_write(c) \/ dhsUtilSendPixelData_fails(c)
  \/ dhsUtilSendMetaData_dropsRecord(c) \/ dhsUtilSendMetaData_fails(c)

Spec == Init /\ [][Next]_vars

------------------------------------------------------------------------------
(* Properties *)

Calls == {NoCall} \cup [kind : Kinds, exp : ExpIDs, num : 1..MaxSends, file : Files]
HDUs == Blocks \X {"part", "whole"}

\* Type correctness of the whole state.
TypeOK ==
  /\ istat \in [Clients -> {"ok", "bad"}]
  /\ flag \in [Clients -> 0..3]
  /\ dir \in [Clients -> UserDirs \cup {EnvDir, Unset}]
  /\ name \in [Clients -> UserNames \cup {Unset}]
  /\ pc \in [Clients -> {"idle", "create", "open", "write", "dead"}]
  /\ call \in [Clients -> Calls]
  /\ view \in [Clients -> SUBSET HDUs]
  /\ DOMAIN hdus \subseteq Files /\ hdus \in [DOMAIN hdus -> SUBSET HDUs]
  /\ sends \in [Clients -> 0..MaxSends]
  /\ ioctls \in [Clients -> 0..MaxIOCtls]
  /\ failures \in 0..MaxFailures
  /\ acked \subseteq Blocks \X Kinds \X Files \X {"part", "whole"}
  /\ clash \subseteq Blocks
  /\ since \in [Clients -> SUBSET (ExpIDs \X Kinds \X Files)]

\* An image whose dhsUtilSendPixelData returned a good status is complete in
\* its container for good, unless another process had the container open during
\* that very send: later sends, whoever shares the container then, the racing
\* creation of the same container and failed writes all leave it there.
PixelAckedIsStored ==
  \A a \in acked : a[2] = "PIXELS" /\ a[1] \notin clash => <<a[1], "whole">> \in hdus[a[3]]

\* Acknowledged metadata is in its container too, and whole but for the records
\* that cfitsio refused while the call went on: no failed table, value or close
\* is ever acknowledged.
MetadataAckedIsStored ==
  \A a \in acked : a[2] \in {"FITSHEADER", "AVPAIR"} /\ a[1] \notin clash =>
    <<a[1], a[4]>> \in hdus[a[3]]

\* Metadata and images of one exposure end up in one container as long as the
\* client does not rename it, also across the send that settles the default
\* directory.  Identifiers that "%014.6f" pads are the exception, and only
\* between metadata and images and when only the directory was given.
SameExposureSameFile ==
  \A c \in Clients : \A x, y \in since[c] :
    x[1] = y[1] /\ x[3] # y[3] =>
      /\ x[1] \in ShortIDs /\ flag[c] = 2
      /\ {"PIXELS"} \subseteq {x[2], y[2]} /\ x[2] # y[2]

\* Where a block goes: SameExposureSameFile, in type-correct states.
ExposuresKeptTogether == TypeOK /\ SameExposureSameFile
=============================================================================
