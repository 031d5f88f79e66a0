------------------------------- MODULE DhsTcl -------------------------------
(***************************************************************************)
(* The Tcl package of the DHS interface (dhsTcl.c) over the three          *)
(* libraries that implement it (dhsLibraries/_fits, _noao, _null).  A      *)
(* script is run against the three at once, command by command with the    *)
(* same arguments, each in an interpreter of its own: what the script sees *)
(* can then be compared.                                                   *)
(*                                                                         *)
(* This module is about the status protocol: the inherited status, which   *)
(* dhsTcl.c keeps in the static dhsLstat, the checks of each entry point,  *)
(* the handles and what the script is told.  What a send does to the       *)
(* container files is module DhsFits; a send here only has an answer, any  *)
(* answer when the file system fails.  The commands have the words their   *)
(* Use lines ask for, and MONSOON_DATA is set (DhsFits has the case where  *)
(* it is not); dhs::help, which only prints, is left out.                  *)
(***************************************************************************)
EXTENDS Integers

CONSTANTS
  Unassigned    \* the script has no dhsID yet

Libs == {"fits", "noao", "null"}

DHS_OK == 0
DHS_SIMULATION_OK == 2
DHS_ERROR == -1

STATUS_BAD(s) == s < 0

\* Systems that introduce themselves: the top-level ones and the others.
TopLevel == {"OCS", "MSL"}
Systems == TopLevel \cup {"PAN"}

\* What an exposure identifier and a block size are to the checks.
ExpIDs == {"positive", "zero"}
Sizes == {"empty", "some"}

\* IOCtls: one that all libraries ignore, the two naming ones, one nobody knows.
IOCtls == {"DEBUG_LVL", "SETFILENAME", "SETDIR", "unknown"}

VARIABLES
  alive,     \* alive[l]: the interpreter that loaded library l runs
  dhsLstat,  \* the static status of dhsTcl.c
  dhsID,     \* the script's handle
  result,    \* what the last command returned to the script
  last       \* the last command and its arguments

vars == <<alive, dhsLstat, dhsID, result, last>>

Args == [cmd : {"none", "SysOpen", "SysClose", "OpenConnect", "CloseConnect", "OpenExp",
                "CloseExp", "IOctl", "ReadImage", "PixelData", "MetaData"},
         parsed : BOOLEAN,          \* the words of the command are numbers and lists
         own : BOOLEAN,             \* the handle is the script's own, not a negative number
         who : Systems, exp : ExpIDs, ioctl : IOCtls, size : Sizes,
         disk : {"fine", "failing"}]

\* Arguments a command does not have.
Plain(c) == [cmd |-> c, parsed |-> TRUE, own |-> TRUE, who |-> "PAN", exp |-> "positive",
             ioctl |-> "DEBUG_LVL", size |-> "some", disk |-> "fine"]

Init ==
  /\ alive = [l \in Libs |-> TRUE]
  /\ dhsLstat = [l \in Libs |-> DHS_OK]
  /\ dhsID = [l \in Libs |-> Unassigned]
  /\ result = [l \in Libs |-> "none"]
  /\ last = Plain("none")

------------------------------------------------------------------------------
(* The entry points of the libraries: the status they leave, given the      *)
(* status they inherit.                                                     *)

Inherit(st, ok) == IF STATUS_BAD(st) THEN st ELSE IF ok THEN DHS_OK ELSE DHS_ERROR

Handle(l, a) == IF a.own THEN dhsID[l] ELSE -1

HandleTrue(l, a) == Handle(l, a) > 0                       \* mutant: 0 is no handle
GoodHandle(l, a) == Handle(l, a) >= 0

\* SysClose, CloseConnect, OpenExp and ReadImage check the handle alone.
OnlyHandle(st, l, a) == Inherit(st, GoodHandle(l, a))

\* dhsTcl.c always passes a handle of 0 to be filled in.
dhsUtilSysOpen(st, a) == Inherit(st, a.who \in TopLevel)

dhsUtilOpenConnect(st, a) == Inherit(st, a.who \notin TopLevel)

dhsUtilCloseExp(st, l, a) == Inherit(st, GoodHandle(l, a) /\ a.exp = "positive")

\* The _noao and _null libraries do not know SETDIR.
KnownIOCtls(l) == IOCtls \ IF l = "fits" THEN {"unknown"} ELSE {"unknown", "SETDIR"}

dhsUtilIOCtl(st, l, a) == Inherit(st, GoodHandle(l, a) /\ a.ioctl \in KnownIOCtls(l))

\* The _fits library copies the name its caller passes, and dhs::IOctl passes
\* NULL: the interpreter dies.
CopiesNull(st, l, a) ==
  /\ ~STATUS_BAD(st)
  /\ a.cmd = "IOctl" /\ a.ioctl \in {"SETFILENAME", "SETDIR"}
  /\ l = "fits" /\ GoodHandle(l, a)

\* Only _null looks at the exposure identifier of a send.
SendExpOK(l, a) == l = "null" => a.exp = "positive"

\* A send that gets past its checks to a failing disk returns either status:
\* metadata that cannot be written is reported good or bad, depending on the call.
Written(st, a) ==
  IF ~STATUS_BAD(st) /\ a.disk = "failing" THEN {DHS_OK, DHS_ERROR} ELSE {st}

\* An empty block of metadata is good and is not written.
dhsUtilSendMetaData(st, l, a) ==
  LET checked == Inherit(st, GoodHandle(l, a) /\ SendExpOK(l, a))
  IN  IF a.size = "empty" THEN {checked} ELSE Written(checked, a)

dhsUtilSendPixelData(st, l, a) ==
  Written(Inherit(st, GoodHandle(l, a) /\ a.size = "some" /\ SendExpOK(l, a)), a)

------------------------------------------------------------------------------
(* dhsTcl.c: each command parses its words, puts dhsLstat right, calls the  *)
(* library and returns TCL_ERROR when the status is bad.                    *)

KeepsStatus(l) == dhsLstat[l]                     \* mutant: the reset is missing
FreshStatus(l) == DHS_OK

\* The statuses the library call of command a may leave.
Statuses(l, a) ==
  LET st == FreshStatus(l) IN
  CASE a.cmd = "SysOpen"     -> {dhsUtilSysOpen(st, a)}
    [] a.cmd = "OpenConnect" -> {dhsUtilOpenConnect(st, a)}
    [] a.cmd = "CloseExp"    -> {dhsUtilCloseExp(st, l, a)}
    [] a.cmd = "IOctl"       -> {dhsUtilIOCtl(st, l, a)}
    [] a.cmd = "MetaData"    -> dhsUtilSendMetaData(st, l, a)
    [] a.cmd = "PixelData"   -> dhsUtilSendPixelData(st, l, a)
    [] OTHER                 -> {OnlyHandle(st, l, a)}

Returned(s) == IF STATUS_BAD(s) THEN "TCL_ERROR" ELSE "TCL_OK"

\* The command runs in every living interpreter; h[l] is the handle the script
\* has afterwards if the command succeeded.
Runs(a, h) ==
  LET dies == {l \in Libs : alive[l] /\ CopiesNull(FreshStatus(l), l, a)}
      here == {l \in Libs : alive[l]} \ dies
  IN  \E s \in [here -> {DHS_OK, DHS_ERROR}] :
        /\ \A l \in here : s[l] \in Statuses(l, a)
        /\ alive' = [l \in Libs |-> alive[l] /\ l \notin dies]
        /\ dhsLstat' = [l \in Libs |-> IF l \in here THEN s[l] ELSE dhsLstat[l]]
        /\ result' = [l \in Libs |-> IF l \in here THEN Returned(s[l])
                                     ELSE IF l \in dies THEN "died" ELSE result[l]]
        /\ dhsID' = [l \in Libs |-> IF l \in here /\ Returned(s[l]) = "TCL_OK"
                                    THEN h[l] ELSE dhsID[l]]
        /\ last' = a

\* A script uses its own handle only once it has one.
HasHandle(a) == a.own => \A l \in Libs : alive[l] => dhsID[l] # Unassigned

\* A word that is no number or list: the command returns before it touches
\* dhsLstat or calls the library.
BadWords(c) ==
  /\ result' = [l \in Libs |-> IF alive[l] THEN "TCL_ERROR" ELSE result[l]]
  /\ last' = [Plain(c) EXCEPT !.parsed = FALSE]
  /\ UNCHANGED <<alive, dhsLstat, dhsID>>

\* The handle _null's SysOpen leaves is the 0 it was given.
SysOpenHandle(l) == IF l = "null" THEN 0 ELSE DHS_SIMULATION_OK

dhsSysOpenTcl ==
  \/ BadWords("SysOpen")
  \/ \E w \in Systems :
       Runs([Plain("SysOpen") EXCEPT !.who = w], [l \in Libs |-> SysOpenHandle(l)])

dhsOpenConnectTcl ==
  \/ BadWords("OpenConnect")
  \/ \E w \in Systems :
       Runs([Plain("OpenConnect") EXCEPT !.who = w], [l \in Libs |-> DHS_SIMULATION_OK])

\* Commands that take a handle and return a status leave the script's handle.
RunsWith(a) == HasHandle(a) /\ Runs(a, dhsID)

dhsSysCloseTcl ==
  \/ BadWords("SysClose")
  \/ \E own \in BOOLEAN : RunsWith([Plain("SysClose") EXCEPT !.own = own])

dhsCloseConnectTcl ==
  \/ BadWords("CloseConnect")
  \/ \E own \in BOOLEAN : RunsWith([Plain("CloseConnect") EXCEPT !.own = own])

dhsReadImageTcl ==
  \/ BadWords("ReadImage")
  \/ \E own \in BOOLEAN : RunsWith([Plain("ReadImage") EXCEPT !.own = own])

\* The test script assigns the status of OpenExp to dhsID and goes on with it.
dhsOpenExpTcl ==
  \/ BadWords("OpenExp")
  \/ \E own \in BOOLEAN, e \in ExpIDs, assigned \in BOOLEAN :
       LET a == [Plain("OpenExp") EXCEPT !.own = own, !.exp = e] IN
       /\ HasHandle(a)
       /\ Runs(a, IF assigned THEN [l \in Libs |-> DHS_OK] ELSE dhsID)

dhsCloseExpTcl ==
  \/ BadWords("CloseExp")
  \/ \E own \in BOOLEAN, e \in ExpIDs :
       RunsWith([Plain("CloseExp") EXCEPT !.own = own, !.exp = e])

dhsIOctlTcl ==
  \/ BadWords("IOctl")
  \/ \E own \in BOOLEAN, i \in IOCtls :
       RunsWith([Plain("IOctl") EXCEPT !.own = own, !.ioctl = i])

\* A metadata type that is neither a FITS header nor AV pairs ends like a bad word.
dhsMetaDataTcl ==
  \/ BadWords("MetaData")
  \/ \E own \in BOOLEAN, e \in ExpIDs, z \in Sizes, d \in {"fine", "failing"} :
       RunsWith([Plain("MetaData") EXCEPT !.own = own, !.exp = e, !.size = z, !.disk = d])

dhsPixelDataTcl ==
  \/ BadWords("PixelData")
  \/ \E own \in BOOLEAN, e \in ExpIDs, z \in Sizes, d \in {"fine", "failing"} :
       RunsWith([Plain("PixelData") EXCEPT !.own = own, !.exp = e, !.size = z, !.disk = d])

Next ==
  \/ dhsSysOpenTcl \/ dhsSysCloseTcl \/ dhsOpenConnectTcl \/ dhsCloseConnectTcl
  \/ dhsOpenExpTcl \/ dhsCloseExpTcl \/ dhsIOctlTcl \/ dhsReadImageTcl
  \/ dhsMetaDataTcl \/ dhsPixelDataTcl

Spec == Init /\ [][Next]_vars

------------------------------------------------------------------------------
(* Properties *)

\* Type correctness of the whole state.
TypeOK ==
  /\ alive \in [Libs -> BOOLEAN]
  /\ dhsLstat \in [Libs -> {DHS_OK, DHS_ERROR}]
  /\ dhsID \in [Libs -> {Unassigned, 0, DHS_SIMULATION_OK}]
  /\ result \in [Libs -> {"none", "TCL_OK", "TCL_ERROR", "died"}]
  /\ last \in Args

Living == {l \in Libs : alive[l]}

\* The libraries can be exchanged under a script: each command has the same
\* outcome in all of them, whatever the script did before and although they
\* hand out different handles.  The exceptions are the checks that really
\* differ: a send for an exposure that is not positive, the naming IOCtls, and
\* a failing disk.
LibrariesAgree ==
  \/ last.disk = "failing"
  \/ last.cmd \in {"MetaData", "PixelData"} /\ last.exp = "zero"
  \/ last.cmd = "IOctl" /\ last.ioctl \in {"SETFILENAME", "SETDIR"}
  \/ \A l, m \in Living : result[l] = result[m]

\* A command that the interface's description allows.
Allowed(a) ==
  /\ a.parsed /\ a.own /\ a.exp = "positive" /\ a.disk = "fine"
  /\ a.cmd = "SysOpen" => a.who \in TopLevel
  /\ a.cmd = "OpenConnect" => a.who \notin TopLevel
  /\ a.cmd = "IOctl" => a.ioctl = "DEBUG_LVL"
  /\ a.cmd = "PixelData" => a.size = "some"

\* Failures are forgotten: a command with good arguments succeeds in every
\* library, whatever failed before it, with any handle an open handed out and
\* with the status of OpenExp in the handle's place.
GoodCommandsSucceed ==
  last.cmd # "none" /\ Allowed(last) => \A l \in Living : result[l] = "TCL_OK"

\* One script for every library: LibrariesAgree, in type-correct states.
ScriptsPortable == TypeOK /\ LibrariesAgree
=============================================================================
