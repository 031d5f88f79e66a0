------------------------------ MODULE NoaoUpload ------------------------------
(***************************************************************************)
(* What dhsUtilCloseExp of the _noao library starts: a process that        *)
(* uploads the exposure's FITS file, a line appended to image_list, and a  *)
(* process that uploads image_list, both running the client of client.cxx. *)
(* Nobody waits for these processes: they read their file when they get to *)
(* run and overwrite the remote copy when their transfer ends, in any      *)
(* order.  When execl fails, the forked child returns from the library and *)
(* goes on as a second copy of the program that called it.                 *)
(***************************************************************************)
EXTENDS Naturals, Sequences, SequencesExt, FiniteSets

CONSTANTS
    NoExposures,    \* exposure ids
    NoProgs,        \* copies of the calling program that can come to exist
    FirstProg,      \* the one that was started
    MaxBlocks,      \* bound: blocks of an exposure
    MaxUploads,     \* bound: client processes
    MaxCloses       \* bound: calls of dhsUtilCloseExp

ASSUME UploadAssumption ==
    FirstProg \in NoProgs /\ NoExposures # {} /\ "image_list" \notin NoExposures

VARIABLES
    progAt,         \* where each copy is: "none", "caller", or inside dhsUtilCloseExp
    closing,        \* the exposure each copy is closing
    fitsBlocks,     \* blocks in the FITS file of each exposure
    imageList,      \* the lines of image_list
    uploads,        \* the client processes, in the order they were forked
    remoteFits,     \* blocks in the remote copies
    remoteList,     \* the remote image_list
    closes,         \* the calls of dhsUtilCloseExp so far
    execFailed      \* whether an execl ever failed

upVars == <<progAt, closing, fitsBlocks, imageList, uploads, remoteFits, remoteList, closes, execFailed>>
remoteVars == <<remoteFits, remoteList>>

UpInit ==
    /\ progAt = [p \in NoProgs |-> IF p = FirstProg THEN "caller" ELSE "none"]
    /\ closing = [p \in NoProgs |-> CHOOSE e \in NoExposures : TRUE]
    /\ fitsBlocks = [e \in NoExposures |-> 0]
    /\ imageList = << >>
    /\ uploads = << >>
    /\ remoteFits = [e \in NoExposures |-> 0]
    /\ remoteList = << >>
    /\ closes = << >>
    /\ execFailed = FALSE

\* A block of pixels, appended as an image to the exposure's file.
UploadPixels(p, e) ==
    /\ progAt[p] = "caller" /\ fitsBlocks[e] < MaxBlocks
    /\ fitsBlocks' = [fitsBlocks EXCEPT ![e] = @ + 1]
    /\ UNCHANGED <<progAt, closing, imageList, uploads, remoteVars, closes, execFailed>>

CloseExpCalled(p, e) ==
    /\ progAt[p] = "caller" /\ Len(closes) < MaxCloses
    /\ closes' = Append(closes, e)
    /\ closing' = [closing EXCEPT ![p] = e]
    /\ progAt' = [progAt EXCEPT ![p] = "upload file"]
    /\ UNCHANGED <<fitsBlocks, imageList, uploads, remoteVars, execFailed>>

\* Where the child of a fork goes on: nowhere once execl replaced it.
ChildGoesTo(ok, at) == IF ok THEN "none" ELSE at

\* fork and execl: the child becomes a client process for this file; or execl
\* fails and the child is a copy of the program at the same place; or fork
\* fails, and nothing is uploaded.
ForkClient(p, file, next) ==
    \/ \E ok \in BOOLEAN, q \in {x \in NoProgs : progAt[x] = "none"} :
         /\ ok => Len(uploads) < MaxUploads
         /\ uploads' = IF ok THEN Append(uploads, [file |-> file, at |-> "start"]) ELSE uploads
         /\ progAt' = [progAt EXCEPT ![p] = next, ![q] = ChildGoesTo(ok, next)]
         /\ closing' = [closing EXCEPT ![q] = closing[p]]
         /\ execFailed' = (execFailed \/ ~ok)
    \/ /\ progAt' = [progAt EXCEPT ![p] = next]
       /\ UNCHANGED <<uploads, closing, execFailed>>

UploadFile(p) ==
    /\ progAt[p] = "upload file"
    /\ ForkClient(p, closing[p], "list")
    /\ UNCHANGED <<fitsBlocks, imageList, remoteVars, closes>>

\* fopen "a+": the line goes to the end, whoever else writes.
Rewritten(list, line) == <<line>>              \* mutant: fopen "w"
AddedTo(list, line) == Append(list, line)

ListExposure(p) ==
    /\ progAt[p] = "list"
    /\ imageList' = AddedTo(imageList, closing[p])
    /\ progAt' = [progAt EXCEPT ![p] = "upload list"]
    /\ UNCHANGED <<closing, fitsBlocks, uploads, remoteVars, closes, execFailed>>

\* A list that cannot be opened is left alone, and uploaded all the same.
ListNotOpened(p) ==
    /\ progAt[p] = "list"
    /\ progAt' = [progAt EXCEPT ![p] = "upload list"]
    /\ UNCHANGED <<closing, fitsBlocks, imageList, uploads, remoteVars, closes, execFailed>>

UploadList(p) ==
    /\ progAt[p] = "upload list"
    /\ ForkClient(p, "image_list", "caller")
    /\ UNCHANGED <<fitsBlocks, imageList, remoteVars, closes>>

\* client: the file as it is when the transfer begins,
ClientReads(u) ==
    /\ uploads[u].at = "start"
    /\ uploads' = [uploads EXCEPT ![u] =
           [file |-> @.file, at |-> "sending",
            data |-> IF @.file = "image_list" THEN imageList ELSE fitsBlocks[@.file]]]
    /\ UNCHANGED <<progAt, closing, fitsBlocks, imageList, remoteVars, closes, execFailed>>

\* and the remote copy when it ends, or nothing when it fails: main returns 1 anyway.
ClientDelivers(u) ==
    /\ uploads[u].at = "sending"
    /\ uploads' = [uploads EXCEPT ![u] = [file |-> @.file, at |-> "done"]]
    /\ \/ /\ uploads[u].file = "image_list"
          /\ remoteList' = uploads[u].data
          /\ UNCHANGED remoteFits
       \/ /\ uploads[u].file # "image_list"
          /\ remoteFits' = [remoteFits EXCEPT ![uploads[u].file] = uploads[u].data]
          /\ UNCHANGED remoteList
       \/ UNCHANGED remoteVars
    /\ UNCHANGED <<progAt, closing, fitsBlocks, imageList, closes, execFailed>>

client_main(u) == ClientReads(u) \/ ClientDelivers(u)

UpNext ==
    \/ \E p \in NoProgs, e \in NoExposures : UploadPixels(p, e) \/ CloseExpCalled(p, e)
    \/ \E p \in NoProgs : UploadFile(p) \/ ListExposure(p) \/ ListNotOpened(p) \/ UploadList(p)
    \/ \E u \in DOMAIN uploads : client_main(u)

UpSpec == UpInit /\ [][UpNext]_upVars

-----------------------------------------------------------------------------
\* The remote image_list is always a beginning of the local one, however many
\* uploads overtake each other: it may miss the latest exposures for good, but
\* never names one that is not on the list, or in another order.
RemoteListIsPrefix == IsPrefix(remoteList, imageList)

LinesOf(list, e) == {i \in DOMAIN list : list[i] = e}

\* An exposure has one line in image_list for each time it was closed; more can
\* only come from a child that execl left behind (dhsUtilCloseExp.c:93).
ListedOncePerClose ==
    ~execFailed => \A e \in NoExposures :
        Cardinality(LinesOf(imageList, e)) <= Cardinality(LinesOf(closes, e))

\* image_list, here and at the remote host, is the history of the exposures.
ListsTellHistory == RemoteListIsPrefix /\ ListedOncePerClose
===============================================================================
