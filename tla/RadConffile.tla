------------------------------ MODULE RadConffile ------------------------------
(***************************************************************************)
(* Configuration files (radconffile.c).  Every process works on a copy of  *)
(* the file in memory, a list of comments and entries; radCfFlush writes   *)
(* the whole copy back under a lock that is a symbolic link.  Writing goes *)
(* through the buffer of a stdio stream, so that the file may end in the   *)
(* middle of a line; reading takes no lock and meets such lines.  A line   *)
(* is text: what radCfOpen makes of it is not always what radCfFlush       *)
(* wrote.  All processes run in one directory (the link is made in the     *)
(* working directory); a comment begins with #, no line is longer than the *)
(* line buffer, and an identifier that took in a newline is not followed   *)
(* further.                                                                *)
(***************************************************************************)
EXTENDS Naturals, Sequences, FiniteSets, SequencesExt

CONSTANTS
    CfProcs,                \* processes that use the file
    CfIds, CfInstances,     \* identifiers; instances, NoInstance among them
    CfValues, CfComments,   \* values and comments of entries, Blank where there may be none
    MaxCfLines,             \* bound on the lines of a copy
    MaxCfOps,               \* bound on calls that change a copy
    MaxCfCuts               \* bound on the places where text is cut

NoInstance == "no instance"
Blank == "blank"
NoOne == "no one"

ASSUME CfAssumption == NoOne \notin CfProcs /\ MaxCfLines \in Nat

VARIABLES
    disk,                   \* the lines in the file
    cut,                    \* the last of them is the first part of a line
    gap,                    \* text was lost right behind them: the next does not begin a line
    cfLock,                 \* who made the lock link
    cfPc,                   \* per process: closed, reading, open, or how far radCfFlush is
    overtaken,              \* readers under which the file was truncated
    fileData,               \* per process, the copy
    cfPos,                  \* per process, the next line to leave the stream's buffer
    saved,                  \* the copy that the last radCfFlush to open the file writes
    answered,               \* it answered OK
    dropped,                \* a write of it failed and was not noticed
    cfKilled,               \* processes that were killed in radCfFlush
    cfOps, cfCuts

diskVars == <<disk, cut, gap>>
flushVars == <<saved, answered, dropped>>
cfVars == <<diskVars, cfLock, cfPc, overtaken, fileData, cfPos, flushVars, cfKilled, cfOps, cfCuts>>

\* ends: there is a newline behind it.  torn, the specification's own: the identifier was read
\* where text had been cut off or lost.
Comment(ends) == [kind |-> "comment", ends |-> ends]
Invalid(ends) == [kind |-> "invalid", ends |-> ends]
AnEntry(id, inst, val, com, ends, torn) ==
    [kind |-> "entry", id |-> id, inst |-> inst, val |-> val, com |-> com, ends |-> ends, torn |-> torn]
Entry(id, inst, val, com) == AnEntry(id, inst, val, com, TRUE, FALSE)

CfInit ==
    /\ disk = <<>> /\ cut = FALSE /\ gap = FALSE /\ cfLock = NoOne
    /\ cfPc = [p \in CfProcs |-> "closed"] /\ fileData = [p \in CfProcs |-> <<>>]
    /\ cfPos = [p \in CfProcs |-> 0] /\ overtaken = {}
    /\ saved = <<>> /\ answered = TRUE /\ dropped = FALSE /\ cfKilled = {} /\ cfOps = 0 /\ cfCuts = 0

CutCounts == cfCuts < MaxCfCuts /\ cfCuts' = cfCuts + 1 /\ UNCHANGED cfOps

-----------------------------------------------------------------------------
(* Reading *)

\* An entry line.  strtok skips the blanks behind "ID=": without a value the first word of the
\* comment is taken for it.
ReadEntryNoComment(l) == [l EXCEPT !.com = Blank, !.ends = TRUE]
ReadEntry(l) ==
    IF l.val = Blank /\ l.com # Blank
    THEN [l EXCEPT !.val = l.com, !.com = Blank, !.ends = TRUE]
    ELSE [l EXCEPT !.ends = TRUE]

\* fgets: a comment without a newline takes in what was written behind it; a line whose
\* identifier is not one is skipped.
ReadLine(lines, l) ==
    IF lines # <<>> /\ Last(lines).kind = "comment" /\ ~Last(lines).ends
    THEN Append(Front(lines), Comment(l.ends))
    ELSE CASE l.kind = "entry" -> Append(lines, ReadEntry(l))
           [] l.kind = "comment" -> Append(lines, l)
           [] l.kind = "invalid" -> lines
ReadFile(lines) ==
    LET read[k \in 0 .. Len(lines)] == IF k = 0 THEN <<>> ELSE ReadLine(read[k - 1], lines[k])
    IN  read[Len(lines)]

\* What text may be read as that begins in the middle of a line (what an entry says beside its
\* identifier does not matter then).
Garbled(ends) ==
    {Comment(ends), Invalid(ends)}
    \cup {AnEntry(id, inst, Blank, Blank, ends, TRUE) : id \in CfIds, inst \in CfInstances}

\* radCfOpen reads a block at a time.  Without buffers for the copy the handle is closed again.
radCfOpen(p) ==
    /\ cfPc[p] = "closed" /\ p \notin cfKilled
    /\ cfPc' = [cfPc EXCEPT ![p] = "reading"]
    /\ UNCHANGED <<diskVars, cfLock, overtaken, fileData, cfPos, flushVars, cfKilled, cfOps, cfCuts>>

\* The end of the file: the copy is what is in the file now.
ReadsEnd(p) ==
    /\ cfPc[p] = "reading" /\ p \notin overtaken
    /\ cfPc' = [cfPc EXCEPT ![p] = "open"]
    /\ fileData' = [fileData EXCEPT ![p] = ReadFile(disk)]
    /\ UNCHANGED <<diskVars, cfLock, overtaken, cfPos, flushVars, cfKilled, cfOps, cfCuts>>

\* The file was truncated between two blocks: the copy begins with lines from before, and what is
\* read behind them may begin in the middle of a line of what is written since.
ReadsTwoFiles(p) ==
    /\ cfPc[p] = "reading" /\ p \in overtaken /\ CutCounts
    /\ cfPc' = [cfPc EXCEPT ![p] = "open"] /\ overtaken' = overtaken \ {p}
    /\ \E n \in 0 .. Len(fileData[p]), behind \in SeqOf(Garbled(TRUE), MaxCfLines) :
          /\ n + Len(behind) <= MaxCfLines + 1
          /\ fileData' = [fileData EXCEPT ![p] = ReadFile(SubSeq(@, 1, n) \o behind)]
    /\ UNCHANGED <<diskVars, cfLock, cfPos, flushVars, cfKilled>>

radCfClose(p) ==
    /\ cfPc[p] = "open"
    /\ cfPc' = [cfPc EXCEPT ![p] = "closed"]
    /\ fileData' = [fileData EXCEPT ![p] = <<>>]
    /\ UNCHANGED <<diskVars, cfLock, overtaken, cfPos, flushVars, cfKilled, cfOps, cfCuts>>

-----------------------------------------------------------------------------
(* The copy *)

\* radCfFindEntryNode: NoInstance, NULL in the code, matches every instance.
EntryMatches(lines, id, inst) ==
    {i \in DOMAIN lines : /\ lines[i].kind = "entry" /\ lines[i].id = id
                          /\ inst \in {NoInstance, lines[i].inst}}
FirstMatch(S) == CHOOSE i \in S : \A j \in S : i <= j

Changes(p) == cfPc[p] = "open" /\ cfOps < MaxCfOps /\ cfOps' = cfOps + 1 /\ UNCHANGED cfCuts
SetCopy(p, lines) ==
    /\ fileData' = [fileData EXCEPT ![p] = lines]
    /\ UNCHANGED <<diskVars, cfLock, cfPc, overtaken, cfPos, flushVars, cfKilled>>

\* The first match gets the value, and the comment if there is one; else a line is added.
radCfPutEntry(p, id, inst, val, com) ==
    LET lines == fileData[p]
        found == EntryMatches(lines, id, inst)
    IN /\ Changes(p)
       /\ IF found # {}
          THEN LET i == FirstMatch(found)
               IN SetCopy(p, [lines EXCEPT ![i].val = val,
                                           ![i].com = IF com = Blank THEN @ ELSE com])
          ELSE Len(lines) < MaxCfLines /\ SetCopy(p, Append(lines, Entry(id, inst, val, com)))

\* The text is stored as it is given, with or without a newline.
radCfPutComment(p, ends) ==
    /\ Changes(p) /\ Len(fileData[p]) < MaxCfLines
    /\ SetCopy(p, Append(fileData[p], Comment(ends)))

radCfPutCommentBefore(p, id, inst, ends) ==
    LET found == EntryMatches(fileData[p], id, inst)
    IN /\ Changes(p) /\ Len(fileData[p]) < MaxCfLines /\ found # {}
       /\ SetCopy(p, InsertAt(fileData[p], FirstMatch(found), Comment(ends)))

-----------------------------------------------------------------------------
(* radCfFlush *)

\* radCfLockFile: symlink fails when the link is there.
radCfLockFile(p) ==
    /\ cfPc[p] = "open" /\ cfLock = NoOne
    /\ cfLock' = p /\ cfPc' = [cfPc EXCEPT ![p] = "locked"]
    /\ UNCHANGED <<diskVars, overtaken, fileData, cfPos, flushVars, cfKilled, cfOps, cfCuts>>

\* Every return behind radCfLockFile removes the link.
radCfUnlockFile(p) ==
    /\ cfLock' = NoOne /\ cfPc' = [cfPc EXCEPT ![p] = "open"]
    /\ cfPos' = [cfPos EXCEPT ![p] = 0]

\* A copy that does not start with a comment gets the text header.
WithTextHdr(lines) ==
    IF lines = <<>> \/ lines[1].kind # "comment" THEN <<Comment(TRUE)>> \o lines ELSE lines

\* fopen truncates the file, or fails and leaves it.  Who is reading has lines of the old file.
Readers == {q \in CfProcs \ overtaken : cfPc[q] = "reading"}
FlushOpens(p) ==
    /\ cfPc[p] = "locked"
    /\ disk' = <<>> /\ cut' = FALSE /\ gap' = FALSE
    /\ overtaken' = overtaken \cup Readers
    /\ fileData' = [q \in CfProcs |-> IF q = p THEN WithTextHdr(fileData[q])
                                     ELSE IF q \in Readers THEN ReadFile(disk) ELSE fileData[q]]
    /\ cfPc' = [cfPc EXCEPT ![p] = "writing"]
    /\ cfPos' = [cfPos EXCEPT ![p] = 1]
    /\ saved' = WithTextHdr(fileData[p]) /\ answered' = FALSE /\ dropped' = FALSE
    /\ UNCHANGED <<cfLock, cfKilled, cfOps, cfCuts>>

FlushOpenFails(p) ==
    /\ cfPc[p] = "locked"
    /\ radCfUnlockFile(p)
    /\ UNCHANGED <<diskVars, overtaken, fileData, flushVars, cfKilled, cfOps, cfCuts>>

\* fputs and fprintf put the lines into the buffer, one by one; in their order they leave it.
Writing(p) == cfPc[p] = "writing" /\ cfPos[p] <= Len(fileData[p])
LineOf(p) == fileData[p][cfPos[p]]

\* What a reader makes of the first part of a line: the beginning of an identifier may be another
\* one, and without "]" it is none; the beginning of a value or comment stands for the whole.
FirstPart(l) ==
    IF l.kind = "comment" THEN {Comment(FALSE)}
    ELSE {AnEntry(id, NoInstance, Blank, Blank, FALSE, TRUE) : id \in CfIds}
         \cup (IF l.inst = NoInstance THEN {} ELSE {Invalid(FALSE)})
         \cup {AnEntry(l.id, l.inst, val, Blank, FALSE, l.torn) : val \in {Blank, l.val}}
         \cup {[l EXCEPT !.ends = FALSE]}

\* The file up to its last newline, and what text behind it may be read as.
WholeLines == IF cut THEN Front(disk) ELSE disk
BehindGap(ends) == IF cut /\ Last(disk).kind = "comment" THEN {Comment(ends)} ELSE Garbled(ends)

\* When the buffer is full, and in fclose, its text goes to the file: up to the end of a line ...
LineGoesOut(p) ==
    /\ Writing(p)
    /\ \E text \in IF gap THEN BehindGap(LineOf(p).ends) ELSE {LineOf(p)} :
          disk' = Append(WholeLines, text)
    /\ cut' = FALSE /\ gap' = FALSE
    /\ cfPos' = [cfPos EXCEPT ![p] = @ + 1]
    /\ UNCHANGED <<cfLock, cfPc, overtaken, fileData, flushVars, cfKilled, cfOps, cfCuts>>

\* ... or up to the middle of one, where the buffer or the space on the device ends.
PartGoesOut(p) ==
    /\ Writing(p) /\ CutCounts
    /\ \E text \in IF gap THEN BehindGap(FALSE) ELSE FirstPart(LineOf(p)) :
          disk' = Append(WholeLines, text)
    /\ cut' = TRUE
    /\ UNCHANGED <<gap, cfLock, cfPc, overtaken, fileData, cfPos, flushVars, cfKilled>>

\* The results of fprintf and fclose are not looked at: text that they cannot write is lost, up to
\* the end of a line or to the middle of it.
TextIsLost(p) ==
    /\ Writing(p) /\ CutCounts
    /\ gap' = TRUE /\ dropped' = TRUE
    /\ \E n \in {cfPos[p], cfPos[p] + 1} : cfPos' = [cfPos EXCEPT ![p] = n]
    /\ UNCHANGED <<disk, cut, cfLock, cfPc, overtaken, fileData, saved, answered, cfKilled>>

\* A comment that cannot be written ends the flush with ERROR; what was in the buffer is lost, and
\* the rest of the file is gone.
FlushCommentFails(p) ==
    /\ Writing(p) /\ \E i \in cfPos[p] .. Len(fileData[p]) : fileData[p][i].kind = "comment"
    /\ radCfUnlockFile(p)
    /\ UNCHANGED <<diskVars, overtaken, fileData, flushVars, cfKilled, cfOps, cfCuts>>

\* fclose has emptied the buffer.
FlushEnds(p) ==
    /\ cfPc[p] = "writing" /\ cfPos[p] > Len(fileData[p])
    /\ radCfUnlockFile(p)
    /\ answered' = TRUE
    /\ UNCHANGED <<diskVars, overtaken, fileData, saved, dropped, cfKilled, cfOps, cfCuts>>

\* The process is killed: what is in its buffer is lost; the link stays.
FlushKilled(p) ==
    /\ cfPc[p] \in {"locked", "writing"}
    /\ cfPc' = [cfPc EXCEPT ![p] = "closed"] /\ fileData' = [fileData EXCEPT ![p] = <<>>]
    /\ cfKilled' = cfKilled \cup {p}
    /\ cfPos' = [cfPos EXCEPT ![p] = 0]
    /\ UNCHANGED <<diskVars, cfLock, overtaken, flushVars, cfOps, cfCuts>>

CfNext ==
    \E p \in CfProcs :
        \/ radCfOpen(p) \/ ReadsEnd(p) \/ ReadsTwoFiles(p) \/ radCfClose(p)
        \/ radCfLockFile(p) \/ FlushOpens(p) \/ FlushOpenFails(p)
        \/ LineGoesOut(p) \/ PartGoesOut(p) \/ TextIsLost(p)
        \/ FlushCommentFails(p) \/ FlushEnds(p) \/ FlushKilled(p)
        \/ \E ends \in BOOLEAN : radCfPutComment(p, ends)
        \/ \E id \in CfIds, inst \in CfInstances :
              \/ \E ends \in BOOLEAN : radCfPutCommentBefore(p, id, inst, ends)
              \/ \E val \in CfValues, com \in CfComments : radCfPutEntry(p, id, inst, val, com)

CfSpec == CfInit /\ [][CfNext]_cfVars

-----------------------------------------------------------------------------
(* Properties *)

\* What a reader takes for what was written: values before comments, comments that end.
PlainLines(lines) ==
    \A i \in DOMAIN lines : IF lines[i].kind = "entry" THEN lines[i].val # Blank \/ lines[i].com = Blank
                            ELSE lines[i].ends

\* radCfFlush and radCfOpen: whatever became of the last flush (under way, answered ERROR, killed),
\* a reader finds the first lines of the copy it writes, in their order, and at most one line more,
\* of which it has the first part; after an OK it finds all of them.  Provided no entry has a
\* comment without a value, every comment ends its line, and no write failed unnoticed.
FlushedIsReadable ==
    (~dropped /\ PlainLines(saved)) =>
        LET read == ReadFile(disk)
        IN  /\ Len(read) <= Len(saved)
            /\ \A i \in DOMAIN read : read[i] = saved[i] \/ (cut /\ i = Len(read))
            /\ answered => read = saved

\* radCfLockFile: nobody writes but who holds the link, so two copies never mix in the file; and a
\* link that belongs to no writer was left by one that was killed.
LockedWhileWriting ==
    /\ \A p \in CfProcs : cfPc[p] \in {"locked", "writing"} => cfLock = p
    /\ cfLock # NoOne => cfPc[cfLock] \in {"locked", "writing"} \/ cfLock \in cfKilled

\* radCfPutEntry updates what it finds: no copy, however often it was written and read back by
\* several processes, has two entries for one identifier and instance, but where the identifier of
\* one of them was read from a line that was cut off, lost in part, or overtaken by a truncation.
KeysUnique ==
    \A p \in CfProcs : \A i, j \in DOMAIN fileData[p] :
        LET a == fileData[p][i]  b == fileData[p][j]
        IN  (/\ a.kind = "entry" /\ ~a.torn /\ b.kind = "entry" /\ ~b.torn
             /\ a.id = b.id /\ a.inst = b.inst) => i = j

\* A configuration survives its flushes: read back as it was, written by one
\* process at a time, one entry per identifier.
ConfigurationSurvives == FlushedIsReadable /\ LockedWhileWriting /\ KeysUnique
=============================================================================
