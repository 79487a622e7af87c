------------------------------ MODULE NavBuffer ------------------------------
(***************************************************************************)
(* A download that plays while it arrives (player/nav_buffer.go): one      *)
(* goroutine appends the bodies of one or more requests to a temporary     *)
(* file, each ffmpeg process reads the file through a cursor of its own    *)
(* and waits for bytes that have not arrived, a probe waits for the whole  *)
(* file, and Close may come at any moment.                                 *)
(*                                                                         *)
(* Byte i of the stream is the number i.                                   *)
(***************************************************************************)
EXTENDS Integers, Sequences, FiniteSets, FiniteSetsExt

CONSTANTS
  Readers,    \* the navReaders, one per ffmpeg process
  MaxSize,    \* the longest stream
  MaxChunk    \* bytes per network read and per reader's Read

VARIABLES
  size, cuts, total,            \* the stream, where its segments meet, Content-Length
  download, fetched, bodyEnd,   \* the download goroutine and its place in the bodies
  offset, tail, file, fileOpen, \* the temporary file
  downloaded, done, err, closed, canceled, readMu,
  reader, got, ended, cancel,   \* the readers
  closing, probe,               \* the caller of Close and the length probe
  fresh                         \* history: bytes came since a reader's timer started

streamVars == <<size, cuts, total>>
bodyVars == <<fetched, bodyEnd, tail>>
fileVars == <<offset, file, fileOpen>>
sharedVars == <<downloaded, done, err>>
readerVars == <<reader, got, ended>>
vars == <<streamVars, bodyVars, fileVars, sharedVars, readerVars, download, closed,
          canceled, readMu, cancel, closing, probe, fresh>>

Free == "free"

Source == [i \in 1..size |-> i]

(* Where the segment that starts at byte n + 1 ends.                       *)
SegmentEnd(n) == Min({c \in cuts : c > n} \cup {size})

Waiting == [pc |-> "idle", seen |-> 0, expired |-> FALSE, timer |-> "off",
            woken |-> FALSE, want |-> 0]

Init ==
  /\ size \in 0..MaxSize
  /\ cuts \in SUBSET (1..size - 1)
  /\ total \in IF cuts = {} THEN {-1, size, size + 1} ELSE {-1}
  /\ download = "check" /\ fetched = 0 /\ bodyEnd = SegmentEnd(0) /\ tail = "more"
  /\ offset = 0 /\ file = <<>> /\ fileOpen = TRUE
  /\ downloaded = 0 /\ done = FALSE /\ err = FALSE
  /\ closed = FALSE /\ canceled = FALSE /\ readMu = Free
  /\ reader = [r \in Readers |-> Waiting]
  /\ got = [r \in Readers |-> <<>>] /\ ended = [r \in Readers |-> "no"]
  /\ cancel = [r \in Readers |-> FALSE]
  /\ closing = "open" /\ probe = "waiting"
  /\ fresh = [r \in Readers |-> FALSE]

(* signalLocked: the channel that waiting readers captured is closed.      *)
Woken == [r \in Readers |-> [reader[r] EXCEPT !.woken = TRUE]]

-----------------------------------------------------------------------------
(* The download goroutine: download, downloadSegments and copyBody         *)

CheckClosed ==
  /\ download = "check"
  /\ download' = IF closed THEN "exited" ELSE "read"
  /\ UNCHANGED <<streamVars, bodyVars, fileVars, sharedVars, readerVars, closed, canceled,
                 readMu, cancel, closing, probe, fresh>>

(* What follows a chunk: the next read, the next body, or the end.         *)
After(how) ==
  CASE how = "more" -> "check"
    [] how = "eof" /\ bodyEnd < size -> "next"
    [] how = "eof" /\ bodyEnd = size -> "finish"
    [] how = "error" -> "finish"

(* body.Read: bytes, the end of the body, a failure, or bytes and either.  *)
(* A canceled request fails.                                               *)
ReadBody ==
  /\ download = "read"
  /\ \E n \in 0..Min({MaxChunk, bodyEnd - fetched}), how \in {"more", "eof", "error"} :
       /\ how = "eof" => fetched + n = bodyEnd
       /\ how = "more" => n > 0
       /\ fetched' = fetched + n
       /\ tail' = how
       /\ download' = IF n > 0 THEN "write" ELSE After(how)
  /\ UNCHANGED <<streamVars, bodyEnd, fileVars, sharedVars, readerVars, closed, canceled,
                 readMu, cancel, closing, probe, fresh>>

CheckFile ==
  /\ download = "write"
  /\ download' = IF closed THEN "exited" ELSE "put"
  /\ UNCHANGED <<streamVars, bodyVars, fileVars, sharedVars, readerVars, closed, canceled,
                 readMu, cancel, closing, probe, fresh>>

(* The file after bytes from..to of the stream are written behind place o. *)
Put(o, from, to) == SubSeq(file, 1, o) \o [k \in 1..(to - from + 1) |-> from + k - 1]

(* WriteAt writes all of the chunk, or a part of it and fails.             *)
WriteFile ==
  /\ download = "put"
  /\ \E n \in 0..(fetched - offset) :
       /\ file' = Put(offset, offset + 1, offset + n)
       /\ offset' = offset + n
       /\ tail' = IF offset + n = fetched THEN tail ELSE "error"
       /\ download' = IF n > 0 THEN "publish" ELSE "finish"
  /\ UNCHANGED <<streamVars, fetched, bodyEnd, fileOpen, sharedVars, readerVars, closed,
                 canceled, readMu, cancel, closing, probe, fresh>>

Publish ==
  /\ download = "publish"
  /\ download' = After(tail)
  /\ IF ~closed /\ offset > downloaded
     THEN /\ downloaded' = offset
          /\ reader' = Woken
          /\ fresh' = [r \in Readers |-> TRUE]
     ELSE UNCHANGED <<downloaded, reader, fresh>>
  /\ UNCHANGED <<streamVars, bodyVars, fileVars, done, err, got, ended, closed, canceled,
                 readMu, cancel, closing, probe>>

(* downloadSegments asks for the next segment, which may fail.  Its bytes  *)
(* go where the last ones ended.                                           *)
NextSegment ==
  /\ download = "next"
  /\ \/ bodyEnd' = SegmentEnd(bodyEnd) /\ download' = "check" /\ UNCHANGED tail
     \/ tail' = "error" /\ download' = "finish" /\ UNCHANGED bodyEnd
  /\ UNCHANGED <<streamVars, fetched, fileVars, sharedVars, readerVars, closed, canceled,
                 readMu, cancel, closing, probe, fresh>>

BadFinished == [err |-> FALSE, done |-> TRUE]

Finished == [err |-> tail = "error", done |-> TRUE]

Finish ==
  /\ download = "finish"
  /\ download' = "exited"
  /\ IF closed
     THEN UNCHANGED <<done, err, reader>>
     ELSE done' = Finished.done /\ err' = Finished.err /\ reader' = Woken
  /\ UNCHANGED <<streamVars, bodyVars, fileVars, downloaded, got, ended, closed, canceled,
                 readMu, cancel, closing, probe, fresh>>

Download == CheckClosed \/ CheckFile \/ WriteFile \/ Publish \/ Finish
Network == ReadBody \/ NextSegment

-----------------------------------------------------------------------------
(* navReader.Read: waitFor, then readAt under readMu                       *)

ReaderStep == UNCHANGED <<streamVars, bodyVars, offset, file, fileOpen, sharedVars, download,
                          closed, canceled, cancel, closing, probe>>

Tell(r, how) == ended' = [ended EXCEPT ![r] = how]
Goto(r, s) == reader' = [reader EXCEPT ![r] = s]

BeginRead(r) ==
  /\ reader[r].pc = "idle" /\ ended[r] = "no"
  /\ Goto(r, [Waiting EXCEPT !.pc = "look", !.seen = downloaded, !.timer = "on"])
  /\ fresh' = [fresh EXCEPT ![r] = FALSE]
  /\ ReaderStep /\ UNCHANGED <<got, ended, readMu>>

(* What the look of waitFor decides.  The timer starts again when bytes    *)
(* came, and a reader gives up only if it had expired and none came.       *)
BadLook(r) ==
  CASE cancel[r] \/ closed \/ reader[r].expired -> "failed"
    [] OTHER -> IF downloaded > Len(got[r]) THEN "data"
                ELSE IF err THEN "failed"
                ELSE IF done THEN "data"
                ELSE IF downloaded > reader[r].seen THEN "progress" ELSE "wait"

Look(r) ==
  CASE cancel[r] \/ closed -> "failed"
    [] OTHER -> IF downloaded > Len(got[r]) THEN "data"
                ELSE IF err THEN "failed"
                ELSE IF done THEN "data"
                ELSE IF downloaded > reader[r].seen THEN "progress"
                ELSE IF reader[r].expired THEN "failed" ELSE "wait"

LookAgain(r) ==
  LET look == Look(r) IN
  /\ reader[r].pc = "look"
  /\ CASE look = "failed"   -> Goto(r, Waiting) /\ Tell(r, "failed")
       [] look = "data"     -> Goto(r, [Waiting EXCEPT !.pc = "lock"]) /\ UNCHANGED ended
       [] look = "progress" -> /\ Goto(r, [reader[r] EXCEPT !.pc = "select", !.seen = downloaded,
                                             !.timer = "on", !.expired = FALSE, !.woken = FALSE])
                               /\ UNCHANGED ended
       [] look = "wait"     -> /\ Goto(r, [reader[r] EXCEPT !.pc = "select", !.woken = FALSE])
                               /\ UNCHANGED ended
  /\ fresh' = IF look = "progress" THEN [fresh EXCEPT ![r] = FALSE] ELSE fresh
  /\ ReaderStep /\ UNCHANGED <<got, readMu>>

Select(r) ==
  /\ reader[r].pc = "select"
  /\ \/ reader[r].woken /\ Goto(r, [reader[r] EXCEPT !.pc = "look"]) /\ UNCHANGED ended
     \/ /\ reader[r].timer = "fired"
        /\ Goto(r, [reader[r] EXCEPT !.pc = "look", !.timer = "off", !.expired = TRUE])
        /\ UNCHANGED ended
     \/ cancel[r] /\ Goto(r, Waiting) /\ Tell(r, "failed")
  /\ ReaderStep /\ UNCHANGED <<got, readMu, fresh>>

(* Five seconds pass.                                                      *)
StallTimer(r) ==
  /\ reader[r].timer = "on"
  /\ Goto(r, [reader[r] EXCEPT !.timer = "fired"])
  /\ ReaderStep /\ UNCHANGED <<got, ended, readMu, fresh>>

LockFile(r) ==
  /\ reader[r].pc = "lock" /\ readMu = Free
  /\ readMu' = r
  /\ Goto(r, [reader[r] EXCEPT !.pc = "at"])
  /\ ReaderStep /\ UNCHANGED <<got, ended, fresh>>

(* The locked part of readAt.                                              *)
ReadAt(r) ==
  LET available == downloaded - Len(got[r]) IN
  /\ reader[r].pc = "at"
  /\ \/ /\ closed \/ available = 0
        /\ Tell(r, IF closed THEN "failed" ELSE "eof")
        /\ Goto(r, Waiting)
        /\ readMu' = Free
     \/ /\ ~closed /\ available > 0
        /\ \E n \in 1..Min({MaxChunk, available}) :
             Goto(r, [reader[r] EXCEPT !.pc = "file", !.want = n])
        /\ UNCHANGED <<ended, readMu>>
  /\ ReaderStep /\ UNCHANGED <<got, fresh>>

(* file.ReadAt brings all that was asked for, or less of it and an error.  *)
ReadFile(r) ==
  /\ reader[r].pc = "file"
  /\ \E n \in 0..reader[r].want :
       /\ got' = [got EXCEPT ![r] = @ \o SubSeq(file, Len(@) + 1, Len(@) + n)]
       /\ IF n = reader[r].want THEN UNCHANGED ended ELSE Tell(r, "failed")
  /\ Goto(r, Waiting)
  /\ readMu' = Free
  /\ ReaderStep /\ UNCHANGED fresh

CloseReader(r) ==
  /\ ~cancel[r]
  /\ cancel' = [cancel EXCEPT ![r] = TRUE]
  /\ UNCHANGED <<streamVars, bodyVars, fileVars, sharedVars, readerVars, download, closed,
                 canceled, readMu, closing, probe, fresh>>

Reading(r) ==
  LookAgain(r) \/ Select(r) \/ StallTimer(r) \/ LockFile(r) \/ ReadAt(r) \/ ReadFile(r)

-----------------------------------------------------------------------------
(* Close and completedPath                                                 *)

CloseMark ==
  /\ closing = "open"
  /\ closing' = "marked"
  /\ closed' = TRUE /\ done' = TRUE /\ err' = TRUE
  /\ reader' = Woken
  /\ UNCHANGED <<streamVars, bodyVars, fileVars, downloaded, got, ended, download, canceled,
                 readMu, cancel, probe, fresh>>

BadCanceled == FALSE
Canceled == TRUE

CloseCancel ==
  /\ closing = "marked"
  /\ closing' = "canceled"
  /\ canceled' = Canceled
  /\ UNCHANGED <<streamVars, bodyVars, fileVars, sharedVars, readerVars, download, closed,
                 readMu, cancel, probe, fresh>>

(* <-b.downloadDone, then readMu.                                          *)
BadMayRemove == readMu = Free
MayRemove == download = "exited" /\ readMu = Free

CloseLock ==
  /\ closing = "canceled" /\ MayRemove
  /\ closing' = "locked"
  /\ readMu' = "closer"
  /\ UNCHANGED <<streamVars, bodyVars, fileVars, sharedVars, readerVars, download, closed,
                 canceled, cancel, probe, fresh>>

CloseFile ==
  /\ closing = "locked"
  /\ closing' = "closed"
  /\ fileOpen' = FALSE
  /\ readMu' = Free
  /\ UNCHANGED <<streamVars, bodyVars, offset, file, sharedVars, readerVars, download, closed,
                 canceled, cancel, probe, fresh>>

(* probeDownloadedLength takes the path of a complete file only.           *)
BadComplete == ~closed /\ done /\ ~err
Complete == ~closed /\ done /\ ~err /\ ~(total >= 0 /\ downloaded < total)

CompletedPath ==
  /\ probe = "waiting" /\ download = "exited"
  /\ probe' = IF Complete THEN "whole" ELSE "no"
  /\ UNCHANGED <<streamVars, bodyVars, fileVars, sharedVars, readerVars, download, closed,
                 canceled, readMu, cancel, closing, fresh>>

Close == CloseCancel \/ CloseLock \/ CloseFile

-----------------------------------------------------------------------------

Next ==
  \/ CheckClosed
  \/ ReadBody
  \/ CheckFile
  \/ WriteFile
  \/ Publish
  \/ NextSegment
  \/ Finish
  \/ \E r \in Readers : BeginRead(r)
  \/ \E r \in Readers : LookAgain(r)
  \/ \E r \in Readers : Select(r)
  \/ \E r \in Readers : StallTimer(r)
  \/ \E r \in Readers : LockFile(r)
  \/ \E r \in Readers : ReadAt(r)
  \/ \E r \in Readers : ReadFile(r)
  \/ \E r \in Readers : CloseReader(r)
  \/ CloseMark
  \/ CloseCancel
  \/ CloseLock
  \/ CloseFile
  \/ CompletedPath

Spec == Init /\ [][Next]_vars

(* Goroutines run, timers expire and a mutex is handed to a waiter that    *)
(* waits long enough.  The network owes nothing, but a canceled request    *)
(* returns.                                                                *)
Fairness ==
  /\ WF_vars(Download) /\ WF_vars(Network /\ canceled)
  /\ \A r \in Readers : SF_vars(Reading(r))
  /\ SF_vars(Close) /\ WF_vars(CompletedPath)

FairSpec == Spec /\ Fairness

-----------------------------------------------------------------------------
(* Properties *)

TypeOK ==
  /\ size \in Nat /\ cuts \subseteq Nat /\ total \in Int
  /\ download \in {"check", "read", "write", "put", "publish", "next", "finish", "exited"}
  /\ fetched \in 0..size /\ offset \in 0..fetched /\ downloaded \in 0..offset
  /\ readMu \in Readers \cup {Free, "closer"}

Stream == INSTANCE ByteStream WITH Listeners <- Readers, source <- Source

(* Every ffmpeg process reads the stream from its first byte, whatever     *)
(* else reads, and sees the end only behind the last one: "a read blocks   *)
(* until the requested position has been downloaded".                      *)
ReadsTheStream == Stream!Spec

(* "Only a true stall triggers the timeout": a read that neither Close nor *)
(* a failed download ended gives up only if no byte came since its timer   *)
(* last started.                                                           *)
StallIsTrue ==
  [][\A r \in Readers :
       /\ reader[r].pc = "look" /\ ended[r] = "no" /\ ended'[r] = "failed"
       /\ ~cancel[r] /\ ~err
       => ~fresh[r]]_vars

(* "No file operation may overlap Close or Remove", and the probe measures *)
(* a whole file: all bytes the server sent, as many as it promised.        *)
FileSound ==
  /\ download = "put" \/ (\E r \in Readers : reader[r].pc = "file") => fileOpen
  /\ probe = "whole" => file = Source /\ size >= total

(* Every Read returns, stalled network or not, and so does Close.          *)
CallsReturn ==
  /\ \A r \in Readers : reader[r].pc # "idle" ~> reader[r].pc = "idle"
  /\ closing # "open" ~> closing = "closed"
=============================================================================
