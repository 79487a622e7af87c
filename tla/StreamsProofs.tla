---------------------------- MODULE StreamsProofs ----------------------------
(***************************************************************************)
(* Proofs about what stands between the network and the speaker: nobody    *)
(* uses the file of a download behind its Close, whoever listens to a      *)
(* download or a live stream hears its source in order and is told the end *)
(* behind the last byte, and whatever a lost connection, a seek and Close  *)
(* of a Spotify track meet, no stream is left open and none is heard out   *)
(* of its place.                                                           *)
(*                                                                         *)
(* The first part is about NavBuffer.tla (Load), the second about          *)
(* LivePrefetch.tla (Live), the third about SpotifyStream.tla.             *)
(***************************************************************************)
EXTENDS MCStreams, SequenceTheorems, WellFoundedInduction, TLAPS

-----------------------------------------------------------------------------
(* The invariant of a download                                             *)

(* The first n bytes, or frames, of a stream.                              *)
Upto(n) == [i \in 1..n |-> i]

(* How far the download has come.                                          *)
LoadTypes ==
  /\ bytes \in Nat /\ cuts \subseteq 1..bytes - 1 /\ total \in Int
  /\ download \in {"check", "read", "write", "put", "publish", "next", "finish", "exited"}
  /\ tail \in {"more", "eof", "error"}
  /\ fetched \in Nat /\ bodyEnd \in Nat /\ offset \in Nat /\ downloaded \in Nat
  /\ downloaded <= offset /\ offset <= fetched /\ fetched <= bodyEnd /\ bodyEnd <= bytes
  /\ done \in BOOLEAN /\ fileErr \in BOOLEAN /\ fileClosed \in BOOLEAN /\ fileOpen \in BOOLEAN

(* What is in the file, and what the download goroutine knows of it.       *)
FileInv ==
  /\ file = Upto(offset)
  /\ download \in {"write", "put"} => offset < fetched
  /\ download \in {"check", "read", "next"} => offset = fetched
  /\ download = "publish" /\ tail # "error" => offset = fetched
  /\ download \in {"write", "put", "publish"} /\ tail = "eof" => fetched = bodyEnd
  /\ download = "finish" => tail # "more" /\ (tail = "eof" => offset = bytes)
  /\ ~fileClosed /\ download # "publish" => downloaded = offset

(* A download that ended well has all of the stream.                       *)
WholeInv ==
  /\ done /\ ~fileErr => ~fileClosed /\ download = "exited" /\ downloaded = bytes
  /\ probe = "whole" => download = "exited" /\ offset = bytes /\ bytes >= total

(* How far Close is, and who holds readMu.                                 *)
FileLockInv ==
  /\ fileClosing \in {"open", "marked", "canceled", "locked", "closed"}
  /\ fileClosed <=> fileClosing # "open"
  /\ fileClosed => done /\ fileErr
  /\ fileClosing = "locked" => readMu = "closer"
  /\ fileClosing \in {"locked", "closed"} => download = "exited"
  /\ fileOpen <=> fileClosing # "closed"
  /\ \A r \in Readers : reader[r].pc \in {"at", "file"} <=> readMu = r
  /\ fileClosing = "closed" => \A r \in Readers : reader[r].pc # "file"

ReaderState == [pc : {"idle", "look", "select", "lock", "at", "file"}, seen : Nat,
                expired : BOOLEAN, timer : {"off", "on", "fired"}, woken : BOOLEAN, want : Nat]

ReaderTypes ==
  /\ reader \in [Readers -> ReaderState]
  /\ got \in [Readers -> Seq(Nat)] /\ ended \in [Readers -> {"no", "eof", "failed"}]
  /\ readerCancel \in [Readers -> BOOLEAN] /\ fresh \in [Readers -> BOOLEAN]

(* A reader has the beginning of what was downloaded; while it waits, its  *)
(* timer looks back to the bytes that it has seen.                         *)
CursorInv ==
  \A r \in Readers :
    /\ got[r] = Upto(Len(got[r])) /\ Len(got[r]) <= downloaded
    /\ reader[r].pc = "file" => Len(got[r]) + reader[r].want <= downloaded
    /\ reader[r].pc # "idle" => ended[r] = "no"
    /\ reader[r].pc \in {"look", "select"} =>
         reader[r].seen <= downloaded /\ (fresh[r] => reader[r].seen < downloaded)
    /\ reader[r].pc \in {"lock", "at"} /\ ~fileClosed =>
         Len(got[r]) < downloaded \/ (done /\ ~fileErr)

DownloadInv == LoadTypes /\ FileInv /\ WholeInv
LoadInv == DownloadInv /\ FileLockInv /\ ReaderTypes /\ CursorInv

-----------------------------------------------------------------------------
(* Numbers and sequences                                                   *)

LEMMA Least ==
  ASSUME NEW T \in SUBSET Nat, T # {}
  PROVE  Load!Min(T) \in T /\ \A y \in T : Load!Min(T) <= y
<1>1. PICK x \in T : \A y \in T : ~(<<y, x>> \in OpToRel(<, Nat))
  BY WFMin, NatLessThanWellFounded
<1>2. \A y \in T : <<y, x>> \in OpToRel(<, Nat) <=> y < x
  BY DEF OpToRel
<1>3. \A y \in T : ~(y < x)
  BY <1>1, <1>2, Zenon
<1>4. \A y \in T : x <= y
  BY <1>3
<1> QED BY <1>4 DEF Load!Min

LEMMA LesserOf ==
  ASSUME NEW a \in Nat, NEW b \in Nat
  PROVE  Load!Min({a, b}) \in Nat /\ Load!Min({a, b}) <= a /\ Load!Min({a, b}) <= b
BY Least

(* A segment ends behind its beginning and within the stream.              *)
LEMMA SegmentEnds ==
  ASSUME LoadTypes, NEW n \in Nat, n <= bytes
  PROVE  Load!SegmentEnd(n) \in Nat /\ n <= Load!SegmentEnd(n) /\ Load!SegmentEnd(n) <= bytes
<1> DEFINE T == {c \in cuts : c > n} \cup {bytes}
<1>0. bytes \in Nat /\ \A c \in cuts : c \in 1..bytes - 1
  BY DEF LoadTypes
<1>a. \A c \in T : c \in Nat /\ n <= c /\ c <= bytes
  BY <1>0
<1>1. T \in SUBSET Nat /\ T # {} /\ \A c \in T : n <= c /\ c <= bytes
  BY <1>a
<1>2. Load!Min(T) \in T
  BY <1>1, Least
<1>3. Load!SegmentEnd(n) = Load!Min(T)
  BY DEF Load!SegmentEnd
<1> QED BY <1>1, <1>2, <1>3

LEMMA UptoIs ==
  ASSUME NEW n \in Nat
  PROVE  /\ Upto(n) \in Seq(Nat) /\ Len(Upto(n)) = n /\ DOMAIN Upto(n) = 1..n
         /\ \A i \in 1..n : Upto(n)[i] = i
BY DEF Upto

(* n elements of a sequence after the first m. *)
LEMMA SliceFacts ==
  ASSUME NEW f \in Seq(Nat), NEW m \in Nat, NEW n \in Nat, m + n <= Len(f)
  PROVE  LET s == SubSeq(f, m + 1, m + n)
         IN  s \in Seq(Nat) /\ Len(s) = n /\ \A i \in 1..n : s[i] = f[m + i]
<1> DEFINE s == SubSeq(f, m + 1, m + n)
<1>1. s \in Seq(Nat)
  BY SubSeqProperties
<1>2. Len(s) = n
  BY SubSeqProperties
<1>3. \A i \in 1..n : s[i] = f[m + i]
  BY SubSeqProperties
<1> QED BY <1>1, <1>2, <1>3

(* Two beginnings of a stream are the same if they have the same length.   *)
LEMMA IsUpto ==
  ASSUME NEW S, NEW s \in Seq(S), NEW n \in Nat, Len(s) = n, \A i \in 1..n : s[i] = i
  PROVE  s = Upto(n)
BY DEF Upto

LEMMA PartOfUpto ==
  ASSUME NEW n \in Nat, NEW m \in Nat, m <= n
  PROVE  SubSeq(Upto(n), 1, m) = Upto(m)
<1> DEFINE s == SubSeq(Upto(n), 1, m)
<1>1. Upto(n) \in Seq(Nat) /\ Len(Upto(n)) = n /\ \A i \in 1..n : Upto(n)[i] = i
  BY UptoIs
<1>2. s \in Seq(Nat) /\ Len(s) = m /\ \A i \in 1..m : s[i] = i
  <2> HIDE DEF Upto
  <2> QED BY <1>1
<1> QED BY <1>2, IsUpto

(* What follows a beginning of the stream makes it longer.                 *)
LEMMA UptoAndMore ==
  ASSUME NEW n \in Nat, NEW m \in Nat, NEW S, NEW s \in Seq(S), Len(s) = m,
         \A i \in 1..m : s[i] = n + i
  PROVE  Upto(n) \o s = Upto(n + m)
<1>1. Upto(n) \in Seq(Nat) /\ Len(Upto(n)) = n /\ \A i \in 1..n : Upto(n)[i] = i
  BY UptoIs
<1> DEFINE t == Upto(n) \o s
<1>2. t \in Seq(Nat \cup S) /\ Len(t) = n + m
  BY <1>1
<1>3. \A i \in 1..(n + m) : t[i] = i
  BY <1>1
<1> HIDE DEF t
<1>4. t = Upto(n + m)
  BY <1>2, <1>3, IsUpto
<1> QED BY <1>4 DEF t

-----------------------------------------------------------------------------
(* The download                                                            *)

Downloads ==
  \/ Load!CheckClosed \/ Load!ReadBody \/ Load!CheckFile \/ Load!WriteFile \/ Load!Publish
  \/ Load!NextSegment \/ Load!Finish

Reads(r) ==
  \/ Load!BeginRead(r) \/ Load!LookAgain(r) \/ Load!Select(r) \/ Load!StallTimer(r)
  \/ Load!LockFile(r) \/ Load!ReadAt(r) \/ Load!ReadFile(r)

Closing == Load!CloseMark \/ Load!CloseCancel \/ Load!CloseLock \/ Load!CloseFile

(* Every step of the download is one of these.                             *)
LEMMA LoadSteps ==
  ASSUME Load!Next
  PROVE  \/ Downloads \/ Closing \/ Load!CompletedPath
         \/ \E r \in Readers : Reads(r) \/ Load!CloseReader(r)
BY DEF Load!Next, Downloads, Closing, Reads

(* What the steps of the readers leave alone.                              *)
downloadVars == <<bytes, cuts, total, download, fetched, bodyEnd, offset, tail, file, fileOpen,
                  downloaded, done, fileErr, fileClosed, fileClosing, probe>>

LEMMA ReadsLeave ==
  ASSUME NEW r, Reads(r) \/ Load!CloseReader(r)
  PROVE  UNCHANGED downloadVars
BY DEF Reads, downloadVars, Load!BeginRead, Load!LookAgain, Load!Select, Load!StallTimer,
   Load!LockFile, Load!ReadAt, Load!ReadFile, Load!CloseReader, Load!ReaderStep, Load!streamVars,
   Load!bodyVars, Load!fileVars, Load!sharedVars

LEMMA DownloadStays ==
  ASSUME DownloadInv, UNCHANGED downloadVars
  PROVE  DownloadInv'
BY DEF DownloadInv, LoadTypes, FileInv, WholeInv, downloadVars

(* What was written is appended to the file.                               *)
LEMMA Appends ==
  ASSUME LoadTypes, FileInv, NEW n \in Nat
  PROVE  Load!Put(offset, offset + 1, offset + n) = Upto(offset + n)
<1> DEFINE s == [k \in 1..((offset + n) - (offset + 1) + 1) |-> (offset + 1) + k - 1]
<1>1. SubSeq(file, 1, offset) = Upto(offset)
  BY PartOfUpto DEF LoadTypes, FileInv
<1>2. (offset + n) - (offset + 1) + 1 = n
  BY DEF LoadTypes
<1>3. s \in Seq(Nat) /\ Len(s) = n /\ \A i \in 1..n : s[i] = offset + i
  BY <1>2 DEF LoadTypes
<1>4. Upto(offset) \o s = Upto(offset + n)
  <2> HIDE DEF s
  <2> QED BY <1>3, UptoAndMore DEF LoadTypes
<1> QED BY <1>1, <1>4 DEF Load!Put

LEMMA DownloadKept ==
  ASSUME DownloadInv, FileLockInv, Downloads
  PROVE  DownloadInv'
<1> USE DEF DownloadInv, LoadTypes, Load!streamVars, Load!bodyVars, Load!fileVars,
        Load!sharedVars
<1>1. CASE Load!CheckClosed \/ Load!CheckFile
  <2>1. LoadTypes'
    BY <1>1 DEF Load!CheckClosed, Load!CheckFile
  <2>2. FileInv' /\ WholeInv'
    BY <1>1 DEF Load!CheckClosed, Load!CheckFile, FileInv, WholeInv
  <2> QED BY <2>1, <2>2
<1>2. CASE Load!ReadBody
  <2>1. PICK n \in 0..Load!Min({MaxChunk, bodyEnd - fetched}), how \in {"more", "eof", "error"} :
          /\ how = "eof" => fetched + n = bodyEnd
          /\ how = "more" => n > 0
          /\ fetched' = fetched + n
          /\ tail' = how
          /\ download' = IF n > 0 THEN "write" ELSE Load!After(how)
    BY <1>2 DEF Load!ReadBody
  <2>2. n \in Nat /\ fetched + n <= bodyEnd
    <3>1. bodyEnd - fetched \in Nat
      OBVIOUS
    <3> QED BY <3>1, StreamsAssumption, LesserOf
  <2>3. /\ UNCHANGED <<bytes, cuts, total, bodyEnd, offset, file, fileOpen, downloaded, done,
                       fileErr, fileClosed, probe>>
        /\ download = "read"
    BY <1>2 DEF Load!ReadBody
  <2>4. /\ n = 0 => download' = IF how = "eof" /\ bodyEnd < bytes THEN "next" ELSE "finish"
        /\ n = 0 /\ how = "eof" => fetched = bodyEnd
    BY <2>1, <2>2 DEF Load!After
  <2>5. LoadTypes'
    BY <2>1, <2>2, <2>3, <2>4
  <2>6. FileInv' /\ WholeInv'
    BY <2>1, <2>2, <2>3, <2>4 DEF FileInv, WholeInv
  <2> QED BY <2>5, <2>6
<1>3. CASE Load!WriteFile
  <2>1. PICK n \in 0..(fetched - offset) :
          /\ file' = Load!Put(offset, offset + 1, offset + n)
          /\ offset' = offset + n
          /\ tail' = IF offset + n = fetched THEN tail ELSE "error"
          /\ download' = IF n > 0 THEN "publish" ELSE "finish"
    BY <1>3 DEF Load!WriteFile
  <2>2. /\ UNCHANGED <<bytes, cuts, total, fetched, bodyEnd, fileOpen, downloaded, done, fileErr,
                       fileClosed, probe>>
        /\ download = "put"
    BY <1>3 DEF Load!WriteFile
  <2>3. n \in Nat /\ file' = Upto(offset + n)
    BY <2>1, Appends
  <2>4. LoadTypes'
    BY <2>1, <2>2, <2>3
  <2>5. FileInv' /\ WholeInv'
    BY <2>1, <2>2, <2>3 DEF FileInv, WholeInv
  <2> QED BY <2>4, <2>5
<1>4. CASE Load!Publish
  <2>1. /\ UNCHANGED <<bytes, cuts, total, fetched, bodyEnd, tail, offset, file, fileOpen, done,
                       fileErr, fileClosed, probe>>
        /\ download = "publish"
        /\ download' = Load!After(tail)
        /\ downloaded' = IF ~fileClosed THEN offset ELSE downloaded
    BY <1>4 DEF Load!Publish
  <2>2. download' = (CASE tail = "more" -> "check"
                       [] tail = "eof" /\ bodyEnd < bytes -> "next"
                       [] tail = "eof" /\ bodyEnd = bytes -> "finish"
                       [] tail = "error" -> "finish")
    BY <2>1 DEF Load!After
  <2>3. /\ tail = "more" => download' = "check"
        /\ tail = "eof" => download' = IF bodyEnd < bytes THEN "next" ELSE "finish"
        /\ tail = "error" => download' = "finish"
    BY <2>2
  <2>4. LoadTypes'
    BY <2>1, <2>3
  <2>5. FileInv' /\ WholeInv'
    BY <2>1, <2>3 DEF FileInv, WholeInv
  <2> QED BY <2>4, <2>5
<1>5. CASE Load!NextSegment
  <2>1. /\ UNCHANGED <<bytes, cuts, total, fetched, offset, file, fileOpen, downloaded, done,
                       fileErr, fileClosed, probe>>
        /\ download = "next"
        /\ \/ bodyEnd' = Load!SegmentEnd(bodyEnd) /\ download' = "check" /\ tail' = tail
           \/ tail' = "error" /\ download' = "finish" /\ bodyEnd' = bodyEnd
    BY <1>5 DEF Load!NextSegment
  <2>2. /\ Load!SegmentEnd(bodyEnd) \in Nat /\ bodyEnd <= Load!SegmentEnd(bodyEnd)
        /\ Load!SegmentEnd(bodyEnd) <= bytes
    BY SegmentEnds
  <2>3. LoadTypes'
    BY <2>1, <2>2
  <2>4. FileInv' /\ WholeInv'
    BY <2>1 DEF FileInv, WholeInv
  <2> QED BY <2>3, <2>4
<1>6. CASE Load!Finish
  <2>1. /\ UNCHANGED <<bytes, cuts, total, fetched, bodyEnd, tail, offset, file, fileOpen,
                       downloaded, fileClosed, probe>>
        /\ download = "finish" /\ download' = "exited"
        /\ \/ fileClosed /\ done' = done /\ fileErr' = fileErr
           \/ ~fileClosed /\ done' = TRUE /\ fileErr' = (tail = "error")
    BY <1>6 DEF Load!Finish, Load!Finished
  <2>2. LoadTypes'
    BY <2>1
  <2>3. FileInv' /\ WholeInv'
    BY <2>1 DEF FileInv, WholeInv, FileLockInv
  <2> QED BY <2>2, <2>3
<1> QED BY <1>1, <1>2, <1>3, <1>4, <1>5, <1>6 DEF Downloads

LEMMA ClosingKeepsDownload ==
  ASSUME DownloadInv, FileLockInv, Closing \/ Load!CompletedPath
  PROVE  DownloadInv'
<1>1. CASE Load!CloseMark
  <2>1. LoadTypes'
    BY <1>1 DEF DownloadInv, LoadTypes, Load!CloseMark, Load!streamVars, Load!bodyVars,
       Load!fileVars
  <2>2. FileInv' /\ WholeInv'
    BY <1>1 DEF DownloadInv, FileInv, WholeInv, Load!CloseMark, Load!streamVars, Load!bodyVars,
       Load!fileVars
  <2> QED BY <2>1, <2>2 DEF DownloadInv
<1>2. CASE Load!CloseCancel \/ Load!CloseLock \/ Load!CloseFile
  <2>1. LoadTypes'
    BY <1>2 DEF DownloadInv, LoadTypes, Load!CloseCancel, Load!CloseLock, Load!CloseFile,
       Load!streamVars, Load!bodyVars, Load!fileVars, Load!sharedVars
  <2>2. FileInv' /\ WholeInv'
    BY <1>2 DEF DownloadInv, FileInv, WholeInv, Load!CloseCancel, Load!CloseLock, Load!CloseFile,
       Load!streamVars, Load!bodyVars, Load!fileVars, Load!sharedVars
  <2> QED BY <2>1, <2>2 DEF DownloadInv
<1>3. CASE Load!CompletedPath
  <2>1. LoadTypes' /\ FileInv'
    BY <1>3 DEF DownloadInv, LoadTypes, FileInv, Load!CompletedPath, Load!streamVars,
       Load!bodyVars, Load!fileVars, Load!sharedVars
  <2>2. Load!Complete => offset = bytes /\ bytes >= total
    BY DEF DownloadInv, LoadTypes, FileInv, WholeInv, Load!Complete
  <2>3. WholeInv'
    BY <1>3, <2>2 DEF DownloadInv, WholeInv, Load!CompletedPath, Load!streamVars,
       Load!bodyVars, Load!fileVars, Load!sharedVars
  <2> QED BY <2>1, <2>3 DEF DownloadInv
<1> QED BY <1>1, <1>2, <1>3 DEF Closing

-----------------------------------------------------------------------------
(* The readers                                                             *)

(* What one reader's step may do to it: it goes on as s.                   *)
LEMMA GoesOn ==
  ASSUME ReaderTypes, NEW r \in Readers, NEW s \in ReaderState, Load!Goto(r, s)
  PROVE  /\ reader' \in [Readers -> ReaderState] /\ reader'[r] = s
         /\ \A q \in Readers : q # r => reader'[q] = reader[q]
BY DEF ReaderTypes, Load!Goto

LEMMA Tells ==
  ASSUME ReaderTypes, NEW r \in Readers, NEW how \in {"eof", "failed"}, Load!Tell(r, how)
  PROVE  /\ ended' \in [Readers -> {"no", "eof", "failed"}] /\ ended'[r] = how
         /\ \A q \in Readers : q # r => ended'[q] = ended[q]
BY DEF ReaderTypes, Load!Tell

LEMMA IdleState ==
  Load!Waiting \in ReaderState /\ Load!Waiting.pc = "idle"
BY DEF Load!Waiting, ReaderState

(* What a step of reader r does to it, to readMu and to its history.       *)
ReaderMove(r) ==
  LET s == reader[r]
      t == reader'[r]
  IN
  /\ reader' \in [Readers -> ReaderState] /\ got' \in [Readers -> Seq(Nat)]
  /\ ended' \in [Readers -> {"no", "eof", "failed"}] /\ fresh' \in [Readers -> BOOLEAN]
  /\ \A q \in Readers : q # r =>
       reader'[q] = reader[q] /\ got'[q] = got[q] /\ ended'[q] = ended[q] /\ fresh'[q] = fresh[q]
  /\ \/ /\ s.pc = "idle" /\ ended[r] = "no" /\ t.pc = "look" /\ t.seen = downloaded
        /\ fresh'[r] = FALSE /\ UNCHANGED <<got, ended, readMu>>
     \/ /\ s.pc \in {"look", "select"} /\ t.pc \in {"look", "select"}
        /\ \/ t.seen = s.seen /\ fresh' = fresh
           \/ t.seen = downloaded /\ fresh'[r] = FALSE
        /\ UNCHANGED <<got, ended, readMu>>
     \/ /\ s.pc \in {"look", "select"} /\ t.pc = "idle" /\ ended'[r] = "failed"
        /\ s.pc = "look" /\ ~readerCancel[r] /\ ~fileErr /\ ~fileClosed =>
             ~done /\ downloaded <= s.seen
        /\ UNCHANGED <<got, readMu, fresh>>
     \/ /\ s.pc = "look" /\ t.pc = "lock" /\ UNCHANGED <<got, ended, readMu, fresh>>
        /\ Len(got[r]) < downloaded \/ (done /\ ~fileErr)
     \/ /\ s.pc = t.pc /\ t.seen = s.seen /\ t.want = s.want
        /\ UNCHANGED <<got, ended, readMu, fresh>>
     \/ /\ s.pc = "lock" /\ t.pc = "at" /\ readMu = "free" /\ readMu' = r
        /\ UNCHANGED <<got, ended, fresh>>
     \/ /\ s.pc = "at" /\ t.pc = "idle" /\ readMu' = "free"
        /\ ended'[r] = "failed" \/ (ended'[r] = "eof" /\ ~fileClosed /\ downloaded = Len(got[r]))
        /\ UNCHANGED <<got, fresh>>
     \/ /\ s.pc = "at" /\ t.pc = "file" /\ ~fileClosed /\ Len(got[r]) + t.want <= downloaded
        /\ UNCHANGED <<got, ended, readMu, fresh>>
     \/ /\ s.pc = "file" /\ t.pc = "idle" /\ readMu' = "free"
        /\ ended'[r] \in {ended[r], "failed"} /\ UNCHANGED fresh
        /\ \E n \in 0..s.want : got'[r] = Upto(Len(got[r]) + n)

LEMMA ReadsMove ==
  ASSUME DownloadInv, ReaderTypes, CursorInv, NEW r \in Readers, Reads(r)
  PROVE  ReaderMove(r)
<1>1. /\ reader \in [Readers -> ReaderState] /\ got \in [Readers -> Seq(Nat)]
      /\ ended \in [Readers -> {"no", "eof", "failed"}] /\ fresh \in [Readers -> BOOLEAN]
      /\ readerCancel \in [Readers -> BOOLEAN] /\ downloaded \in Nat
      /\ Len(got[r]) \in Nat /\ reader[r] \in ReaderState /\ got[r] \in Seq(Nat)
  BY DEF ReaderTypes, DownloadInv, LoadTypes
<1>2. CASE Load!BeginRead(r)
  <2> DEFINE t == [Load!Waiting EXCEPT !.pc = "look", !.seen = downloaded, !.timer = "on"]
  <2>1. t \in ReaderState /\ t.pc = "look" /\ t.seen = downloaded
    BY <1>1 DEF Load!Waiting, ReaderState
  <2>2. /\ reader[r].pc = "idle" /\ ended[r] = "no" /\ Load!Goto(r, t)
        /\ fresh' = [fresh EXCEPT ![r] = FALSE] /\ UNCHANGED <<got, ended, readMu>>
    BY <1>2 DEF Load!BeginRead
  <2> HIDE DEF t
  <2>3. /\ reader' \in [Readers -> ReaderState] /\ reader'[r] = t
        /\ \A q \in Readers : q # r => reader'[q] = reader[q]
    BY <2>1, <2>2, GoesOn
  <2> QED BY <1>1, <2>1, <2>2, <2>3 DEF ReaderMove
<1>3. CASE Load!LookAgain(r)
  <2>1. /\ reader[r].pc = "look" /\ UNCHANGED <<got, readMu>>
        /\ fresh' = IF Load!Look(r) = "progress" THEN [fresh EXCEPT ![r] = FALSE] ELSE fresh
    BY <1>3 DEF Load!LookAgain
  <2>2. Load!Look(r) \in {"failed", "data", "progress", "wait"}
    BY DEF Load!Look
  <2>3. CASE Load!Look(r) = "failed"
    <3>1. Load!Goto(r, Load!Waiting) /\ Load!Tell(r, "failed")
      BY <1>3, <2>3 DEF Load!LookAgain
    <3>2. ~readerCancel[r] /\ ~fileErr /\ ~fileClosed => ~done /\ downloaded <= reader[r].seen
      BY <1>1, <2>3 DEF Load!Look, ReaderState
    <3>3. /\ reader' \in [Readers -> ReaderState] /\ reader'[r] = Load!Waiting
          /\ \A q \in Readers : q # r => reader'[q] = reader[q]
      BY <3>1, IdleState, GoesOn
    <3>4. /\ ended' \in [Readers -> {"no", "eof", "failed"}] /\ ended'[r] = "failed"
          /\ \A q \in Readers : q # r => ended'[q] = ended[q]
      BY <3>1, Tells
    <3> QED BY <1>1, <2>1, <2>3, <3>2, <3>3, <3>4, IdleState DEF ReaderMove
  <2>4. CASE Load!Look(r) = "data"
    <3> DEFINE t == [Load!Waiting EXCEPT !.pc = "lock"]
    <3>1. t \in ReaderState /\ t.pc = "lock"
      BY DEF Load!Waiting, ReaderState
    <3>2. Load!Goto(r, t) /\ ended' = ended
      BY <1>3, <2>4 DEF Load!LookAgain
    <3>3. Len(got[r]) < downloaded \/ (done /\ ~fileErr)
      BY <1>1, <2>4 DEF Load!Look
    <3> HIDE DEF t
    <3>4. /\ reader' \in [Readers -> ReaderState] /\ reader'[r] = t
          /\ \A q \in Readers : q # r => reader'[q] = reader[q]
      BY <3>1, <3>2, GoesOn
    <3> QED BY <1>1, <2>1, <2>4, <3>1, <3>2, <3>3, <3>4 DEF ReaderMove
  <2>5. CASE Load!Look(r) = "progress"
    <3> DEFINE t == [reader[r] EXCEPT !.pc = "select", !.seen = downloaded, !.timer = "on",
                                      !.expired = FALSE, !.woken = FALSE]
    <3>1. t \in ReaderState /\ t.pc = "select" /\ t.seen = downloaded
      BY <1>1 DEF ReaderState
    <3>2. Load!Goto(r, t) /\ ended' = ended
      BY <1>3, <2>5 DEF Load!LookAgain
    <3> HIDE DEF t
    <3>3. /\ reader' \in [Readers -> ReaderState] /\ reader'[r] = t
          /\ \A q \in Readers : q # r => reader'[q] = reader[q]
      BY <3>1, <3>2, GoesOn
    <3> QED BY <1>1, <2>1, <2>5, <3>1, <3>2, <3>3 DEF ReaderMove
  <2>6. CASE Load!Look(r) = "wait"
    <3> DEFINE t == [reader[r] EXCEPT !.pc = "select", !.woken = FALSE]
    <3>1. t \in ReaderState /\ t.pc = "select" /\ t.seen = reader[r].seen
      BY <1>1 DEF ReaderState
    <3>2. Load!Goto(r, t) /\ ended' = ended
      BY <1>3, <2>6 DEF Load!LookAgain
    <3> HIDE DEF t
    <3>3. /\ reader' \in [Readers -> ReaderState] /\ reader'[r] = t
          /\ \A q \in Readers : q # r => reader'[q] = reader[q]
      BY <3>1, <3>2, GoesOn
    <3> QED BY <1>1, <2>1, <2>6, <3>1, <3>2, <3>3 DEF ReaderMove
  <2> QED BY <2>2, <2>3, <2>4, <2>5, <2>6
<1>4. CASE Load!Select(r)
  <2>1. reader[r].pc = "select" /\ UNCHANGED <<got, readMu, fresh>>
    BY <1>4 DEF Load!Select
  <2>2. CASE Load!Goto(r, [reader[r] EXCEPT !.pc = "look"]) /\ ended' = ended
    <3> DEFINE t == [reader[r] EXCEPT !.pc = "look"]
    <3>1. t \in ReaderState /\ t.pc = "look" /\ t.seen = reader[r].seen
      BY <1>1 DEF ReaderState
    <3> HIDE DEF t
    <3>2. /\ reader' \in [Readers -> ReaderState] /\ reader'[r] = t
          /\ \A q \in Readers : q # r => reader'[q] = reader[q]
      BY <2>2, <3>1, GoesOn DEF t
    <3> QED BY <1>1, <2>1, <2>2, <3>1, <3>2 DEF ReaderMove
  <2>3. CASE /\ Load!Goto(r, [reader[r] EXCEPT !.pc = "look", !.timer = "off", !.expired = TRUE])
             /\ ended' = ended
    <3> DEFINE t == [reader[r] EXCEPT !.pc = "look", !.timer = "off", !.expired = TRUE]
    <3>1. t \in ReaderState /\ t.pc = "look" /\ t.seen = reader[r].seen
      BY <1>1 DEF ReaderState
    <3> HIDE DEF t
    <3>2. /\ reader' \in [Readers -> ReaderState] /\ reader'[r] = t
          /\ \A q \in Readers : q # r => reader'[q] = reader[q]
      BY <2>3, <3>1, GoesOn DEF t
    <3> QED BY <1>1, <2>1, <2>3, <3>1, <3>2 DEF ReaderMove
  <2>4. CASE Load!Goto(r, Load!Waiting) /\ Load!Tell(r, "failed")
    <3>1. /\ reader' \in [Readers -> ReaderState] /\ reader'[r] = Load!Waiting
          /\ \A q \in Readers : q # r => reader'[q] = reader[q]
      BY <2>4, IdleState, GoesOn
    <3>2. /\ ended' \in [Readers -> {"no", "eof", "failed"}] /\ ended'[r] = "failed"
          /\ \A q \in Readers : q # r => ended'[q] = ended[q]
      BY <2>4, Tells
    <3> QED BY <1>1, <2>1, <3>1, <3>2, IdleState DEF ReaderMove
  <2> QED BY <1>4, <2>2, <2>3, <2>4 DEF Load!Select
<1>5. CASE Load!StallTimer(r)
  <2> DEFINE t == [reader[r] EXCEPT !.timer = "fired"]
  <2>1. /\ t \in ReaderState /\ t.pc = reader[r].pc /\ t.seen = reader[r].seen
        /\ t.want = reader[r].want
    BY <1>1 DEF ReaderState
  <2>2. Load!Goto(r, t) /\ UNCHANGED <<got, ended, readMu, fresh>>
    BY <1>5 DEF Load!StallTimer
  <2> HIDE DEF t
  <2>3. /\ reader' \in [Readers -> ReaderState] /\ reader'[r] = t
        /\ \A q \in Readers : q # r => reader'[q] = reader[q]
    BY <2>1, <2>2, GoesOn
  <2> QED BY <1>1, <2>1, <2>2, <2>3 DEF ReaderMove
<1>6. CASE Load!LockFile(r)
  <2> DEFINE t == [reader[r] EXCEPT !.pc = "at"]
  <2>1. t \in ReaderState /\ t.pc = "at"
    BY <1>1 DEF ReaderState
  <2>2. /\ reader[r].pc = "lock" /\ readMu = "free" /\ readMu' = r /\ Load!Goto(r, t)
        /\ UNCHANGED <<got, ended, fresh>>
    BY <1>6 DEF Load!LockFile, Load!Free
  <2> HIDE DEF t
  <2>3. /\ reader' \in [Readers -> ReaderState] /\ reader'[r] = t
        /\ \A q \in Readers : q # r => reader'[q] = reader[q]
    BY <2>1, <2>2, GoesOn
  <2> QED BY <1>1, <2>1, <2>2, <2>3 DEF ReaderMove
<1>7. CASE Load!ReadAt(r)
  <2>1. reader[r].pc = "at" /\ UNCHANGED <<got, fresh>>
    BY <1>7 DEF Load!ReadAt
  <2>2. CASE /\ fileClosed \/ downloaded - Len(got[r]) = 0
             /\ Load!Tell(r, IF fileClosed THEN "failed" ELSE "eof")
             /\ Load!Goto(r, Load!Waiting)
             /\ readMu' = Load!Free
    <3>1. /\ reader' \in [Readers -> ReaderState] /\ reader'[r] = Load!Waiting
          /\ \A q \in Readers : q # r => reader'[q] = reader[q]
      BY <2>2, IdleState, GoesOn
    <3>2. /\ ended' \in [Readers -> {"no", "eof", "failed"}]
          /\ ended'[r] = IF fileClosed THEN "failed" ELSE "eof"
          /\ \A q \in Readers : q # r => ended'[q] = ended[q]
      BY <2>2, Tells
    <3>3. ~fileClosed => downloaded = Len(got[r])
      BY <1>1, <2>2
    <3> QED BY <1>1, <2>1, <2>2, <3>1, <3>2, <3>3, IdleState DEF ReaderMove, Load!Free
  <2>3. ASSUME NEW n \in 1..Load!Min({MaxChunk, downloaded - Len(got[r])}),
               ~fileClosed, downloaded - Len(got[r]) > 0, UNCHANGED <<ended, readMu>>,
               Load!Goto(r, [reader[r] EXCEPT !.pc = "file", !.want = n])
        PROVE  ReaderMove(r)
    <3> DEFINE t == [reader[r] EXCEPT !.pc = "file", !.want = n]
    <3>1. n \in Nat /\ Len(got[r]) + n <= downloaded
      <4>1. downloaded - Len(got[r]) \in Nat
        BY <1>1, <2>3
      <4>2. Load!Min({MaxChunk, downloaded - Len(got[r])}) \in Nat
            /\ Load!Min({MaxChunk, downloaded - Len(got[r])}) <= downloaded - Len(got[r])
        BY <4>1, StreamsAssumption, LesserOf
      <4> QED BY <1>1, <4>1, <4>2
    <3>2. t \in ReaderState /\ t.pc = "file" /\ t.want = n
      BY <1>1, <3>1 DEF ReaderState
    <3> HIDE DEF t
    <3>3. /\ reader' \in [Readers -> ReaderState] /\ reader'[r] = t
          /\ \A q \in Readers : q # r => reader'[q] = reader[q]
      BY <2>3, <3>2, GoesOn DEF t
    <3> QED BY <1>1, <2>1, <2>3, <3>1, <3>2, <3>3 DEF ReaderMove
  <2> QED BY <1>7, <2>2, <2>3 DEF Load!ReadAt
<1>8. CASE Load!ReadFile(r)
  <2>1. PICK n \in 0..reader[r].want :
          /\ got' = [got EXCEPT ![r] = @ \o SubSeq(file, Len(@) + 1, Len(@) + n)]
          /\ IF n = reader[r].want THEN ended' = ended ELSE Load!Tell(r, "failed")
    BY <1>8 DEF Load!ReadFile
  <2>2. /\ reader[r].pc = "file" /\ Load!Goto(r, Load!Waiting) /\ readMu' = "free"
        /\ fresh' = fresh
    BY <1>8 DEF Load!ReadFile, Load!Free
  <2>3. /\ reader' \in [Readers -> ReaderState] /\ reader'[r] = Load!Waiting
        /\ \A q \in Readers : q # r => reader'[q] = reader[q]
    BY <2>2, IdleState, GoesOn
  <2>4. /\ ended' \in [Readers -> {"no", "eof", "failed"}]
        /\ ended'[r] \in {ended[r], "failed"}
        /\ \A q \in Readers : q # r => ended'[q] = ended[q]
    BY <1>1, <2>1, Tells
  <2> DEFINE m == Len(got[r])
             s == SubSeq(file, m + 1, m + n)
  <2>5. /\ n \in Nat /\ m \in Nat /\ m + n <= offset /\ offset \in Nat
        /\ got[r] = Upto(m) /\ file = Upto(offset)
    BY <1>1, <2>2 DEF CursorInv, ReaderState, DownloadInv, LoadTypes, FileInv
  <2>6. s \in Seq(Nat) /\ Len(s) = n /\ \A i \in 1..n : s[i] = m + i
    <3>1. file \in Seq(Nat) /\ Len(file) = offset /\ \A i \in 1..offset : file[i] = i
      BY <2>5, UptoIs
    <3>2. /\ SubSeq(file, m + 1, m + n) \in Seq(Nat) /\ Len(SubSeq(file, m + 1, m + n)) = n
          /\ \A i \in 1..n : SubSeq(file, m + 1, m + n)[i] = file[m + i]
      <4> HIDE DEF m, Upto
      <4> QED BY <2>5, <3>1, SliceFacts
    <3>3. \A i \in 1..n : m + i \in 1..offset
      <4> HIDE DEF m
      <4> QED BY <2>5
    <3> HIDE DEF m
    <3> QED BY <2>5, <3>1, <3>2, <3>3 DEF s
  <2>7. got[r] \o s = Upto(m + n)
    <3> HIDE DEF m, s
    <3> QED BY <2>5, <2>6, UptoAndMore
  <2>8. got' = [got EXCEPT ![r] = Upto(m + n)]
    BY <2>1, <2>7
  <2>9. Upto(m + n) \in Seq(Nat)
    <3> HIDE DEF m
    <3> QED BY <2>5, UptoIs
  <2>10. /\ got' \in [Readers -> Seq(Nat)] /\ got'[r] = Upto(m + n)
         /\ \A q \in Readers : q # r => got'[q] = got[q]
    BY <1>1, <2>8, <2>9
  <2> QED BY <1>1, <2>2, <2>3, <2>4, <2>10, IdleState DEF ReaderMove
<1> QED BY <1>2, <1>3, <1>4, <1>5, <1>6, <1>7, <1>8 DEF Reads

(* What a step of one reader keeps of the others' cursors and of its own.  *)
LEMMA ReadsKeep ==
  ASSUME LoadInv, NEW r \in Readers, Reads(r)
  PROVE  LoadInv'
<1>1. ReaderMove(r)
  BY ReadsMove DEF LoadInv
<1>2. UNCHANGED downloadVars /\ DownloadInv'
  BY ReadsLeave, DownloadStays DEF LoadInv
<1>3. UNCHANGED readerCancel
  BY DEF Reads, Load!BeginRead, Load!LookAgain, Load!Select, Load!StallTimer, Load!LockFile,
     Load!ReadAt, Load!ReadFile, Load!ReaderStep
<1>4. ReaderTypes'
  BY <1>1, <1>3 DEF LoadInv, ReaderTypes, ReaderMove
<1>5. FileLockInv'
  <2>1. \A q \in Readers : q # "free" /\ q # "closer"
    BY StreamsAssumption
  <2>2. \A q \in Readers : q # r => reader'[q].pc = reader[q].pc
    BY <1>1 DEF ReaderMove
  <2>3. UNCHANGED <<fileClosing, fileClosed, done, fileErr, download, fileOpen>>
    BY <1>2 DEF downloadVars
  <2>4. /\ fileClosing \in {"open", "marked", "canceled", "locked", "closed"}
        /\ fileClosed <=> fileClosing # "open"
        /\ fileClosed => done /\ fileErr
        /\ fileClosing = "locked" => readMu = "closer"
        /\ fileClosing \in {"locked", "closed"} => download = "exited"
        /\ fileOpen <=> fileClosing # "closed"
        /\ \A q \in Readers : reader[q].pc \in {"at", "file"} <=> readMu = q
        /\ fileClosing = "closed" => \A q \in Readers : reader[q].pc # "file"
    BY DEF LoadInv, FileLockInv
  <2>5. \/ /\ (reader[r].pc \in {"at", "file"}) <=> (reader'[r].pc \in {"at", "file"})
           /\ readMu' = readMu
        \/ reader[r].pc = "lock" /\ reader'[r].pc = "at" /\ readMu = "free" /\ readMu' = r
        \/ reader[r].pc \in {"at", "file"} /\ reader'[r].pc = "idle" /\ readMu' = "free"
    BY <1>1 DEF ReaderMove
  <2>6. reader'[r].pc = "file" => reader[r].pc = "file" \/ ~fileClosed
    BY <1>1 DEF ReaderMove
  <2>7. \A q \in Readers : reader'[q].pc \in {"at", "file"} <=> readMu' = q
    BY <2>1, <2>2, <2>4, <2>5
  <2>8. fileClosing = "locked" => readMu' = "closer"
    BY <2>1, <2>4, <2>5
  <2>9. fileClosing = "closed" => \A q \in Readers : reader'[q].pc # "file"
    BY <2>2, <2>4, <2>6
  <2> QED BY <2>3, <2>4, <2>7, <2>8, <2>9 DEF FileLockInv
<1>6. CursorInv'
  <2>1. UNCHANGED <<downloaded, done, fileErr, fileClosed>>
    BY <1>2 DEF downloadVars
  <2>2. ASSUME NEW q \in Readers, q # r
        PROVE  /\ reader'[q] = reader[q] /\ got'[q] = got[q] /\ ended'[q] = ended[q]
               /\ fresh'[q] = fresh[q]
    BY <1>1, <2>2 DEF ReaderMove
  <2>3. /\ got[r] = Upto(Len(got[r])) /\ Len(got[r]) <= downloaded
        /\ reader[r].pc = "file" => Len(got[r]) + reader[r].want <= downloaded
        /\ reader[r].pc # "idle" => ended[r] = "no"
        /\ reader[r].pc \in {"look", "select"} =>
             reader[r].seen <= downloaded /\ (fresh[r] => reader[r].seen < downloaded)
        /\ reader[r].pc \in {"lock", "at"} /\ ~fileClosed =>
             Len(got[r]) < downloaded \/ (done /\ ~fileErr)
        /\ reader[r].want \in Nat /\ Len(got[r]) \in Nat /\ downloaded \in Nat
    BY DEF LoadInv, CursorInv, ReaderTypes, ReaderState, DownloadInv, LoadTypes
  <2>4. got'[r] = Upto(Len(got'[r])) /\ Len(got'[r]) <= downloaded
    <3>1. CASE got' = got
      BY <2>3, <3>1
    <3>2. CASE got' # got
      <4>1. PICK n \in 0..reader[r].want : got'[r] = Upto(Len(got[r]) + n)
        BY <1>1, <3>2 DEF ReaderMove
      <4>2. reader[r].pc = "file"
        BY <1>1, <3>2 DEF ReaderMove
      <4>3. Len(got[r]) + n \in Nat /\ Len(got[r]) + n <= downloaded
        BY <2>3, <4>2
      <4>4. Len(Upto(Len(got[r]) + n)) = Len(got[r]) + n
        BY <4>3, UptoIs
      <4> QED BY <4>1, <4>3, <4>4
    <3> QED BY <3>1, <3>2
  <2>5. reader'[r].pc = "file" => got' = got /\ Len(got[r]) + reader'[r].want <= downloaded
    BY <1>1, <2>3 DEF ReaderMove
  <2>6. reader'[r].pc # "idle" => ended'[r] = "no"
    BY <1>1, <2>3 DEF ReaderMove
  <2>7. reader'[r].pc \in {"look", "select"} =>
          reader'[r].seen <= downloaded /\ (fresh'[r] => reader'[r].seen < downloaded)
    BY <1>1, <2>3 DEF ReaderMove
  <2>8. reader'[r].pc \in {"lock", "at"} /\ ~fileClosed =>
          Len(got'[r]) < downloaded \/ (done /\ ~fileErr)
    BY <1>1, <2>3 DEF ReaderMove
  <2>9. /\ got'[r] = Upto(Len(got'[r])) /\ Len(got'[r]) <= downloaded'
        /\ reader'[r].pc = "file" => Len(got'[r]) + reader'[r].want <= downloaded'
        /\ reader'[r].pc # "idle" => ended'[r] = "no"
        /\ reader'[r].pc \in {"look", "select"} =>
             reader'[r].seen <= downloaded' /\ (fresh'[r] => reader'[r].seen < downloaded')
        /\ reader'[r].pc \in {"lock", "at"} /\ ~fileClosed' =>
             Len(got'[r]) < downloaded' \/ (done' /\ ~fileErr')
    BY <2>1, <2>4, <2>5, <2>6, <2>7, <2>8
  <2> QED BY <2>1, <2>2, <2>9 DEF LoadInv, CursorInv
<1> QED BY <1>2, <1>4, <1>5, <1>6 DEF LoadInv

(* What the download and Close may do to the readers: wake them.           *)
LEMMA WokenReaders ==
  ASSUME ReaderTypes, reader' \in {reader, Load!Woken}
  PROVE  /\ reader' \in [Readers -> ReaderState]
         /\ \A r \in Readers : /\ reader'[r].pc = reader[r].pc
                               /\ reader'[r].seen = reader[r].seen
                               /\ reader'[r].want = reader[r].want
<1>1. \A r \in Readers : reader[r] \in ReaderState
  BY DEF ReaderTypes
<1>2. ASSUME NEW r \in Readers
      PROVE  LET t == [reader[r] EXCEPT !.woken = TRUE] IN
             t \in ReaderState /\ t.pc = reader[r].pc /\ t.seen = reader[r].seen
             /\ t.want = reader[r].want
  BY <1>1 DEF ReaderState
<1>3. CASE reader' = reader
  BY <1>3 DEF ReaderTypes
<1>4. CASE reader' = Load!Woken
  BY <1>2, <1>4 DEF Load!Woken
<1> QED BY <1>3, <1>4

(* What a step that is not a reader's keeps of the readers.                *)
LEMMA ReadersStay ==
  ASSUME LoadInv, LoadTypes', reader' \in {reader, Load!Woken}, UNCHANGED <<got, ended>>,
         readerCancel' \in [Readers -> BOOLEAN],
         downloaded' >= downloaded,
         \/ fresh' = fresh
         \/ fresh' = [r \in Readers |-> TRUE] /\ downloaded' > downloaded,
         fileClosed' \/ (~fileClosed /\ (done /\ ~fileErr => done' /\ ~fileErr'))
  PROVE  ReaderTypes' /\ CursorInv'
<1>1. /\ reader' \in [Readers -> ReaderState]
      /\ \A r \in Readers : /\ reader'[r].pc = reader[r].pc
                            /\ reader'[r].seen = reader[r].seen
                            /\ reader'[r].want = reader[r].want
  BY WokenReaders DEF LoadInv
<1>2. fresh' \in [Readers -> BOOLEAN]
  BY DEF LoadInv, ReaderTypes
<1>3. ReaderTypes'
  BY <1>1, <1>2 DEF LoadInv, ReaderTypes
<1>4. ASSUME NEW r \in Readers
      PROVE  /\ got[r] = Upto(Len(got[r])) /\ Len(got[r]) <= downloaded'
             /\ reader[r].pc = "file" => Len(got[r]) + reader[r].want <= downloaded'
             /\ reader[r].pc # "idle" => ended[r] = "no"
             /\ reader[r].pc \in {"look", "select"} =>
                  reader[r].seen <= downloaded' /\ (fresh'[r] => reader[r].seen < downloaded')
             /\ reader[r].pc \in {"lock", "at"} /\ ~fileClosed' =>
                  Len(got[r]) < downloaded' \/ (done' /\ ~fileErr')
  <2>1. /\ got[r] = Upto(Len(got[r])) /\ Len(got[r]) <= downloaded
        /\ reader[r].pc = "file" => Len(got[r]) + reader[r].want <= downloaded
        /\ reader[r].pc # "idle" => ended[r] = "no"
        /\ reader[r].pc \in {"look", "select"} =>
             reader[r].seen <= downloaded /\ (fresh[r] => reader[r].seen < downloaded)
        /\ reader[r].pc \in {"lock", "at"} /\ ~fileClosed =>
             Len(got[r]) < downloaded \/ (done /\ ~fileErr)
    BY DEF LoadInv, CursorInv
  <2>2. /\ reader[r].want \in Nat /\ reader[r].seen \in Nat /\ Len(got[r]) \in Nat
        /\ downloaded \in Nat /\ downloaded' \in Nat
    BY DEF LoadInv, ReaderTypes, ReaderState, DownloadInv, LoadTypes
  <2>3. fresh'[r] => fresh[r] \/ downloaded' > downloaded
    OBVIOUS
  <2> QED BY <2>1, <2>2, <2>3
<1>5. CursorInv'
  BY <1>1, <1>4 DEF CursorInv
<1> QED BY <1>3, <1>5

LEMMA DownloadsKeep ==
  ASSUME LoadInv, Downloads
  PROVE  LoadInv'
<1>1. DownloadInv'
  BY DownloadKept DEF LoadInv
<1>2. UNCHANGED <<fileClosed, fileClosing, fileOpen, readMu, got, ended, readerCancel>>
  BY DEF Downloads, Load!CheckClosed, Load!ReadBody, Load!CheckFile, Load!WriteFile, Load!Publish,
     Load!NextSegment, Load!Finish, Load!streamVars, Load!bodyVars, Load!fileVars,
     Load!sharedVars, Load!readerVars
<1>3. /\ reader' \in {reader, Load!Woken}
      /\ \/ fresh' = fresh /\ downloaded' = downloaded
         \/ fresh' = [r \in Readers |-> TRUE] /\ downloaded' > downloaded
      /\ \/ UNCHANGED <<done, fileErr>>
         \/ download = "finish" /\ ~fileClosed
  <2>1. CASE Load!CheckClosed \/ Load!ReadBody \/ Load!CheckFile \/ Load!WriteFile
             \/ Load!NextSegment
    BY <2>1 DEF Load!CheckClosed, Load!ReadBody, Load!CheckFile, Load!WriteFile,
       Load!NextSegment, Load!sharedVars, Load!readerVars
  <2>2. CASE Load!Publish
    BY <2>2 DEF Load!Publish, LoadInv, DownloadInv, LoadTypes
  <2>3. CASE Load!Finish
    BY <2>3 DEF Load!Finish, Load!Finished
  <2> QED BY <2>1, <2>2, <2>3 DEF Downloads
<1>4. done /\ ~fileErr => done' /\ ~fileErr'
  BY <1>3 DEF LoadInv, DownloadInv, WholeInv
<1>5. downloaded \in Nat /\ downloaded' \in Nat /\ LoadTypes'
  BY <1>1 DEF LoadInv, DownloadInv, LoadTypes
<1>6. ReaderTypes' /\ CursorInv'
  <2>1. readerCancel' \in [Readers -> BOOLEAN]
    BY <1>2 DEF LoadInv, ReaderTypes
  <2>2. downloaded' >= downloaded
    BY <1>3, <1>5
  <2>3. fileClosed' \/ ~fileClosed
    BY <1>2
  <2> QED BY <1>2, <1>3, <1>4, <1>5, <2>1, <2>2, <2>3, ReadersStay
<1>7. FileLockInv'
  <2>1. \A r \in Readers : reader'[r].pc = reader[r].pc
    BY <1>3, WokenReaders DEF LoadInv
  <2>2. download = "exited" => FALSE
    BY DEF Downloads, Load!CheckClosed, Load!ReadBody, Load!CheckFile, Load!WriteFile,
       Load!Publish, Load!NextSegment, Load!Finish
  <2>3. fileClosed => UNCHANGED <<done, fileErr>>
    BY <1>3
  <2> QED BY <1>2, <2>1, <2>2, <2>3 DEF LoadInv, FileLockInv
<1> QED BY <1>1, <1>6, <1>7 DEF LoadInv

LEMMA ClosingKeeps ==
  ASSUME LoadInv, Closing \/ Load!CompletedPath
  PROVE  LoadInv'
<1>1. DownloadInv'
  BY ClosingKeepsDownload DEF LoadInv
<1>2. /\ UNCHANGED <<got, ended, readerCancel, fresh, downloaded, download>>
      /\ reader' \in {reader, Load!Woken}
      /\ \/ UNCHANGED <<fileClosed, done, fileErr>>
         \/ fileClosed' = TRUE /\ done' = TRUE /\ fileErr' = TRUE
  BY DEF Closing, Load!CloseMark, Load!CloseCancel, Load!CloseLock, Load!CloseFile,
     Load!CompletedPath, Load!streamVars, Load!bodyVars, Load!fileVars, Load!sharedVars,
     Load!readerVars
<1>3. ReaderTypes' /\ CursorInv'
  <2>1. readerCancel' \in [Readers -> BOOLEAN]
    BY <1>2 DEF LoadInv, ReaderTypes
  <2>2. downloaded' >= downloaded /\ LoadTypes'
    <3>1. downloaded \in Nat /\ downloaded' = downloaded
      BY <1>2 DEF LoadInv, DownloadInv, LoadTypes
    <3> QED BY <1>1, <3>1 DEF DownloadInv
  <2>3. fileClosed' \/ (~fileClosed /\ (done /\ ~fileErr => done' /\ ~fileErr'))
    BY <1>2
  <2> QED BY <1>2, <2>1, <2>2, <2>3, ReadersStay
<1>4. FileLockInv'
  <2>1. \A r \in Readers : reader'[r].pc = reader[r].pc
    BY <1>2, WokenReaders DEF LoadInv
  <2>2. \A q \in Readers : q # "free" /\ q # "closer"
    BY StreamsAssumption
  <2>3. CASE Load!CloseMark
    BY <2>1, <2>3 DEF LoadInv, FileLockInv, Load!CloseMark, Load!fileVars
  <2>4. CASE Load!CloseCancel
    BY <2>1, <2>4 DEF LoadInv, FileLockInv, Load!CloseCancel, Load!fileVars, Load!sharedVars
  <2>5. CASE Load!CloseLock
    BY <2>1, <2>2, <2>5 DEF LoadInv, FileLockInv, Load!CloseLock, Load!MayRemove, Load!Free,
       Load!fileVars, Load!sharedVars
  <2>6. CASE Load!CloseFile
    BY <2>1, <2>2, <2>6 DEF LoadInv, FileLockInv, Load!CloseFile, Load!Free, Load!sharedVars
  <2>7. CASE Load!CompletedPath
    BY <2>1, <2>7 DEF LoadInv, FileLockInv, Load!CompletedPath, Load!fileVars, Load!sharedVars
  <2> QED BY <2>3, <2>4, <2>5, <2>6, <2>7 DEF Closing
<1> QED BY <1>1, <1>3, <1>4 DEF LoadInv

LEMMA CancelsKeep ==
  ASSUME LoadInv, NEW r \in Readers, Load!CloseReader(r)
  PROVE  LoadInv'
<1>1. UNCHANGED downloadVars /\ DownloadInv'
  BY ReadsLeave, DownloadStays DEF LoadInv
<1>2. /\ UNCHANGED <<reader, got, ended, fresh, readMu>>
      /\ readerCancel' = [readerCancel EXCEPT ![r] = TRUE]
  BY DEF Load!CloseReader, Load!readerVars
<1>3. ReaderTypes' /\ FileLockInv' /\ CursorInv'
  BY <1>1, <1>2 DEF LoadInv, ReaderTypes, FileLockInv, CursorInv, downloadVars
<1> QED BY <1>1, <1>3 DEF LoadInv

LEMMA LoadInvInit == StreamsInit => LoadInv
<1> SUFFICES ASSUME StreamsInit PROVE LoadInv
  OBVIOUS
<1>1. Load!Init
  BY DEF StreamsInit
<1>2. /\ bytes \in Nat /\ cuts \subseteq 1..bytes - 1 /\ total \in Int
      /\ download = "check" /\ fetched = 0 /\ bodyEnd = Load!SegmentEnd(0) /\ tail = "more"
      /\ offset = 0 /\ file = <<>> /\ fileOpen = TRUE
      /\ downloaded = 0 /\ done = FALSE /\ fileErr = FALSE
      /\ fileClosed = FALSE /\ readMu = "free"
      /\ fileClosing = "open" /\ probe = "waiting"
  BY <1>1, StreamsAssumption DEF Load!Init, Load!Free
<1>3. bodyEnd \in Nat /\ bodyEnd <= bytes
  <2> DEFINE T == {c \in cuts : c > 0} \cup {bytes}
  <2>0. bytes \in Nat /\ \A c \in cuts : c \in 1..bytes - 1
    BY <1>2
  <2>a. \A c \in T : c \in Nat /\ c <= bytes
    BY <2>0
  <2>1. T \in SUBSET Nat /\ T # {} /\ \A c \in T : c <= bytes
    BY <2>a
  <2>2. Load!Min(T) \in T
    BY <2>1, Least
  <2>3. Load!SegmentEnd(0) = Load!Min(T)
    BY DEF Load!SegmentEnd
  <2> HIDE DEF T
  <2> QED BY <1>2, <2>1, <2>2, <2>3
<1>4. file = Upto(0)
  BY <1>2 DEF Upto
<1>5. DownloadInv
  <2>1. LoadTypes
    <3>1. bytes \in Nat /\ cuts \subseteq 1..bytes - 1 /\ total \in Int
      BY <1>2
    <3>2. /\ downloaded = 0 /\ offset = 0 /\ fetched = 0 /\ fetched <= bodyEnd
          /\ bodyEnd \in Nat /\ bodyEnd <= bytes
      BY <1>2, <1>3
    <3>3. /\ download = "check" /\ tail = "more" /\ done = FALSE /\ fileErr = FALSE
          /\ fileClosed = FALSE /\ fileOpen = TRUE
      BY <1>2
    <3>4. /\ download \in {"check", "read", "write", "put", "publish", "next", "finish", "exited"}
          /\ tail \in {"more", "eof", "error"}
          /\ done \in BOOLEAN /\ fileErr \in BOOLEAN /\ fileClosed \in BOOLEAN
          /\ fileOpen \in BOOLEAN
      BY <3>3
    <3>5. /\ fetched \in Nat /\ bodyEnd \in Nat /\ offset \in Nat /\ downloaded \in Nat
          /\ downloaded <= offset /\ offset <= fetched /\ fetched <= bodyEnd /\ bodyEnd <= bytes
      BY <3>2
    <3> QED BY <3>1, <3>4, <3>5, Zenon DEF LoadTypes
  <2>2. FileInv
    BY <1>2, <1>4 DEF FileInv
  <2>3. WholeInv
    BY <1>2 DEF WholeInv
  <2> QED BY <2>1, <2>2, <2>3 DEF DownloadInv
<1>6. /\ reader = [r \in Readers |-> Load!Waiting]
      /\ got = [r \in Readers |-> <<>>] /\ ended = [r \in Readers |-> "no"]
      /\ readerCancel = [r \in Readers |-> FALSE] /\ fresh = [r \in Readers |-> FALSE]
  BY <1>1 DEF Load!Init
<1>7. ReaderTypes
  BY <1>6, IdleState DEF ReaderTypes
<1>8. FileLockInv
  BY <1>2, <1>6, IdleState, StreamsAssumption DEF FileLockInv
<1>9. CursorInv
  <2>1. \A r \in Readers : reader[r].pc = "idle" /\ got[r] = <<>>
    BY <1>6, IdleState
  <2>2. <<>> = Upto(Len(<<>>)) /\ Len(<<>>) = 0
    BY DEF Upto
  <2> QED BY <1>2, <2>1, <2>2 DEF CursorInv
<1> QED BY <1>5, <1>7, <1>8, <1>9 DEF LoadInv

LEMMA LoadInvStep == LoadInv /\ [StreamsNext]_allVars => LoadInv'
<1> SUFFICES ASSUME LoadInv, [StreamsNext]_allVars PROVE LoadInv'
  OBVIOUS
<1>1. CASE Load!Next
  <2>1. CASE Downloads
    BY <2>1, DownloadsKeep
  <2>2. CASE Closing \/ Load!CompletedPath
    BY <2>2, ClosingKeeps
  <2>3. ASSUME NEW r \in Readers, Reads(r) \/ Load!CloseReader(r) PROVE LoadInv'
    BY <2>3, ReadsKeep, CancelsKeep
  <2> QED BY <1>1, <2>1, <2>2, <2>3, LoadSteps
<1>2. CASE UNCHANGED loadVars
  <2>1. UNCHANGED downloadVars /\ UNCHANGED <<readMu, reader, got, ended, readerCancel, fresh>>
    BY <1>2 DEF loadVars, downloadVars
  <2>2. DownloadInv'
    BY <2>1, DownloadStays DEF LoadInv
  <2>3. ReaderTypes' /\ FileLockInv' /\ CursorInv'
    BY <2>1 DEF LoadInv, ReaderTypes, FileLockInv, CursorInv, downloadVars
  <2> QED BY <2>2, <2>3 DEF LoadInv
<1> QED BY <1>1, <1>2 DEF StreamsNext, OfDownload, OfRing, OfTrack, allVars

-----------------------------------------------------------------------------
(* What the download promises                                              *)

LEMMA LoadInvHolds == StreamsSpec => []LoadInv
BY LoadInvInit, LoadInvStep, PTL DEF StreamsSpec

(* A file operation under Close would need the lock or the goroutine that  *)
(* Close has waited for.                                                   *)
LEMMA FileFollows == LoadInv => FileSound
<1> SUFFICES ASSUME LoadInv PROVE FileSound
  OBVIOUS
<1>1. download = "put" \/ (\E r \in Readers : reader[r].pc = "file") => fileOpen
  BY DEF LoadInv, FileLockInv
<1>2. probe = "whole" => file = Load!Source /\ bytes >= total
  BY DEF LoadInv, DownloadInv, FileInv, WholeInv, Load!Source, Upto
<1> QED BY <1>1, <1>2 DEF FileSound, Load!FileSound

(* Nobody reads or writes the file of a download that Close has removed,   *)
(* and the length probe has all of it, for any number of readers.          *)
THEOREM FileStaysSound == StreamsSpec => []FileSound
BY LoadInvHolds, FileFollows, PTL

(* A step of a reader is nothing to its listener, or hands it more.        *)
LEMMA ReadsHand ==
  ASSUME LoadInv, NEW r \in Readers, Reads(r)
  PROVE  Load!Stream!Hand(r) \/ UNCHANGED <<Load!Source, got, ended>>
<1>1. ReaderMove(r)
  BY ReadsMove DEF LoadInv
<1>2. /\ UNCHANGED <<bytes, downloaded, done, fileErr, fileClosed, offset>>
      /\ UNCHANGED Load!Source
  BY ReadsLeave DEF downloadVars, Load!Source
<1>3. LoadInv'
  BY ReadsKeep
<1>4. /\ reader[r].pc # "idle" => ended[r] = "no"
      /\ reader[r].pc \in {"lock", "at"} /\ ~fileClosed =>
           Len(got[r]) < downloaded \/ (done /\ ~fileErr)
      /\ reader[r] \in ReaderState /\ got[r] = Upto(Len(got[r]))
      /\ downloaded \in Nat /\ bytes \in Nat /\ downloaded <= bytes
      /\ done /\ ~fileErr => downloaded = bytes
  BY DEF LoadInv, CursorInv, ReaderTypes, DownloadInv, LoadTypes, WholeInv
<1>5. /\ Len(got[r]) \in Nat /\ Len(got'[r]) \in Nat /\ Len(got'[r]) <= bytes
      /\ got'[r] = Upto(Len(got'[r])) /\ ended'[r] \in {"no", "eof", "failed"}
      /\ got \in [Readers -> Seq(Nat)] /\ got' \in [Readers -> Seq(Nat)]
      /\ ended \in [Readers -> {"no", "eof", "failed"}]
      /\ ended' \in [Readers -> {"no", "eof", "failed"}]
  <2>1. Len(got'[r]) <= downloaded /\ got'[r] = Upto(Len(got'[r]))
    BY <1>2, <1>3 DEF LoadInv, CursorInv
  <2>2. /\ got \in [Readers -> Seq(Nat)] /\ got' \in [Readers -> Seq(Nat)]
        /\ ended \in [Readers -> {"no", "eof", "failed"}]
        /\ ended' \in [Readers -> {"no", "eof", "failed"}]
    BY <1>1 DEF LoadInv, ReaderTypes, ReaderMove
  <2>3. Len(got[r]) \in Nat /\ Len(got'[r]) \in Nat /\ ended'[r] \in {"no", "eof", "failed"}
    BY <2>2
  <2> QED BY <1>4, <2>1, <2>2, <2>3
<1>6. CASE UNCHANGED <<got, ended>>
  BY <1>2, <1>6
<1>7. CASE ~UNCHANGED <<got, ended>>
  <2>1. reader[r].pc # "idle"
    BY <1>1, <1>7 DEF ReaderMove
  <2>2. ended[r] = "no"
    BY <1>4, <2>1
  <2>3. ended'[r] = "eof" =>
          got' = got /\ reader[r].pc = "at" /\ ~fileClosed /\ downloaded = Len(got[r])
    BY <1>1, <2>2 DEF ReaderMove
  <2>4. ended'[r] = "eof" => Len(got'[r]) = bytes
    BY <1>4, <1>5, <2>3
  <2>5. Len(got[r]) <= Len(got'[r])
    <3>1. CASE got' = got
      BY <1>5, <3>1
    <3>2. CASE got' # got
      <4>1. PICK n \in 0..reader[r].want : got'[r] = Upto(Len(got[r]) + n)
        BY <1>1, <3>2 DEF ReaderMove
      <4>2. n \in Nat
        BY <1>4 DEF ReaderState
      <4>3. Len(got'[r]) = Len(got[r]) + n
        BY <1>5, <4>1, <4>2, UptoIs
      <4> QED BY <1>5, <4>2, <4>3
    <3> QED BY <3>1, <3>2
  <2>6. /\ Load!Source = Upto(bytes) /\ Len(Load!Source) = bytes
        /\ SubSeq(Load!Source, 1, Len(got'[r])) = got'[r]
    <3>1. Load!Source = Upto(bytes)
      BY DEF Load!Source, Upto
    <3>2. Len(Upto(bytes)) = bytes /\ SubSeq(Upto(bytes), 1, Len(got'[r])) = got'[r]
      BY <1>4, <1>5, UptoIs, PartOfUpto
    <3> QED BY <3>1, <3>2
  <2>7. /\ Len(got'[r]) \in Len(got[r])..Len(Load!Source)
        /\ ended'[r] = "eof" => Len(got'[r]) = Len(Load!Source)
    BY <1>4, <1>5, <2>4, <2>5, <2>6
  <2>8. /\ got' = [got EXCEPT ![r] = SubSeq(Load!Source, 1, Len(got'[r]))]
        /\ ended' = [ended EXCEPT ![r] = ended'[r]]
    BY <1>1, <1>5, <2>6 DEF ReaderMove
  <2> QED BY <1>2, <1>5, <2>2, <2>7, <2>8 DEF Load!Stream!Hand
<1> QED BY <1>6, <1>7

LEMMA LoadHands ==
  ASSUME LoadInv, [StreamsNext]_allVars
  PROVE  [Load!Stream!Next]_(Load!Stream!streamVars)
<1>1. CASE Load!Next
  <2>1. CASE Downloads \/ Closing \/ Load!CompletedPath \/ \E r \in Readers : Load!CloseReader(r)
    BY <2>1 DEF Downloads, Closing, Load!CheckClosed, Load!ReadBody, Load!CheckFile,
       Load!WriteFile, Load!Publish, Load!NextSegment, Load!Finish, Load!CloseMark,
       Load!CloseCancel, Load!CloseLock, Load!CloseFile, Load!CompletedPath, Load!CloseReader,
       Load!streamVars, Load!readerVars, Load!Source, Load!Stream!streamVars
  <2>2. ASSUME NEW r \in Readers, Reads(r)
        PROVE  [Load!Stream!Next]_(Load!Stream!streamVars)
    BY <2>2, ReadsHand DEF Load!Stream!Next, Load!Stream!streamVars
  <2> QED BY <1>1, <2>1, <2>2, LoadSteps
<1>2. CASE UNCHANGED loadVars
  BY <1>2 DEF loadVars, Load!Source, Load!Stream!streamVars
<1> QED BY <1>1, <1>2 DEF StreamsNext, OfDownload, OfRing, OfTrack, allVars

(* The file and its cursors implement ByteStream for every ffmpeg process. *)
THEOREM DownloadIsAByteStream == StreamsSpec => Load!ReadsTheStream
<1>1. StreamsInit => Load!Stream!Init
  BY DEF StreamsInit, Load!Init, Load!Stream!Init
<1>2. LoadInv /\ [StreamsNext]_allVars => [Load!Stream!Next]_(Load!Stream!streamVars)
  BY LoadHands
<1> QED BY <1>1, <1>2, LoadInvHolds, PTL DEF StreamsSpec, Load!ReadsTheStream, Load!Stream!Spec

(* The step at which a reader gives up, with none to blame but a stall.    *)
LEMMA StallFollows ==
  ASSUME LoadInv, [StreamsNext]_allVars, NEW r \in Readers,
         reader[r].pc = "look", ended[r] = "no", ended'[r] = "failed", ~readerCancel[r], ~fileErr
  PROVE  ~fresh[r]
<1>1. Load!Next
  BY DEF StreamsNext, OfDownload, OfRing, OfTrack, allVars, loadVars
<1>2. ASSUME NEW q \in Readers, Reads(q) PROVE q = r
  <2>1. ReaderMove(q)
    BY <1>2, ReadsMove DEF LoadInv
  <2> QED BY <2>1 DEF ReaderMove
<1>3. Reads(r)
  <2>1. ~(Downloads \/ Closing \/ Load!CompletedPath \/ \E q \in Readers : Load!CloseReader(q))
    BY DEF Downloads, Closing, Load!CheckClosed, Load!ReadBody, Load!CheckFile,
       Load!WriteFile, Load!Publish, Load!NextSegment, Load!Finish, Load!CloseMark,
       Load!CloseCancel, Load!CloseLock, Load!CloseFile, Load!CompletedPath, Load!CloseReader,
       Load!readerVars
  <2> QED BY <1>1, <1>2, <2>1, LoadSteps
<1>4. ReaderMove(r)
  BY <1>3, ReadsMove DEF LoadInv
<1>5. ~fileClosed
  BY DEF LoadInv, FileLockInv
<1>6. downloaded <= reader[r].seen
  BY <1>4, <1>5 DEF ReaderMove
<1>7. /\ downloaded \in Nat /\ reader[r].seen \in Nat /\ fresh[r] \in BOOLEAN
      /\ fresh[r] => reader[r].seen < downloaded
  BY DEF LoadInv, DownloadInv, LoadTypes, ReaderTypes, ReaderState, CursorInv
<1> QED BY <1>6, <1>7

(* A read of the download gives up only where nothing came for as long as  *)
(* its timer ran.                                                          *)
THEOREM StallsAreTrue == StreamsSpec => Load!StallIsTrue
<1>1. LoadInv /\ [StreamsNext]_allVars =>
        [\A r \in Readers :
           /\ reader[r].pc = "look" /\ ended[r] = "no" /\ ended'[r] = "failed"
           /\ ~readerCancel[r] /\ ~fileErr
           => ~fresh[r]]_(Load!vars)
  BY StallFollows
<1> QED BY <1>1, LoadInvHolds, PTL DEF StreamsSpec, Load!StallIsTrue

-----------------------------------------------------------------------------
(* The ring                                                                *)

(* How many frames a ring holds that is read at a and written at b.        *)
Count(whole, a, b) == IF whole THEN Capacity ELSE IF b >= a THEN b - a ELSE Capacity - (a - b)

Held == Count(full, rd, wr)

RingTypes ==
  /\ frames \in Nat /\ decoded \in Nat /\ decoded <= frames
  /\ fill \in {"check", "decode", "write", "parked", "end", "exited"}
  /\ chunk \in Seq(Nat \cup {"more", "eof", "error"})
  /\ rd \in 0..Capacity - 1 /\ wr \in 0..Capacity - 1
  /\ full \in BOOLEAN /\ (full => rd = wr)
  /\ played \in Seq(Nat) /\ told \in {"no", "eof", "failed"}

(* What was played and what the ring holds is the beginning of the stream. *)
PlayedInv ==
  /\ played = Upto(Len(played))
  /\ \A k \in 0..Held - 1 : buf[(rd + k) % Capacity] = Len(played) + k + 1
  /\ Len(played) + Held <= decoded

(* What fill has yet to write follows it, and ends with how it ended.      *)
ChunkInv ==
  /\ fill \in {"check", "decode"} => Len(played) + Held = decoded
  /\ fill \in {"write", "parked", "end"} =>
       /\ Len(chunk) >= 1 /\ Len(played) + Held + Len(chunk) - 1 = decoded
       /\ \A k \in 1..Len(chunk) - 1 : chunk[k] = Len(played) + Held + k
       /\ chunk[Len(chunk)] \in {"more", "eof", "error"}
       /\ chunk[Len(chunk)] = "eof" => decoded = frames
  /\ fill \in {"write", "parked"} => Len(chunk) > 1
  /\ fill = "end" => Len(chunk) = 1 /\ chunk[1] # "more"

(* A source that ended well has given all its frames to the ring.          *)
DryInv ==
  /\ dry => fill = "exited"
  /\ dry /\ ~sourceErr => Len(played) + Held = frames

LiveInv == RingTypes /\ PlayedInv /\ ChunkInv /\ DryInv

LEMMA Slice ==
  ASSUME NEW S, NEW s \in Seq(S), NEW n \in Nat, NEW m \in Nat, n + m <= Len(s)
  PROVE  /\ SubSeq(s, n + 1, n + m) \in Seq(S) /\ Len(SubSeq(s, n + 1, n + m)) = m
         /\ \A i \in 1..m : SubSeq(s, n + 1, n + m)[i] = s[n + i]
OBVIOUS

LEMMA OneMore ==
  ASSUME NEW S, NEW s \in Seq(S), NEW e \in S
  PROVE  /\ s \o <<e>> \in Seq(S) /\ Len(s \o <<e>>) = Len(s) + 1
         /\ \A i \in 1..Len(s) : (s \o <<e>>)[i] = s[i]
         /\ (s \o <<e>>)[Len(s) + 1] = e
<1>1. <<e>> \in Seq(S) /\ Len(<<e>>) = 1 /\ <<e>>[1] = e /\ Len(s) \in Nat
  OBVIOUS
<1> DEFINE q == <<e>>
<1>2. q \in Seq(S) /\ Len(q) = 1 /\ q[1] = e
  BY <1>1
<1> HIDE DEF q
<1>3. /\ s \o q \in Seq(S) /\ Len(s \o q) = Len(s) + 1
      /\ \A i \in 1..(Len(s) + 1) :
           (s \o q)[i] = IF i <= Len(s) THEN s[i] ELSE q[i - Len(s)]
  <2>1. /\ s \o q \in Seq(S) /\ Len(s \o q) = Len(s) + Len(q)
        /\ \A i \in 1..(Len(s) + Len(q)) :
             (s \o q)[i] = IF i <= Len(s) THEN s[i] ELSE q[i - Len(s)]
    BY <1>2, ConcatProperties, Zenon
  <2> QED BY <1>2, <2>1, Zenon
<1>4. Len(s) + 1 \in 1..(Len(s) + 1) /\ ~(Len(s) + 1 <= Len(s)) /\ (Len(s) + 1) - Len(s) = 1
  BY <1>1
<1>5. (s \o q)[Len(s) + 1] = e
  BY <1>2, <1>3, <1>4
<1> QED BY <1>3, <1>5 DEF q

LEMMA LesserIs ==
  ASSUME NEW a \in Nat, NEW b \in Nat
  PROVE  Live!Min({a, b}) \in {a, b} /\ Live!Min({a, b}) <= a /\ Live!Min({a, b}) <= b
<1>1. Live!Min({a, b}) = Load!Min({a, b})
  BY DEF Live!Min, Load!Min
<1> QED BY <1>1, Least

LEMMA HeldIs ==
  ASSUME RingTypes
  PROVE  Live!AvailableToRead = Held /\ Live!AvailableToWrite = Capacity - Held
<1>1. Live!AvailableToRead = Held
  BY DEF Live!AvailableToRead, Held, Count
<1>2. Live!AvailableToWrite = Capacity - Held
  BY StreamsAssumption DEF RingTypes, Live!AvailableToWrite, Held, Count
<1> QED BY <1>1, <1>2

(* Places of the ring: once around at most.                                *)
LEMMA Wraps ==
  ASSUME NEW x \in Int
  PROVE  /\ 0 <= x /\ x < Capacity => x % Capacity = x
         /\ Capacity <= x /\ x < 2 * Capacity => x % Capacity = x - Capacity
         /\ -Capacity <= x /\ x < 0 => x % Capacity = x + Capacity
BY StreamsAssumption

LEMMA Rounds ==
  ASSUME NEW a \in 0..Capacity - 1, NEW n \in Nat, NEW k \in Nat, n + k < Capacity
  PROVE  (((a + n) % Capacity) + k) % Capacity = (a + (n + k)) % Capacity
<1>0. Capacity \in Nat \ {0}
  BY StreamsAssumption
<1>1. CASE a + n < Capacity
  <2>1. (a + n) % Capacity = a + n
    BY <1>0, <1>1, Wraps
  <2> QED BY <2>1
<1>2. CASE a + n >= Capacity
  <2>1. (a + n) % Capacity = a + n - Capacity
    BY <1>0, <1>2, Wraps
  <2>2. (a + n - Capacity + k) % Capacity = a + n - Capacity + k
    <3>1. a + n - Capacity + k \in Int /\ 0 <= a + n - Capacity + k
          /\ a + n - Capacity + k < Capacity
      BY <1>0, <1>2
    <3> QED BY <3>1, Wraps
  <2>3. (a + (n + k)) % Capacity = a + (n + k) - Capacity
    <3> DEFINE y == a + (n + k)
    <3>1. y \in Int /\ Capacity <= y /\ y < 2 * Capacity
      BY <1>0, <1>2
    <3> HIDE DEF y
    <3>2. y % Capacity = y - Capacity
      BY <3>1, Wraps, Zenon
    <3> QED BY <1>0, <3>2 DEF y
  <2> QED BY <1>0, <2>1, <2>2, <2>3
<1> QED BY <1>0, <1>1, <1>2

(* The distance of two places as the writer computes it.                   *)
LEMMA Apart ==
  ASSUME NEW a \in 0..Capacity - 1, NEW m \in Nat, m < Capacity, NEW k \in Nat, k < Capacity
  PROVE  (((a + k) % Capacity) - ((a + m) % Capacity)) % Capacity =
           IF k >= m THEN k - m ELSE k - m + Capacity
<1>0. Capacity \in Nat \ {0}
  BY StreamsAssumption
<1>1. (a + k) % Capacity = IF a + k < Capacity THEN a + k ELSE a + k - Capacity
  BY <1>0, Wraps
<1>2. (a + m) % Capacity = IF a + m < Capacity THEN a + m ELSE a + m - Capacity
  BY <1>0, Wraps
<1> DEFINE d == ((a + k) % Capacity) - ((a + m) % Capacity)
<1>3. d \in Int /\ d \in {k - m, k - m - Capacity, k - m + Capacity}
      /\ -Capacity < d /\ d < Capacity
  BY <1>0, <1>1, <1>2
<1>4. d % Capacity = IF d >= 0 THEN d ELSE d + Capacity
  <2> HIDE DEF d
  <2> QED BY <1>0, <1>3, Wraps
<1> HIDE DEF d
<1>5. d % Capacity = IF k >= m THEN k - m ELSE k - m + Capacity
  BY <1>0, <1>3, <1>4
<1> QED BY <1>5 DEF d

(* The count is a number up to the capacity, and the writer's place is     *)
(* that many behind the reader's.                                          *)
LEMMA CountIs ==
  ASSUME NEW whole \in BOOLEAN, NEW a \in 0..Capacity - 1, NEW b \in 0..Capacity - 1,
         whole => a = b
  PROVE  /\ Count(whole, a, b) \in Nat /\ Count(whole, a, b) <= Capacity
         /\ Count(whole, a, b) = Capacity <=> whole
         /\ b = (a + Count(whole, a, b)) % Capacity
<1>0. Capacity \in Nat \ {0}
  BY StreamsAssumption
<1> DEFINE c == Count(whole, a, b)
<1>1. c \in Nat /\ c <= Capacity /\ (c = Capacity <=> whole)
  BY <1>0 DEF Count
<1>2. b = IF a + c < Capacity THEN a + c ELSE a + c - Capacity
  BY <1>0 DEF Count
<1> HIDE DEF c
<1>3. (a + c) % Capacity = IF a + c < Capacity THEN a + c ELSE a + c - Capacity
  BY <1>0, <1>1, Wraps
<1> QED BY <1>1, <1>2, <1>3 DEF c

(* After n frames are read there are as many fewer, after n are written as *)
(* many more.                                                              *)
LEMMA CountFalls ==
  ASSUME NEW whole \in BOOLEAN, NEW a \in 0..Capacity - 1, NEW b \in 0..Capacity - 1,
         whole => a = b, NEW n \in Nat, n <= Count(whole, a, b),
         NEW p, p = (a + n) % Capacity, NEW still \in BOOLEAN, still <=> whole /\ n = 0
  PROVE  p \in 0..Capacity - 1 /\ (still => p = b) /\ Count(still, p, b) = Count(whole, a, b) - n
<1>0. Capacity \in Nat \ {0}
  BY StreamsAssumption
<1>1. n <= Capacity
  BY <1>0, CountIs
<1>2. (a + n) % Capacity = IF a + n < Capacity THEN a + n ELSE a + n - Capacity
  BY <1>0, <1>1, Wraps
<1>3. p = IF a + n < Capacity THEN a + n ELSE a + n - Capacity
  BY <1>2
<1> QED BY <1>0, <1>1, <1>3 DEF Count

LEMMA CountRises ==
  ASSUME NEW whole \in BOOLEAN, NEW a \in 0..Capacity - 1, NEW b \in 0..Capacity - 1,
         ~whole, NEW n \in Nat, n > 0, n <= Capacity - Count(whole, a, b),
         NEW p, p = (b + n) % Capacity, NEW now \in BOOLEAN, now <=> p = a
  PROVE  p \in 0..Capacity - 1 /\ Count(now, a, p) = Count(whole, a, b) + n
<1>0. Capacity \in Nat \ {0}
  BY StreamsAssumption
<1>1. n <= Capacity
  BY <1>0 DEF Count
<1>2. (b + n) % Capacity = IF b + n < Capacity THEN b + n ELSE b + n - Capacity
  BY <1>0, <1>1, Wraps
<1>3. p = IF b + n < Capacity THEN b + n ELSE b + n - Capacity
  BY <1>2
<1> QED BY <1>0, <1>1, <1>3 DEF Count

LEMMA LiveInvInit == StreamsInit => LiveInv
<1> SUFFICES ASSUME StreamsInit PROVE LiveInv
  OBVIOUS
<1>1. Live!Init
  BY DEF StreamsInit
<1>2. /\ frames \in Nat /\ decoded = 0 /\ fill = "check" /\ chunk = <<>>
      /\ rd = 0 /\ wr = 0 /\ full = FALSE /\ dry = FALSE
      /\ played = <<>> /\ told = "no"
  BY <1>1, StreamsAssumption DEF Live!Init
<1>3. Held = 0
  BY <1>2, StreamsAssumption DEF Held, Count
<1>4. played = Upto(Len(played)) /\ Len(played) = 0
  BY <1>2 DEF Upto
<1>5. RingTypes
  <2>1. chunk \in Seq(Nat \cup {"more", "eof", "error"}) /\ played \in Seq(Nat)
    BY <1>2
  <2>2. 0 \in 0..Capacity - 1
    BY StreamsAssumption
  <2>3. /\ frames \in Nat /\ decoded \in Nat /\ decoded <= frames
        /\ rd \in 0..Capacity - 1 /\ wr \in 0..Capacity - 1
    BY <1>2, StreamsAssumption
  <2>5. full \in BOOLEAN /\ (full => rd = wr)
    BY <1>2
  <2>4. /\ fill \in {"check", "decode", "write", "parked", "end", "exited"}
        /\ told \in {"no", "eof", "failed"}
    BY <1>2
  <2> QED BY <2>1, <2>3, <2>4, <2>5, Zenon DEF RingTypes
<1>6. PlayedInv /\ ChunkInv /\ DryInv
  BY <1>2, <1>3, <1>4 DEF PlayedInv, ChunkInv, DryInv
<1> QED BY <1>5, <1>6 DEF LiveInv

LEMMA HeldTypes ==
  ASSUME RingTypes
  PROVE  /\ Held \in Nat /\ Held <= Capacity /\ (Held = Capacity <=> full)
         /\ wr = (rd + Held) % Capacity /\ Len(played) \in Nat /\ Len(chunk) \in Nat
         /\ Capacity \in Nat \ {0} /\ rd \in 0..Capacity - 1 /\ wr \in 0..Capacity - 1
<1>1. /\ full \in BOOLEAN /\ rd \in 0..Capacity - 1 /\ wr \in 0..Capacity - 1 /\ (full => rd = wr)
      /\ Len(played) \in Nat /\ Len(chunk) \in Nat
  BY DEF RingTypes
<1>2. /\ Count(full, rd, wr) \in Nat /\ Count(full, rd, wr) <= Capacity
      /\ (Count(full, rd, wr) = Capacity <=> full)
      /\ wr = (rd + Count(full, rd, wr)) % Capacity
  BY <1>1, CountIs
<1> QED BY <1>1, <1>2, StreamsAssumption DEF Held

LEMMA PlayedStays ==
  ASSUME RingTypes, PlayedInv, UNCHANGED <<played, full, rd, wr, buf>>, decoded' \in Nat,
         decoded' >= decoded
  PROVE  PlayedInv' /\ Held' = Held
<1>1. Held' = Held
  BY DEF Held
<1>2. Len(played) + Held <= decoded'
  BY HeldTypes DEF PlayedInv, RingTypes
<1> QED BY <1>1, <1>2 DEF PlayedInv

LEMMA DecodeKeeps ==
  ASSUME LiveInv, Live!Decode
  PROVE  LiveInv'
<1> USE DEF LiveInv
<1>1. PICK n \in 0..Live!Min({MaxDecoded, frames - decoded}), how \in {"more", "eof", "error"} :
        /\ how = "more" => n > 0
        /\ how = "eof" => decoded + n = frames
        /\ decoded' = decoded + n
        /\ chunk' = SubSeq(Live!Source, decoded + 1, decoded + n) \o <<how>>
        /\ fill' = IF n > 0 THEN "write" ELSE "end"
  BY DEF Live!Decode
<1>2. /\ fill = "decode"
      /\ UNCHANGED <<frames, buf, rd, wr, full, dry, sourceErr, played, told>>
  BY DEF Live!Decode, Live!ringVars
<1>3. decoded \in Nat /\ frames \in Nat /\ decoded <= frames
  BY DEF RingTypes
<1>4. n \in Nat /\ decoded + n <= frames
  <2>1. frames - decoded \in Nat /\ MaxDecoded \in Nat
    BY <1>3, StreamsAssumption
  <2>2. Live!Min({MaxDecoded, frames - decoded}) \in {MaxDecoded, frames - decoded}
        /\ Live!Min({MaxDecoded, frames - decoded}) <= frames - decoded
    BY <2>1, LesserIs
  <2> QED BY <1>3, <2>1, <2>2
<1>5. PlayedInv' /\ Held' = Held
  BY <1>1, <1>2, <1>3, <1>4, PlayedStays
<1> DEFINE s == SubSeq(Live!Source, decoded + 1, decoded + n)
<1>6. s \in Seq(Nat) /\ Len(s) = n /\ \A i \in 1..n : s[i] = decoded + i
  <2>1. Live!Source = Upto(frames)
    BY DEF Live!Source, Upto
  <2>2. Upto(frames) \in Seq(Nat) /\ Len(Upto(frames)) = frames
        /\ \A i \in 1..frames : Upto(frames)[i] = i
    BY <1>3, UptoIs
  <2> DEFINE d == decoded
             u == Upto(frames)
  <2>3. /\ SubSeq(u, d + 1, d + n) \in Seq(Nat) /\ Len(SubSeq(u, d + 1, d + n)) = n
        /\ \A i \in 1..n : SubSeq(u, d + 1, d + n)[i] = u[d + i]
    <3>1. d \in Nat /\ n \in Nat /\ u \in Seq(Nat) /\ d + n <= Len(u)
      BY <1>3, <1>4, <2>2
    <3> HIDE DEF d, u
    <3> QED BY <3>1, Slice
  <2>4. \A i \in 1..n : decoded + i \in 1..frames
    BY <1>3, <1>4
  <2>5. s = SubSeq(u, d + 1, d + n)
    BY <2>1
  <2> HIDE DEF s, u
  <2> QED BY <2>2, <2>3, <2>4, <2>5 DEF u
<1>7. /\ chunk' \in Seq(Nat \cup {"more", "eof", "error"}) /\ Len(chunk') = n + 1
      /\ \A i \in 1..n : chunk'[i] = decoded + i
      /\ chunk'[n + 1] = how
  <2> HIDE DEF s
  <2> DEFINE T == Nat \cup {"more", "eof", "error"}
  <2>1. chunk' = s \o <<how>>
    BY <1>1 DEF s
  <2>2. s \in Seq(T) /\ how \in T
    BY <1>6
  <2> HIDE DEF T
  <2>3. /\ s \o <<how>> \in Seq(T) /\ Len(s \o <<how>>) = Len(s) + 1
        /\ \A i \in 1..Len(s) : (s \o <<how>>)[i] = s[i]
        /\ (s \o <<how>>)[Len(s) + 1] = how
    BY <2>2, OneMore
  <2> QED BY <1>6, <2>1, <2>3 DEF T
<1>8. RingTypes'
  BY <1>1, <1>2, <1>3, <1>4, <1>7 DEF RingTypes
<1>9. Len(played) + Held = decoded /\ ~dry
  BY <1>2 DEF ChunkInv, DryInv
<1>10. DryInv'
  BY <1>2, <1>9 DEF DryInv
<1>11. ChunkInv'
  <2>1. Len(chunk') - 1 = n
    BY <1>4, <1>7
  <2>2. /\ Len(chunk') >= 1 /\ Len(played) + Held + Len(chunk') - 1 = decoded'
        /\ \A k \in 1..Len(chunk') - 1 : chunk'[k] = Len(played) + Held + k
        /\ chunk'[Len(chunk')] \in {"more", "eof", "error"}
        /\ chunk'[Len(chunk')] = "eof" => decoded' = frames
    <3>1. Len(chunk') >= 1 /\ Len(played) + Held + Len(chunk') - 1 = decoded'
      BY <1>1, <1>3, <1>4, <1>7, <1>9, HeldTypes
    <3>2. \A k \in 1..n : chunk'[k] = Len(played) + Held + k
      BY <1>7, <1>9
    <3> QED BY <1>1, <1>7, <2>1, <3>1, <3>2
  <2>3. fill' = "write" => Len(chunk') > 1
    BY <1>1, <1>4, <1>7
  <2>4. fill' = "end" => Len(chunk') = 1 /\ chunk'[1] # "more"
    BY <1>1, <1>4, <1>7
  <2>5. fill' \in {"write", "end"}
    BY <1>1
  <2> QED BY <1>2, <1>5, <2>2, <2>3, <2>4, <2>5 DEF ChunkInv
<1> QED BY <1>5, <1>8, <1>10, <1>11

(* A turn of write that copies: the ring takes n frames of the chunk.      *)
LEMMA WriteKeeps ==
  ASSUME LiveInv, Live!Write
  PROVE  LiveInv'
<1> USE DEF LiveInv
<1>1. /\ fill = "write"
      /\ UNCHANGED <<frames, decoded, dry, sourceErr, ringClosed, played, told, rd>>
  BY DEF Live!Write, Live!srcVars, Live!ringVars
<1>2. ~dry
  BY <1>1 DEF DryInv
<1>3. DryInv'
  BY <1>1, <1>2 DEF DryInv
<1>4. CASE fill' = "parked" /\ UNCHANGED <<chunk, buf, wr, full>>
  <2>1. RingTypes' /\ PlayedInv' /\ Held' = Held
    BY <1>1, <1>4, PlayedStays DEF RingTypes
  <2>2. ChunkInv'
    BY <1>1, <1>4, <2>1 DEF ChunkInv
  <2> QED BY <1>3, <2>1, <2>2
<1>5. CASE fill' = "exited" /\ chunk' = <<>> /\ UNCHANGED <<buf, wr, full>>
  <2>1. chunk' \in Seq(Nat \cup {"more", "eof", "error"})
    BY <1>5
  <2>2. RingTypes'
    BY <1>1, <1>5, <2>1 DEF RingTypes
  <2>3. PlayedInv' /\ Held' = Held
    BY <1>1, <1>5, PlayedStays DEF RingTypes
  <2>4. ChunkInv'
    BY <1>5 DEF ChunkInv
  <2> QED BY <1>3, <2>2, <2>3, <2>4
<1>6. CASE /\ ~ringClosed /\ Live!AvailableToWrite > 0
           /\ LET n == Live!Min({Len(chunk) - 1, Live!AvailableToWrite}) IN
              /\ buf' = [i \in Live!Slots |->
                           LET k == (i - wr) % Capacity IN IF k < n THEN chunk[k + 1] ELSE buf[i]]
              /\ wr' = (wr + n) % Capacity
              /\ full' = (wr' = rd)
              /\ chunk' = SubSeq(chunk, n + 1, Len(chunk))
              /\ fill' = IF Len(chunk') > 1 THEN "write"
                         ELSE IF chunk'[1] = "more" THEN "check" ELSE "end"
  <2> DEFINE n == Live!Min({Len(chunk) - 1, Capacity - Held})
             P == Len(played)
  <2>1. Live!AvailableToWrite = Capacity - Held
    BY HeldIs
  <2>2. /\ Len(chunk) > 1 /\ P + Held + Len(chunk) - 1 = decoded
        /\ \A k \in 1..Len(chunk) - 1 : chunk[k] = P + Held + k
        /\ chunk[Len(chunk)] \in {"more", "eof", "error"}
        /\ chunk[Len(chunk)] = "eof" => decoded = frames
    BY <1>1 DEF ChunkInv
  <2>3. /\ Held \in Nat /\ Held <= Capacity /\ (Held = Capacity <=> full)
        /\ wr = (rd + Held) % Capacity /\ P \in Nat /\ Len(chunk) \in Nat
        /\ Capacity \in Nat \ {0} /\ rd \in 0..Capacity - 1 /\ wr \in 0..Capacity - 1
    BY HeldTypes
  <2>4. Held < Capacity /\ full = FALSE
    BY <1>6, <2>1, <2>3 DEF RingTypes
  <2>5. n \in Nat /\ n > 0 /\ n <= Len(chunk) - 1 /\ n <= Capacity - Held
    <3>1. Len(chunk) - 1 \in Nat /\ Capacity - Held \in Nat
          /\ Len(chunk) - 1 > 0 /\ Capacity - Held > 0
      BY <2>2, <2>3, <2>4
    <3> QED BY <3>1, LesserIs
  <2>6. /\ buf' = [i \in 0..Capacity - 1 |->
                     LET k == (i - wr) % Capacity IN IF k < n THEN chunk[k + 1] ELSE buf[i]]
        /\ wr' = (wr + n) % Capacity
        /\ full' = (wr' = rd)
        /\ chunk' = SubSeq(chunk, n + 1, Len(chunk))
        /\ fill' = IF Len(chunk') > 1 THEN "write"
                   ELSE IF chunk'[1] = "more" THEN "check" ELSE "end"
    BY <1>6, <2>1 DEF Live!Slots
  <2> HIDE DEF n, P
  <2>7. wr' \in 0..Capacity - 1 /\ Held' = Held + n
    <3>1. wr' = (wr + n) % Capacity /\ full' \in BOOLEAN /\ (full' <=> wr' = rd)
      BY <2>6
    <3>2. n <= Capacity - Count(full, rd, wr)
      BY <2>5 DEF Held
    <3> DEFINE p == wr'
               now == full'
    <3>3. p = (wr + n) % Capacity /\ now \in BOOLEAN /\ (now <=> p = rd)
      BY <3>1
    <3> HIDE DEF p, now
    <3>4. p \in 0..Capacity - 1 /\ Count(now, rd, p) = Count(full, rd, wr) + n
      <4>1. /\ wr \in 0..Capacity - 1 /\ rd \in 0..Capacity - 1 /\ n \in Nat /\ n > 0
            /\ full \in BOOLEAN /\ ~full
        BY <2>3, <2>4, <2>5
      <4> QED BY <3>2, <3>3, <4>1, CountRises
    <3> QED BY <1>1, <3>4 DEF Held, p, now
  <2>8. /\ chunk' \in Seq(Nat \cup {"more", "eof", "error"}) /\ Len(chunk') = Len(chunk) - n
        /\ \A k \in 1..Len(chunk) - n : chunk'[k] = chunk[n + k]
    <3> DEFINE c == chunk
    <3>1. c \in Seq(Nat \cup {"more", "eof", "error"}) /\ n \in Nat /\ n <= Len(c)
      BY <2>3, <2>5 DEF RingTypes
    <3>2. chunk' = SubSeq(c, n + 1, Len(c))
      BY <2>6
    <3> HIDE DEF c
    <3>3. /\ SubSeq(c, n + 1, Len(c)) \in Seq(Nat \cup {"more", "eof", "error"})
          /\ Len(SubSeq(c, n + 1, Len(c))) = Len(c) - n
          /\ \A k \in 1..Len(c) - n : SubSeq(c, n + 1, Len(c))[k] = c[n + k]
      BY <3>1
    <3> QED BY <3>2, <3>3 DEF c
  <2>9. RingTypes'
    <3>1. fill' \in {"write", "check", "end"} /\ full' \in BOOLEAN /\ (full' => rd = wr')
      BY <2>6
    <3> QED BY <1>1, <2>7, <2>8, <3>1 DEF RingTypes
  <2>10. PlayedInv'
    <3>1. P + Held' <= decoded
      BY <2>2, <2>3, <2>5, <2>7
    <3>2. ASSUME NEW k \in 0..Held' - 1 PROVE buf'[(rd + k) % Capacity] = P + k + 1
      <4>1. k \in Nat /\ k < Held + n /\ k < Capacity /\ Held \in Nat /\ Held < Capacity
        BY <2>3, <2>4, <2>5, <2>7, <3>2
      <4>a. (((rd + k) % Capacity) - ((rd + Held) % Capacity)) % Capacity =
              IF k >= Held THEN k - Held ELSE k - Held + Capacity
        BY <2>3, <4>1, Apart
      <4>2. (((rd + k) % Capacity) - wr) % Capacity =
              IF k >= Held THEN k - Held ELSE k - Held + Capacity
        <5>1. wr = (rd + Held) % Capacity
          BY <2>3
        <5> DEFINE place == (rd + Held) % Capacity
        <5>2. wr = place
          BY <5>1
        <5>3. (((rd + k) % Capacity) - place) % Capacity =
                IF k >= Held THEN k - Held ELSE k - Held + Capacity
          BY <4>a
        <5> HIDE DEF place
        <5> QED BY <5>2, <5>3
      <4>3. (rd + k) % Capacity \in 0..Capacity - 1
        BY <2>3, <4>1
      <4> DEFINE i == (rd + k) % Capacity
      <4>4. buf'[i] = IF (i - wr) % Capacity < n THEN chunk[((i - wr) % Capacity) + 1] ELSE buf[i]
        BY <2>6, <4>3
      <4>5. (i - wr) % Capacity = IF k >= Held THEN k - Held ELSE k - Held + Capacity
        BY <4>2
      <4> HIDE DEF i
      <4>6. CASE k >= Held
        <5>1. (i - wr) % Capacity = k - Held /\ k - Held < n
          BY <2>5, <4>1, <4>5, <4>6
        <5>2. buf'[i] = chunk[k - Held + 1]
          BY <4>4, <5>1
        <5>3. k - Held + 1 \in 1..Len(chunk) - 1
          BY <2>3, <2>5, <4>1, <4>6
        <5>4. chunk[k - Held + 1] = P + Held + (k - Held + 1)
          BY <2>2, <5>3
        <5> QED BY <2>3, <4>1, <5>2, <5>4 DEF i
      <4>7. CASE k < Held
        <5>1. ~((i - wr) % Capacity < n)
          BY <2>3, <2>5, <4>1, <4>5, <4>7
        <5>2. buf'[i] = buf[i]
          BY <4>4, <5>1
        <5>3. buf[i] = P + k + 1
          BY <4>1, <4>7 DEF PlayedInv, i, P
        <5> QED BY <5>2, <5>3 DEF i
      <4> QED BY <2>3, <4>1, <4>6, <4>7
    <3> QED BY <1>1, <3>1, <3>2 DEF PlayedInv, P
  <2>11. ChunkInv'
    <3>1. Len(chunk') >= 1 /\ P + Held' + Len(chunk') - 1 = decoded
      BY <2>2, <2>3, <2>5, <2>7, <2>8
    <3>2. ASSUME NEW k \in 1..Len(chunk') - 1 PROVE chunk'[k] = P + Held' + k
      <4>1. k \in 1..Len(chunk) - n /\ n + k \in 1..Len(chunk) - 1
        <5>1. Len(chunk) \in Nat /\ n \in Nat
          BY <2>3, <2>5
        <5>2. k \in 1..(Len(chunk) - n) - 1
          BY <2>8, <3>2
        <5> HIDE DEF n
        <5> QED BY <5>1, <5>2
      <4>2. chunk'[k] = P + Held + (n + k)
        BY <2>2, <2>8, <4>1
      <4> QED BY <2>3, <2>5, <2>7, <4>1, <4>2
    <3>3. chunk'[Len(chunk')] = chunk[Len(chunk)]
      <4>1. Len(chunk) - n \in 1..Len(chunk) - n /\ n + (Len(chunk) - n) = Len(chunk)
        BY <2>3, <2>5
      <4> QED BY <2>8, <4>1
    <3>4. fill' = "check" => P + Held' = decoded
      <4>1. fill' = "check" => ~(Len(chunk') > 1)
        BY <2>6
      <4> QED BY <2>3, <2>5, <2>7, <2>8, <3>1, <4>1
    <3>5. fill' = "write" => Len(chunk') > 1
      BY <2>6
    <3>6. fill' = "end" => Len(chunk') = 1 /\ chunk'[1] # "more"
      <4>1. fill' = "end" => ~(Len(chunk') > 1) /\ chunk'[1] # "more"
        BY <2>6
      <4> QED BY <2>3, <2>5, <2>8, <3>1, <4>1
    <3>7. fill' \in {"check", "write", "end"}
      BY <2>6
    <3> QED BY <1>1, <2>2, <3>1, <3>2, <3>3, <3>4, <3>5, <3>6, <3>7 DEF ChunkInv, P
  <2> QED BY <1>3, <2>9, <2>10, <2>11
<1> QED BY <1>4, <1>5, <1>6 DEF Live!Write, Live!ringVars

LEMMA EndKeeps ==
  ASSUME LiveInv, Live!CheckClosed \/ Live!EndOfSource
  PROVE  LiveInv'
<1> USE DEF LiveInv
<1>1. CASE Live!CheckClosed
  <2>1. /\ fill = "check" /\ fill' \in {"exited", "decode"}
        /\ UNCHANGED <<frames, decoded, chunk, buf, rd, wr, full, dry, sourceErr, played, told>>
    BY <1>1 DEF Live!CheckClosed, Live!srcVars, Live!ringVars
  <2>2. RingTypes' /\ PlayedInv' /\ Held' = Held
    BY <2>1, PlayedStays DEF RingTypes
  <2>3. ChunkInv' /\ DryInv'
    BY <2>1, <2>2 DEF ChunkInv, DryInv
  <2> QED BY <2>2, <2>3
<1>2. CASE Live!EndOfSource
  <2>1. /\ fill = "end" /\ fill' = "exited" /\ chunk' = <<>> /\ dry' = TRUE
        /\ sourceErr' = (chunk[1] = "error")
        /\ UNCHANGED <<frames, decoded, buf, rd, wr, full, played, told>>
    BY <1>2 DEF Live!EndOfSource, Live!srcVars, Live!ringVars
  <2>2. chunk' \in Seq(Nat \cup {"more", "eof", "error"})
    BY <2>1
  <2>3. RingTypes'
    BY <2>1, <2>2 DEF RingTypes
  <2>4. PlayedInv' /\ Held' = Held
    BY <2>1, PlayedStays DEF RingTypes
  <2>5. ChunkInv'
    BY <2>1 DEF ChunkInv
  <2>6. /\ Len(chunk) = 1 /\ chunk[1] # "more" /\ Len(played) + Held + Len(chunk) - 1 = decoded
        /\ chunk[Len(chunk)] \in {"more", "eof", "error"}
        /\ chunk[Len(chunk)] = "eof" => decoded = frames
    BY <2>1 DEF ChunkInv
  <2>7. ~sourceErr' => Len(played) + Held = frames
    <3>1. Len(played) + Held = decoded
      BY <2>6, HeldTypes
    <3>2. chunk[1] \in {"eof", "error"}
      BY <2>6
    <3> QED BY <2>1, <2>6, <3>1, <3>2
  <2>8. DryInv'
    BY <2>1, <2>4, <2>7 DEF DryInv
  <2> QED BY <2>3, <2>4, <2>5, <2>8
<1> QED BY <1>1, <1>2

(* What the callback does: it plays what it takes from the ring, and tells *)
(* a clean end behind the last frame only.                                 *)
LEMMA SpeakerKeeps ==
  ASSUME LiveInv, NEW room \in 1..MaxCallback, Live!Stream(room)
  PROVE  /\ LiveInv'
         /\ told = "no" /\ Len(played) <= Len(played') /\ Len(played') <= frames
         /\ told' = "eof" => Len(played') = frames
<1> USE DEF LiveInv
<1>1. /\ told = "no"
      /\ UNCHANGED <<frames, decoded, chunk, buf, wr, dry, sourceErr>>
  BY DEF Live!Stream, Live!srcVars
<1>2. /\ Held \in Nat /\ Held <= Capacity /\ (Held = Capacity <=> full)
      /\ Len(played) \in Nat /\ Len(chunk) \in Nat
      /\ Capacity \in Nat \ {0} /\ rd \in 0..Capacity - 1 /\ wr \in 0..Capacity - 1
      /\ decoded \in Nat /\ frames \in Nat /\ decoded <= frames
      /\ Len(played) + Held <= decoded /\ played \in Seq(Nat)
  BY HeldTypes DEF RingTypes, PlayedInv
<1>3. CASE UNCHANGED <<fill, rd, full, played, told>>
  <2>1. RingTypes' /\ PlayedInv' /\ Held' = Held
    BY <1>1, <1>3, PlayedStays DEF RingTypes
  <2>2. ChunkInv' /\ DryInv'
    BY <1>1, <1>3, <2>1 DEF ChunkInv, DryInv
  <2> QED BY <1>1, <1>2, <1>3, <2>1, <2>2
<1>4. CASE LET n == Live!Min({room, Live!AvailableToRead}) IN
           /\ played' = played \o [k \in 1..n |-> buf[(rd + k - 1) % Capacity]]
           /\ rd' = (rd + n) % Capacity
           /\ full' = (full /\ n = 0)
           /\ fill' = IF n > 0 THEN Live!Broadcast(fill) ELSE fill
           /\ told' = Live!Told(room, n)
  <2> DEFINE n == Live!Min({room, Held})
             s == [k \in 1..n |-> buf[(rd + k - 1) % Capacity]]
             P == Len(played)
  <2>1. /\ played' = played \o s
        /\ rd' = (rd + n) % Capacity
        /\ full' = (full /\ n = 0)
        /\ fill' = IF n > 0 THEN Live!Broadcast(fill) ELSE fill
        /\ told' = Live!Told(room, n)
    BY <1>4, HeldIs
  <2>2. room \in Nat
    BY StreamsAssumption
  <2>3. n \in Nat /\ n <= Held /\ (n < room => n = Held)
    <3>1. n \in {room, Held} /\ n <= room /\ n <= Held
      BY <1>2, <2>2, LesserIs
    <3> HIDE DEF n
    <3> QED BY <1>2, <2>2, <3>1
  <2>4. s \in Seq(Nat) /\ Len(s) = n /\ \A i \in 1..n : s[i] = P + i
    <3>1. ASSUME NEW i \in 1..n PROVE buf[(rd + i - 1) % Capacity] = P + i
      <4> HIDE DEF n
      <4>1. i - 1 \in 0..Held - 1 /\ rd + i - 1 = rd + (i - 1)
        BY <1>2, <2>3
      <4>2. buf[(rd + (i - 1)) % Capacity] = P + (i - 1) + 1
        BY <4>1 DEF PlayedInv
      <4> QED BY <1>2, <2>3, <4>1, <4>2
    <3> HIDE DEF n
    <3>2. \A i \in 1..n : s[i] = buf[(rd + i - 1) % Capacity]
      OBVIOUS
    <3>3. \A i \in 1..n : P + i \in Nat
      BY <1>2, <2>3
    <3>4. \A i \in 1..n : buf[(rd + i - 1) % Capacity] \in Nat
      BY <3>1, <3>3
    <3>5. s \in Seq(Nat) /\ Len(s) = n
      BY <2>3, <3>4
    <3> HIDE DEF s
    <3>6. \A i \in 1..n : s[i] = P + i
      BY <3>1, <3>2
    <3> QED BY <3>5, <3>6
  <2> HIDE DEF n, s
  <2>5. played' = Upto(P + n)
    <3>1. played = Upto(P)
      BY DEF PlayedInv
    <3> HIDE DEF P
    <3>2. P \in Nat
      BY <1>2 DEF P
    <3>3. Upto(P) \o s = Upto(P + n)
      BY <2>3, <2>4, <3>2, UptoAndMore
    <3> QED BY <2>1, <3>1, <3>3
  <2>6. P + n \in Nat
    BY <1>2, <2>3
  <2>7. played' \in Seq(Nat) /\ Len(played') = P + n
    <3> HIDE DEF P
    <3> QED BY <2>5, <2>6, UptoIs
  <2>8. rd' \in 0..Capacity - 1 /\ (full' => rd' = wr) /\ full' \in BOOLEAN /\ Held' = Held - n
    <3>1. rd' = (rd + n) % Capacity /\ full' \in BOOLEAN /\ (full' <=> full /\ n = 0)
      BY <2>1
    <3>2. n <= Count(full, rd, wr)
      BY <2>3 DEF Held
    <3> DEFINE p == rd'
               still == full'
    <3>3. p = (rd + n) % Capacity /\ still \in BOOLEAN /\ (still <=> full /\ n = 0)
      BY <3>1
    <3> HIDE DEF p, still
    <3>4. /\ p \in 0..Capacity - 1 /\ (still => p = wr)
          /\ Count(still, p, wr) = Count(full, rd, wr) - n
      <4>1. /\ wr \in 0..Capacity - 1 /\ rd \in 0..Capacity - 1 /\ n \in Nat
            /\ full \in BOOLEAN /\ (full => rd = wr)
        BY <1>2, <2>3 DEF RingTypes
      <4> QED BY <3>2, <3>3, <4>1, CountFalls
    <3> QED BY <1>1, <3>1, <3>4 DEF Held, p, still
  <2>9. fill' \in {fill, "write"} /\ (fill' # fill => fill = "parked" /\ fill' = "write")
    BY <2>1 DEF Live!Broadcast
  <2>10. told' \in {"no", "eof", "failed"}
         /\ (told' = "eof" => n < room /\ dry /\ ~sourceErr)
    BY <2>1 DEF Live!Told
  <2>11. RingTypes'
    <3>1. fill' \in {"check", "decode", "write", "parked", "end", "exited"}
      BY <2>9 DEF RingTypes
    <3> QED BY <1>1, <2>7, <2>8, <2>10, <3>1 DEF RingTypes
  <2>12. Len(played') + Held' = P + Held
    BY <1>2, <2>3, <2>7, <2>8
  <2>13. PlayedInv'
    <3>1. played' = Upto(Len(played'))
      BY <2>5, <2>7
    <3>2. ASSUME NEW k \in 0..Held' - 1
          PROVE  buf[(rd' + k) % Capacity] = Len(played') + k + 1
      <4>1. k \in Nat /\ n + k < Capacity /\ n + k \in 0..Held - 1
        BY <1>2, <2>3, <2>8, <3>2
      <4>2. (((rd + n) % Capacity) + k) % Capacity = (rd + (n + k)) % Capacity
        BY <1>2, <2>3, <4>1, Rounds
      <4>3. buf[(rd + (n + k)) % Capacity] = P + (n + k) + 1
        BY <4>1 DEF PlayedInv
      <4>4. rd' = (rd + n) % Capacity
        BY <2>1
      <4>5. buf[(rd' + k) % Capacity] = P + (n + k) + 1
        BY <4>2, <4>3, <4>4, Zenon
      <4> QED BY <1>2, <2>3, <2>7, <4>1, <4>5
    <3> QED BY <1>1, <1>2, <2>12, <3>1, <3>2 DEF PlayedInv
  <2>14. ChunkInv'
    <3> DEFINE a == Len(played) + Held
               b == Len(played') + Held'
    <3>1. b = a
      BY <2>12
    <3>2. /\ fill \in {"check", "decode"} => a = decoded
          /\ fill \in {"write", "parked", "end"} =>
               /\ Len(chunk) >= 1 /\ a + Len(chunk) - 1 = decoded
               /\ \A k \in 1..Len(chunk) - 1 : chunk[k] = a + k
               /\ chunk[Len(chunk)] \in {"more", "eof", "error"}
               /\ chunk[Len(chunk)] = "eof" => decoded = frames
          /\ fill \in {"write", "parked"} => Len(chunk) > 1
          /\ fill = "end" => Len(chunk) = 1 /\ chunk[1] # "more"
      BY DEF ChunkInv
    <3> HIDE DEF a, b
    <3>3. /\ fill' \in {"check", "decode"} => b = decoded
          /\ fill' \in {"write", "parked", "end"} =>
               /\ Len(chunk) >= 1 /\ b + Len(chunk) - 1 = decoded
               /\ \A k \in 1..Len(chunk) - 1 : chunk[k] = b + k
               /\ chunk[Len(chunk)] \in {"more", "eof", "error"}
               /\ chunk[Len(chunk)] = "eof" => decoded = frames
          /\ fill' \in {"write", "parked"} => Len(chunk) > 1
          /\ fill' = "end" => Len(chunk) = 1 /\ chunk[1] # "more"
      BY <2>9, <3>1, <3>2
    <3> QED BY <1>1, <3>3 DEF ChunkInv, b
  <2>15. DryInv'
    BY <1>1, <2>9, <2>12 DEF DryInv
  <2>16. told' = "eof" => Len(played') = frames
    BY <1>2, <2>3, <2>7, <2>10 DEF DryInv
  <2> QED BY <1>1, <1>2, <2>3, <2>7, <2>11, <2>13, <2>14, <2>15, <2>16
<1>5. CASE Live!Silence
  BY <1>3, <1>5 DEF Live!Stream
<1>6. CASE ~Live!Silence
  BY <1>4, <1>6 DEF Live!Stream
<1> QED BY <1>5, <1>6

LEMMA CloseKeeps ==
  ASSUME LiveInv, Live!ClosePrefetch \/ Live!CloseDecoder \/ Live!WaitFill \/ UNCHANGED liveVars
  PROVE  LiveInv'
<1> USE DEF LiveInv
<1>1. /\ UNCHANGED <<frames, decoded, chunk, buf, rd, wr, full, dry, sourceErr, played, told>>
      /\ fill' = fill \/ (fill = "parked" /\ fill' = "write")
  BY DEF Live!ClosePrefetch, Live!CloseDecoder, Live!WaitFill, Live!srcVars, Live!ringVars,
     Live!Broadcast, liveVars
<1>2. RingTypes' /\ PlayedInv' /\ Held' = Held
  BY <1>1, PlayedStays DEF RingTypes
<1>3. ChunkInv' /\ DryInv'
  BY <1>1, <1>2 DEF ChunkInv, DryInv
<1> QED BY <1>2, <1>3

LEMMA LiveInvStep == LiveInv /\ [StreamsNext]_allVars => LiveInv'
<1> SUFFICES ASSUME LiveInv, [StreamsNext]_allVars PROVE LiveInv'
  OBVIOUS
<1>1. CASE Live!Next
  <2>1. CASE Live!Speaker
    BY <2>1, SpeakerKeeps DEF Live!Speaker
  <2> QED BY <1>1, <2>1, EndKeeps, DecodeKeeps, WriteKeeps, CloseKeeps DEF Live!Next
<1>2. CASE UNCHANGED liveVars
  BY <1>2, CloseKeeps
<1> QED BY <1>1, <1>2 DEF StreamsNext, OfDownload, OfRing, OfTrack, allVars

LEMMA LiveInvHolds == StreamsSpec => []LiveInv
BY LiveInvInit, LiveInvStep, PTL DEF StreamsSpec

(* A call of the speaker hands it more of the stream; nothing else does.   *)
LEMMA LivePlays ==
  ASSUME LiveInv, LiveInv', [StreamsNext]_allVars
  PROVE  [Live!ByteStreamOf!Next]_(Live!ByteStreamOf!streamVars)
<1> USE DEF Live!ByteStreamOf!streamVars
<1>1. CASE Live!Speaker
  <2>1. PICK room \in 1..MaxCallback : Live!Stream(room)
    BY <1>1 DEF Live!Speaker
  <2>2. /\ told = "no" /\ Len(played) <= Len(played') /\ Len(played') <= frames
        /\ told' = "eof" => Len(played') = frames
    BY <2>1, SpeakerKeeps
  <2>3. /\ played' = Upto(Len(played')) /\ Len(played) \in Nat /\ Len(played') \in Nat
        /\ frames \in Nat /\ told' \in {"no", "eof", "failed"}
    BY DEF LiveInv, PlayedInv, RingTypes
  <2>4. Live!Source' = Live!Source
    BY <2>1 DEF Live!Stream, Live!srcVars, Live!Source
  <2>5. /\ Len(Live!Source) = frames
        /\ SubSeq(Live!Source, 1, Len(played')) = played'
    <3>1. Live!Source = Upto(frames)
      BY DEF Live!Source, Upto
    <3>2. Len(Upto(frames)) = frames /\ SubSeq(Upto(frames), 1, Len(played')) = played'
      BY <2>2, <2>3, UptoIs, PartOfUpto
    <3> QED BY <3>1, <3>2
  <2> DEFINE before == [l \in {"speaker"} |-> played]
             after == [l \in {"speaker"} |-> played']
             toldBefore == [l \in {"speaker"} |-> told]
             toldAfter == [l \in {"speaker"} |-> told']
  <2>6. /\ after = [before EXCEPT !["speaker"] = SubSeq(Live!Source, 1, Len(played'))]
        /\ toldAfter = [toldBefore EXCEPT !["speaker"] = told']
        /\ toldBefore["speaker"] = "no"
        /\ Len(played') \in Len(before["speaker"])..Len(Live!Source)
        /\ told' = "eof" => Len(played') = Len(Live!Source)
    <3>1. /\ after = [before EXCEPT !["speaker"] = played']
          /\ toldAfter = [toldBefore EXCEPT !["speaker"] = told']
          /\ before["speaker"] = played
      OBVIOUS
    <3>2. Len(played') \in Len(played)..Len(Live!Source)
      <4>1. Len(played) \in Nat /\ Len(played') \in Nat /\ frames \in Nat
        BY <2>3
      <4>2. Len(Live!Source) = frames
        BY <2>5
      <4> QED BY <2>2, <4>1, <4>2
    <3> QED BY <2>2, <2>5, <3>1, <3>2
  <2>7. Live!ByteStreamOf!Hand("speaker")
    BY <2>3, <2>4, <2>6 DEF Live!ByteStreamOf!Hand
  <2> QED BY <2>7 DEF Live!ByteStreamOf!Next
<1>2. CASE Live!Next /\ ~Live!Speaker
  <2>1. UNCHANGED <<frames, played, told>>
    BY <1>2 DEF Live!Next, Live!CheckClosed, Live!Decode, Live!Write, Live!EndOfSource,
       Live!ClosePrefetch, Live!CloseDecoder, Live!WaitFill, Live!srcVars
  <2> QED BY <2>1 DEF Live!Source
<1>3. CASE UNCHANGED liveVars
  BY <1>3 DEF liveVars, Live!Source
<1> QED BY <1>1, <1>2, <1>3 DEF StreamsNext, OfDownload, OfRing, OfTrack, allVars

(* The ring implements ByteStream for the speaker.                         *)
THEOREM RingIsAByteStream == StreamsSpec => Live!PlaysTheStream
<1>1. StreamsInit => Live!ByteStreamOf!Init
  BY DEF StreamsInit, Live!Init, Live!ByteStreamOf!Init
<1>2. LiveInv /\ LiveInv' /\ [StreamsNext]_allVars =>
        [Live!ByteStreamOf!Next]_(Live!ByteStreamOf!streamVars)
  BY LivePlays
<1> QED BY <1>1, <1>2, LiveInvHolds, PTL
    DEF StreamsSpec, Live!PlaysTheStream, Live!ByteStreamOf!Spec

(* Whoever listens hears the source in order, and a stall is true: for any *)
(* number of readers, any length of the stream, any ring and any chunks.   *)
THEOREM EveryoneHears == StreamsSpec => EveryoneHearsTheStream
BY DownloadIsAByteStream, StallsAreTrue, RingIsAByteStream DEF EveryoneHearsTheStream

-----------------------------------------------------------------------------
(* A Spotify track                                                         *)

Reading == {"read", "reposition"}
Busy    == {"look", "open", "adopt", "move", "swap", "give up"}
Holding == {"adopt", "move", "swap"}
Inside  == {"move", "swap", "swapped"}
Cutting == {"cancel", "lock", "returned"}

StreamType ==
  /\ closing \in BOOLEAN /\ recovering \in BOOLEAN /\ err \in BOOLEAN
  /\ closer \in {"none", "stop"} \cup Cutting
  /\ recovery \in {"none", "swapped"} \cup Busy
  /\ speaker \in {"idle", "stream", "seek", "return"} \cup Reading

(* How many streams there are: one, and one more for each recovery that    *)
(* has opened its own.                                                     *)
CountInv ==
  /\ opened \in Nat /\ recoveries \in Nat
  /\ opened <= recoveries + 1 /\ recoveries <= MaxRecoveries
  /\ recovery \in {"look", "open"} => opened <= recoveries
  /\ cancel \in Nat /\ 1 <= cancel /\ cancel <= opened
  /\ recovery \in Holding => new = opened /\ cancel < new

(* Who holds s.mu, and what they may find: a read begins on a stream that  *)
(* is not being recovered, and a new stream is adopted in one piece.       *)
MuInv ==
  /\ speaker \in Reading \cup {"return"} => mu = "speaker"
  /\ speaker \in Reading => ~recovering /\ source # None
  /\ recovery \in Inside => mu = "recovery"
  /\ recovery \in Busy => recovering
  /\ recovery = "swapped" => ~recovering

(* The streams that are not canceled: the one that s.cancel cuts off, and  *)
(* the one that the goroutine of recover has in its hand.                  *)
OpenInv ==
  /\ source \in {None, cancel}
  /\ \A s \in 1..opened : s \in canceled \/ s = cancel \/ (recovery \in Holding /\ s = new)
  /\ recovery = "swapped" => new = cancel
  /\ \A s \in canceled : s \in Nat /\ s <= opened
  /\ closing <=> closer # "none"
  /\ ~closing => source = cancel /\ cancel \notin canceled
  /\ ~closing /\ recovery \in Holding => new \notin canceled

(* Close has cut off the stream that s.cancel names, unless a swap was     *)
(* under way, which then does it.                                          *)
CutInv ==
  /\ closer \in Cutting =>
       /\ cut \in Nat /\ cut <= opened
       /\ cut = cancel \/ recovery = "swapped" \/ cancel \in canceled
  /\ closer \in {"lock", "returned"} => cut \in canceled

ReleaseInv == StreamType /\ CountInv /\ MuInv /\ OpenInv /\ CutInv

(* The frame that must sound next: the source is there, or a recovery will *)
(* bring the new stream there.                                             *)
PlaceInv ==
  /\ at \in [Streams -> Frames]
  /\ {target, resume, from, due} \subseteq Frames
  /\ recovering => resume = due
  /\ recovery = "swap" => at[new] = resume
  /\ recovery = "adopt" => at[new] = from
  /\ ~recovering /\ ~err /\ ~closing => at[source] = due
  /\ ResumesInPlace

-----------------------------------------------------------------------------

LEMMA TrackInvInit ==
  ASSUME MaxRecoveries \in Nat, Last \in Nat, Init
  PROVE  ReleaseInv /\ PlaceInv
<1>1. StreamType /\ MuInv /\ CutInv
  BY DEF Init, StreamType, MuInv, CutInv, None, Reading, Busy, Holding, Inside, Cutting
<1>2. CountInv
  BY DEF Init, CountInv, Holding
<1>3. OpenInv
  BY DEF Init, OpenInv, None, Holding
<1>4. 0 \in Frames /\ 1 \in Streams
  BY DEF Frames, Streams
<1>5. PlaceInv
  BY <1>4 DEF Init, PlaceInv, ResumesInPlace
<1> QED BY <1>1, <1>2, <1>3, <1>5 DEF ReleaseInv

(* A lost connection leaves room for one more stream.                      *)
LEMMA RecoveryCounts ==
  ASSUME CountInv, recovery \notin Busy, recoveries < MaxRecoveries, MaxRecoveries \in Nat,
         recoveries' = recoveries + 1, recovery' = "look", UNCHANGED <<opened, cancel>>
  PROVE  CountInv'
<1>1. opened' <= recoveries' /\ opened' <= recoveries' + 1 /\ recoveries' <= MaxRecoveries
  BY DEF CountInv
<1>2. {opened', recoveries', cancel'} \subseteq Nat /\ 1 <= cancel' /\ cancel' <= opened'
  BY DEF CountInv
<1>3. recovery' \notin Holding
  BY DEF Holding
<1> QED BY <1>1, <1>2, <1>3 DEF CountInv

(* Every step keeps the books of the streams.                              *)
LEMMA ReleaseStep ==
  ASSUME MaxRecoveries \in Nat, Last \in Nat, ReleaseInv, [Next]_vars
  PROVE  ReleaseInv'
<1> USE DEF ReleaseInv, StreamType, CountInv, MuInv, OpenInv, CutInv,
           Reading, Busy, Holding, Inside, Cutting,
           sourceVars, recoveryVars, streamVars, speakerVars, goVars
<1>1. CASE UNCHANGED vars
  <2>1. StreamType'
    BY <1>1 DEF vars
  <2>2. CountInv'
    BY <1>1 DEF vars
  <2>3. MuInv'
    BY <1>1 DEF vars
  <2>4. OpenInv'
    BY <1>1 DEF vars
  <2>5. CutInv'
    BY <1>1 DEF vars
  <2> QED BY <2>1, <2>2, <2>3, <2>4, <2>5
<1>2. CASE CallStream
  BY <1>2 DEF CallStream, Call
<1>3. CASE CallSeek
  <2>0. Call("seek")
    BY <1>3 DEF CallSeek
  <2>1. StreamType'
    BY <2>0 DEF Call
  <2>2. CountInv'
    BY <2>0 DEF Call
  <2>3. MuInv'
    BY <2>0 DEF Call
  <2>4. OpenInv'
    BY <2>0 DEF Call
  <2>5. CutInv'
    BY <2>0 DEF Call
  <2> QED BY <2>1, <2>2, <2>3, <2>4, <2>5
<1>4. CASE BeginStream
  <2>1. StreamType'
    BY <1>4 DEF BeginStream, Take, Over
  <2>2. CountInv'
    BY <1>4 DEF BeginStream, Take, Over
  <2>3. MuInv'
    BY <1>4 DEF BeginStream, Take, Over
  <2>4. OpenInv'
    BY <1>4 DEF BeginStream, Take, Over
  <2>5. CutInv'
    BY <1>4 DEF BeginStream, Take, Over
  <2> QED BY <2>1, <2>2, <2>3, <2>4, <2>5
<1>5. CASE ReadFrame
  BY <1>5 DEF ReadFrame
<1>6. CASE ReadEnd
  BY <1>6 DEF ReadEnd
<1>7. CASE ReadFails
  <2>1. StreamType'
    BY <1>7 DEF ReadFails
  <2>2. CountInv'
    <3>1. recovery \notin Busy /\ UNCHANGED <<opened, cancel>>
      BY <1>7 DEF ReadFails
    <3>2. CASE UNCHANGED <<recoveries, recovery>>
      BY <3>1, <3>2
    <3>3. CASE /\ recoveries < MaxRecoveries /\ recoveries' = recoveries + 1
               /\ recovery' = "look"
      BY <3>1, <3>3, RecoveryCounts
    <3> QED BY <1>7, <3>2, <3>3 DEF ReadFails, recoveryVars
  <2>3. MuInv'
    BY <1>7 DEF ReadFails
  <2>4. OpenInv'
    BY <1>7 DEF ReadFails
  <2>5. CutInv'
    BY <1>7 DEF ReadFails
  <2> QED BY <2>1, <2>2, <2>3, <2>4, <2>5
<1>8. CASE BeginSeek
  <2>1. StreamType'
    BY <1>8 DEF BeginSeek, Take, Over
  <2>2. CountInv'
    BY <1>8 DEF BeginSeek, Take, Over
  <2>3. MuInv'
    BY <1>8 DEF BeginSeek, Take, Over
  <2>4. OpenInv'
    BY <1>8 DEF BeginSeek, Take, Over
  <2>5. CutInv'
    BY <1>8 DEF BeginSeek, Take, Over
  <2> QED BY <2>1, <2>2, <2>3, <2>4, <2>5
<1>9. CASE Reposition
  BY <1>9 DEF Reposition
<1>10. CASE Return
  <2>1. StreamType'
    BY <1>10 DEF Return, Drop
  <2>2. CountInv'
    BY <1>10 DEF Return, Drop
  <2>3. MuInv'
    BY <1>10 DEF Return, Drop
  <2>4. OpenInv'
    BY <1>10 DEF Return, Drop
  <2>5. CutInv'
    BY <1>10 DEF Return, Drop
  <2> QED BY <2>1, <2>2, <2>3, <2>4, <2>5
<1>11. CASE Look
  <2>1. StreamType'
    BY <1>11 DEF Look
  <2>2. CountInv'
    BY <1>11 DEF Look
  <2>3. MuInv'
    BY <1>11 DEF Look
  <2>4. OpenInv'
    BY <1>11 DEF Look
  <2>5. CutInv'
    BY <1>11 DEF Look
  <2> QED BY <2>1, <2>2, <2>3, <2>4, <2>5
<1>12. CASE Open
  BY <1>12 DEF Open
<1>13. CASE OpenFails
  <2>1. StreamType'
    BY <1>13 DEF OpenFails
  <2>2. CountInv'
    BY <1>13 DEF OpenFails
  <2>3. MuInv'
    BY <1>13 DEF OpenFails
  <2>4. OpenInv'
    BY <1>13 DEF OpenFails
  <2>5. CutInv'
    BY <1>13 DEF OpenFails
  <2> QED BY <2>1, <2>2, <2>3, <2>4, <2>5
<1>14. CASE GiveUp
  BY <1>14 DEF GiveUp
<1>15. CASE BeginAdopt
  <2>1. StreamType'
    BY <1>15 DEF BeginAdopt, Take, Moved
  <2>2. CountInv'
    BY <1>15 DEF BeginAdopt, Take, Moved
  <2>3. MuInv'
    BY <1>15 DEF BeginAdopt, Take, Moved
  <2>4. OpenInv'
    BY <1>15 DEF BeginAdopt, Take, Moved
  <2>5. CutInv'
    BY <1>15 DEF BeginAdopt, Take, Moved
  <2> QED BY <2>1, <2>2, <2>3, <2>4, <2>5
<1>16. CASE MoveNew
  <2>1. StreamType'
    BY <1>16 DEF MoveNew, Drop
  <2>2. CountInv'
    BY <1>16 DEF MoveNew, Drop
  <2>3. MuInv'
    BY <1>16 DEF MoveNew, Drop
  <2>4. OpenInv'
    <3>1. CASE recovery' = "swap" /\ UNCHANGED canceled
      BY <1>16, <3>1 DEF MoveNew
    <3>2. CASE recovery' = "none" /\ canceled' = canceled \cup {new}
      BY <1>16, <3>2 DEF MoveNew
    <3> QED BY <1>16, <3>1, <3>2 DEF MoveNew
  <2>5. CutInv'
    BY <1>16 DEF MoveNew, Drop
  <2> QED BY <2>1, <2>2, <2>3, <2>4, <2>5
<1>17. CASE Swap
  <2>1. StreamType'
    BY <1>17 DEF Swap
  <2>2. CountInv'
    BY <1>17 DEF Swap
  <2>3. MuInv'
    BY <1>17 DEF Swap
  <2>4. OpenInv'
    BY <1>17 DEF Swap
  <2>5. CutInv'
    BY <1>17 DEF Swap
  <2> QED BY <2>1, <2>2, <2>3, <2>4, <2>5
<1>18. CASE EndAdopt
  <2>1. StreamType'
    BY <1>18 DEF EndAdopt, Drop, Late
  <2>2. CountInv'
    BY <1>18 DEF EndAdopt, Drop, Late
  <2>3. MuInv'
    BY <1>18 DEF EndAdopt, Drop, Late
  <2>4. OpenInv'
    BY <1>18 DEF EndAdopt, Drop, Late
  <2>5. CutInv'
    BY <1>18 DEF EndAdopt, Drop, Late
  <2> QED BY <2>1, <2>2, <2>3, <2>4, <2>5
<1>19. CASE CloseMark
  BY <1>19 DEF CloseMark
<1>20. CASE CloseStop
  <2>1. StreamType'
    BY <1>20 DEF CloseStop
  <2>2. CountInv'
    BY <1>20 DEF CloseStop
  <2>3. MuInv'
    BY <1>20 DEF CloseStop
  <2>4. OpenInv'
    BY <1>20 DEF CloseStop
  <2>5. CutInv'
    BY <1>20 DEF CloseStop
  <2> QED BY <2>1, <2>2, <2>3, <2>4, <2>5
<1>21. CASE CloseCancel
  <2>1. StreamType'
    BY <1>21 DEF CloseCancel, CutFirst
  <2>2. CountInv'
    BY <1>21 DEF CloseCancel, CutFirst
  <2>3. MuInv'
    BY <1>21 DEF CloseCancel, CutFirst
  <2>4. OpenInv'
    BY <1>21 DEF CloseCancel, CutFirst
  <2>5. CutInv'
    BY <1>21 DEF CloseCancel, CutFirst
  <2> QED BY <2>1, <2>2, <2>3, <2>4, <2>5
<1>22. CASE CloseEnd
  BY <1>22 DEF CloseEnd
<1> QED
  BY <1>1, <1>2, <1>3, <1>4, <1>5, <1>6, <1>7, <1>8, <1>9, <1>10, <1>11, <1>12,
     <1>13, <1>14, <1>15, <1>16, <1>17, <1>18, <1>19, <1>20, <1>21, <1>22 DEF Next

(* Every step keeps the place of the listener.                             *)
LEMMA PlaceStep ==
  ASSUME MaxRecoveries \in Nat, Last \in Nat, ReleaseInv, PlaceInv, [Next]_vars
  PROVE  PlaceInv'
<1>a. StreamType /\ CountInv /\ MuInv /\ OpenInv
  BY DEF ReleaseInv
<1>b. /\ cancel \in Streams
      /\ recovery \in Holding => new \in Streams /\ new # cancel
      /\ recovery = "open" => opened + 1 \in Streams /\ opened + 1 # cancel
  BY <1>a DEF CountInv, Streams, Holding
<1>c. \A n \in Frames : n < Last => n + 1 \in Frames
  BY DEF Frames
<1> USE DEF StreamType, MuInv, OpenInv, PlaceInv, ResumesInPlace, Reading, Busy, Holding,
           Inside, sourceVars, recoveryVars, streamVars, speakerVars, goVars
<1>1. CASE UNCHANGED vars
  BY <1>a, <1>b, <1>c, <1>1 DEF vars
<1>2. CASE CallStream
  BY <1>a, <1>b, <1>c, <1>2 DEF CallStream, Call
<1>3. CASE CallSeek
  <2>1. Call("seek") /\ target' \in Frames
    BY <1>3 DEF CallSeek
  <2> QED BY <1>a, <2>1 DEF Call
<1>4. CASE BeginStream
  BY <1>a, <1>b, <1>c, <1>4 DEF BeginStream, Take, Over
<1>5. CASE ReadFrame
  BY <1>a, <1>b, <1>c, <1>5 DEF ReadFrame
<1>6. CASE ReadEnd
  BY <1>a, <1>b, <1>c, <1>6 DEF ReadEnd
<1>7. CASE ReadFails
  BY <1>a, <1>b, <1>c, <1>7 DEF ReadFails
<1>8. CASE BeginSeek
  <2>1. CASE recovering /\ recovering' /\ resume' = target /\ due' = target
    <3>1. /\ speaker' = "return" /\ recovery \notin Inside
          /\ UNCHANGED <<recovery, at, target, from, new>>
      BY <1>a, <1>8, <2>1 DEF BeginSeek, Take
    <3> QED BY <2>1, <3>1
  <2>2. CASE UNCHANGED <<resume, due>>
    BY <1>a, <1>8, <2>2 DEF BeginSeek, Take, Over
  <2> QED BY <1>8, <2>1, <2>2 DEF BeginSeek
<1>9. CASE Reposition
  BY <1>a, <1>b, <1>c, <1>9 DEF Reposition
<1>10. CASE Return
  BY <1>a, <1>b, <1>c, <1>10 DEF Return, Drop
<1>11. CASE Look
  BY <1>a, <1>b, <1>c, <1>11 DEF Look
<1>12. CASE Open
  BY <1>a, <1>b, <1>c, <1>12 DEF Open
<1>13. CASE OpenFails
  BY <1>a, <1>b, <1>c, <1>13 DEF OpenFails
<1>14. CASE GiveUp
  BY <1>a, <1>b, <1>c, <1>14 DEF GiveUp
<1>15. CASE BeginAdopt
  BY <1>a, <1>b, <1>c, <1>15 DEF BeginAdopt, Take, Moved
<1>16. CASE MoveNew
  BY <1>a, <1>b, <1>c, <1>16 DEF MoveNew, Drop
<1>17. CASE Swap
  BY <1>a, <1>b, <1>c, <1>17 DEF Swap
<1>18. CASE EndAdopt
  BY <1>a, <1>b, <1>c, <1>18 DEF EndAdopt, Drop, Late
<1>19. CASE CloseMark
  BY <1>a, <1>b, <1>c, <1>19 DEF CloseMark
<1>20. CASE CloseStop
  BY <1>a, <1>b, <1>c, <1>20 DEF CloseStop
<1>21. CASE CloseCancel
  BY <1>a, <1>b, <1>c, <1>21 DEF CloseCancel, CutFirst
<1>22. CASE CloseEnd
  BY <1>a, <1>b, <1>c, <1>22 DEF CloseEnd
<1> QED
  BY <1>1, <1>2, <1>3, <1>4, <1>5, <1>6, <1>7, <1>8, <1>9, <1>10, <1>11, <1>12,
     <1>13, <1>14, <1>15, <1>16, <1>17, <1>18, <1>19, <1>20, <1>21, <1>22 DEF Next

-----------------------------------------------------------------------------

(* For any number of recoveries and attempts: when Close has returned and  *)
(* no recovery is under way, every stream is canceled, and while the track *)
(* plays only the one that is heard is open (Close, recover and adopt).    *)
THEOREM StreamsAreReleased ==
  ASSUME MaxRecoveries \in Nat, Last \in Nat
  PROVE  Spec => []StreamsReleased
<1>1. ReleaseInv => StreamsReleased
  BY DEF ReleaseInv, StreamType, CountInv, OpenInv, CutInv, StreamsReleased, Holding, Cutting,
         None
<1> QED BY <1>1, TrackInvInit, ReleaseStep, PTL DEF Spec

(* A listener hears each frame behind the one before, or where they went,  *)
(* for a track of any length and any number of recoveries (Seek, recover   *)
(* and adopt).                                                             *)
THEOREM TracksResumeInPlace ==
  ASSUME MaxRecoveries \in Nat, Last \in Nat
  PROVE  Spec => []ResumesInPlace
<1>1. PlaceInv => ResumesInPlace
  BY DEF PlaceInv
<1> QED BY <1>1, TrackInvInit, ReleaseStep, PlaceStep, PTL DEF Spec
=============================================================================
