---------------------------- MODULE LivePrefetch ----------------------------
(***************************************************************************)
(* The ring between a network decoder and the speaker                      *)
(* (player/live_prefetch.go): a goroutine decodes ahead and parks on a     *)
(* condition when the ring is full, the speaker's callback takes what is   *)
(* there or silence and never waits, and after an underrun stays silent    *)
(* until the ring holds a small refill.  Closing the pipeline              *)
(* (player/pipeline.go) stops the ring, then the decoder, then waits.      *)
(*                                                                         *)
(* Frame i of the stream is the number i.                                  *)
(***************************************************************************)
EXTENDS Integers, Sequences, FiniteSetsExt

CONSTANTS
  Capacity,     \* frames the ring holds: four seconds
  Refill,       \* half a second of frames
  MaxSize,      \* the longest stream
  MaxChunk,     \* the most frames one decode yields
  MaxCallback   \* the most frames one callback asks for

VARIABLES
  size, decoded,            \* the stream, and how much of it src has given
  pc, chunk,                \* fill: its place, and the frames it still has to write
  buf, r, w, full,          \* the ring
  buffering, done, sourceErr, closed,
  got, ended,               \* the frames played, and how Stream told their end
  closing                   \* the caller of trackPipeline.close

srcVars == <<size, decoded>>
ringVars == <<buf, r, w, full>>
vars == <<srcVars, pc, chunk, ringVars, buffering, done, sourceErr, closed, got, ended, closing>>

Source == [i \in 1..size |-> i]

ResumeAt == Min({Max({Refill, 1}), Capacity})

Slots == 0..Capacity - 1

Init ==
  /\ size \in 0..MaxSize /\ decoded = 0
  /\ pc = "check" /\ chunk = <<>>
  /\ buf = [i \in Slots |-> 0] /\ r = 0 /\ w = 0 /\ full = FALSE
  /\ buffering = TRUE /\ done = FALSE /\ sourceErr = FALSE /\ closed = FALSE
  /\ got = <<>> /\ ended = "no"
  /\ closing = "open"

AvailableToRead ==
  IF full THEN Capacity ELSE IF w >= r THEN w - r ELSE Capacity - (r - w)

AvailableToWrite ==
  IF full THEN 0 ELSE IF w >= r THEN Capacity - (w - r) ELSE r - w

(* cond.Broadcast, whose one waiter is fill; it holds mu again before it   *)
(* looks.                                                                  *)
BadBroadcast(place) == place
Broadcast(place) == IF place = "parked" THEN "write" ELSE place

-----------------------------------------------------------------------------
(* fill and write                                                          *)

CheckClosed ==
  /\ pc = "check"
  /\ pc' = IF closed THEN "exited" ELSE "decode"
  /\ UNCHANGED <<srcVars, chunk, ringVars, buffering, done, sourceErr, closed, got, ended,
                 closing>>

(* src.Stream returns frames and true, or the frames before its end or its *)
(* failure and false.  One that close cut off fails.                       *)
Decode ==
  /\ pc = "decode"
  /\ \E n \in 0..Min({MaxChunk, size - decoded}), how \in {"more", "eof", "error"} :
       /\ how = "more" => n > 0
       /\ how = "eof" => decoded + n = size
       /\ decoded' = decoded + n
       /\ chunk' = SubSeq(Source, decoded + 1, decoded + n) \o <<how>>
       /\ pc' = IF n > 0 THEN "write" ELSE "end"
  /\ UNCHANGED <<size, ringVars, buffering, done, sourceErr, closed, got, ended, closing>>

(* One turn of write: it parks, gives up, or copies what fits.             *)
Write ==
  /\ pc = "write"
  /\ \/ /\ ~closed /\ AvailableToWrite = 0
        /\ pc' = "parked"
        /\ UNCHANGED <<chunk, ringVars>>
     \/ closed /\ pc' = "exited" /\ chunk' = <<>> /\ UNCHANGED ringVars
     \/ /\ ~closed /\ AvailableToWrite > 0
        /\ LET n == Min({Len(chunk) - 1, AvailableToWrite}) IN
           /\ buf' = [i \in Slots |->
                        LET k == (i - w) % Capacity IN IF k < n THEN chunk[k + 1] ELSE buf[i]]
           /\ w' = (w + n) % Capacity
           /\ full' = (w' = r)
           /\ chunk' = SubSeq(chunk, n + 1, Len(chunk))
           /\ pc' = IF Len(chunk') > 1 THEN "write"
                    ELSE IF chunk'[1] = "more" THEN "check" ELSE "end"
        /\ UNCHANGED r
  /\ UNCHANGED <<srcVars, buffering, done, sourceErr, closed, got, ended, closing>>

EndOfSource ==
  /\ pc = "end"
  /\ pc' = "exited" /\ chunk' = <<>>
  /\ done' = TRUE /\ sourceErr' = (chunk[1] = "error")
  /\ UNCHANGED <<srcVars, ringVars, buffering, closed, got, ended, closing>>

-----------------------------------------------------------------------------
(* Stream, called by the speaker with room for `room` frames until it has  *)
(* told the end                                                            *)

(* The end is told by a short count as soon as a clean source ran dry, so  *)
(* that the next track follows without a gap, and by false otherwise.      *)
BadTold(room, n) == IF n < room /\ done THEN "eof" ELSE "no"

BadToldEarly(room, n) == IF done THEN IF sourceErr THEN "failed" ELSE "eof" ELSE "no"

Told(room, n) ==
  IF n < room /\ done /\ (n = 0 \/ ~sourceErr)
  THEN IF sourceErr THEN "failed" ELSE "eof"
  ELSE "no"

BadSilence == buffering /\ AvailableToRead < ResumeAt

Silence == buffering /\ ~done /\ AvailableToRead < ResumeAt

Stream(room) ==
  /\ ended = "no"
  /\ IF Silence
     THEN UNCHANGED <<pc, r, full, buffering, got, ended>>
     ELSE LET n == Min({room, AvailableToRead}) IN
          /\ got' = got \o [k \in 1..n |-> buf[(r + k - 1) % Capacity]]
          /\ r' = (r + n) % Capacity
          /\ full' = (full /\ n = 0)
          /\ pc' = IF n > 0 THEN Broadcast(pc) ELSE pc
          /\ ended' = Told(room, n)
          /\ buffering' = IF done THEN buffering /\ n = 0 ELSE n < room
  /\ UNCHANGED <<srcVars, chunk, buf, w, done, sourceErr, closed, closing>>

-----------------------------------------------------------------------------
(* trackPipeline.close                                                     *)

ClosePrefetch ==
  /\ closing = "open"
  /\ closing' = "marked"
  /\ closed' = TRUE
  /\ pc' = Broadcast(pc)
  /\ UNCHANGED <<srcVars, chunk, ringVars, buffering, done, sourceErr, got, ended>>

CloseDecoder ==
  /\ closing = "marked"
  /\ closing' = "cut"
  /\ UNCHANGED <<srcVars, pc, chunk, ringVars, buffering, done, sourceErr, closed, got, ended>>

WaitFill ==
  /\ closing = "cut" /\ pc = "exited"
  /\ closing' = "closed"
  /\ UNCHANGED <<srcVars, pc, chunk, ringVars, buffering, done, sourceErr, closed, got, ended>>

-----------------------------------------------------------------------------

Fill == CheckClosed \/ Write \/ EndOfSource
Speaker == \E room \in 1..MaxCallback : Stream(room)
Close == CloseDecoder \/ WaitFill

Next ==
  \/ CheckClosed
  \/ Decode
  \/ Write
  \/ EndOfSource
  \/ Speaker
  \/ ClosePrefetch
  \/ CloseDecoder
  \/ WaitFill

Spec == Init /\ [][Next]_vars

(* The goroutines run and the speaker calls.  The network owes nothing,    *)
(* but a decoder that was closed returns.                                  *)
Fairness ==
  /\ WF_vars(Fill) /\ WF_vars(closing = "cut" /\ Decode)
  /\ WF_vars(Speaker) /\ WF_vars(Close)

FairSpec == Spec /\ Fairness

-----------------------------------------------------------------------------
(* Properties *)

TypeOK ==
  /\ decoded \in 0..size /\ r \in Slots /\ w \in Slots
  /\ full => r = w
  /\ pc \in {"check", "decode", "write", "parked", "end", "exited"}

ByteStreamOf == INSTANCE ByteStream WITH Listeners <- {"speaker"}, source <- Source,
  got <- [l \in {"speaker"} |-> got], ended <- [l \in {"speaker"} |-> ended]

(* The speaker plays the stream in order and without a gap, and is told a  *)
(* clean end only behind the last frame, when the next track may follow.   *)
PlaysTheStream == ByteStreamOf!Spec

Held == [k \in 1..AvailableToRead |-> buf[(r + k - 1) % Capacity]]
Unwritten == SubSeq(chunk, 1, Len(chunk) - 1)

(* What was played, what the ring holds and what fill still has to write   *)
(* is what was decoded, so a ring that wraps or fills up mixes up no       *)
(* frames; and no end, clean or failed, is told while a frame still waits: *)
(* "the short count ends the stream".                                      *)
EndsAfterTheLast ==
  /\ pc # "exited" \/ done => got \o Held \o Unwritten = SubSeq(Source, 1, decoded)
  /\ ended # "no" => Held = <<>> /\ Unwritten = <<>>

(* "It returns buffered samples or silence, then waits for a small         *)
(* refill": once the decoder is a refill ahead, or at its end, the speaker *)
(* gets past silence, however the filler and the callback meet at the      *)
(* ring's limits.                                                          *)
Resumes ==
  []<>(ended # "no" \/ closed \/ ~(done \/ decoded - Len(got) >= ResumeAt))

(* trackPipeline.close returns, parked filler and stalled decoder or not.  *)
CloseReturns == closing # "open" ~> closing = "closed"
=============================================================================
