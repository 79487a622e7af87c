---------------------------- MODULE SpotifyStream ----------------------------
(***************************************************************************)
(* A Spotify track that survives a lost connection                         *)
(* (external/spotify/streamer.go): when a read fails, the streamer plays   *)
(* silence while a goroutine opens the track again where it was, or where  *)
(* a seek has moved it meanwhile.  The speaker's goroutine reads and       *)
(* seeks, and Close may come at any moment: it cancels the stream's        *)
(* requests before it waits for the mutex that a blocked read holds.       *)
(*                                                                         *)
(* A stream is its number; a position is a frame of the track.             *)
(***************************************************************************)
EXTENDS Naturals

CONSTANTS
  Last,          \* frames of the track
  MaxRecoveries, \* spotifyMaxRecoveries: lost connections per track
  Attempts       \* spotifyRecoverAttempts: tries per recovery

VARIABLES
  mu,                          \* who holds s.mu
  closing, closed, err,
  source, cancel,              \* the stream that is read, the one s.cancel cuts off
  recovering, recoveries, resume,
  stopped,                     \* s.life is over
  opened, at, canceled,        \* streams opened; each one's position, and whether it is cut off
  speaker, target,             \* the speaker's goroutine; where its Seek goes
  recovery, attempt, from, new, \* the goroutine of recover, and its locals
  closer, cut,                 \* the caller of Close, and the cancel function it read
  due                          \* history: the frame that must sound next

sourceVars == <<source, cancel>>
recoveryVars == <<recovering, recoveries, resume>>
streamVars == <<opened, at, canceled>>
speakerVars == <<speaker, target>>
goVars == <<recovery, attempt, from, new>>
closeVars == <<closing, closed, stopped, closer, cut>>
vars == <<mu, closing, closed, err, sourceVars, recoveryVars, stopped, streamVars,
          speakerVars, goVars, closer, cut, due>>

None == 0
Streams == 1..MaxRecoveries + 1
Frames == 0..Last

Init ==
  /\ mu = "free"
  /\ closing = FALSE /\ closed = FALSE /\ err = FALSE
  /\ source = 1 /\ cancel = 1
  /\ recovering = FALSE /\ recoveries = 0 /\ resume = 0
  /\ stopped = FALSE
  /\ opened = 1 /\ at = [s \in Streams |-> 0] /\ canceled = {}
  /\ speaker = "idle" /\ target = 0
  /\ recovery = "none" /\ attempt = 0 /\ from = 0 /\ new = None
  /\ closer = "none" /\ cut = None
  /\ due = 0

Take(who) == mu = "free" /\ mu' = who
Drop == mu' = "free"

-----------------------------------------------------------------------------
(* Stream and Seek, called by the speaker's goroutine                      *)

(* Both look at closing before they wait for the mutex.                    *)
Call(what) ==
  /\ speaker = "idle" /\ ~closing
  /\ speaker' = what
  /\ UNCHANGED <<mu, closing, closed, err, sourceVars, recoveryVars, stopped, streamVars,
                 goVars, closer, cut, due>>

CallStream == Call("stream") /\ UNCHANGED target
CallSeek == \E p \in Frames : Call("seek") /\ target' = p

Over == closing \/ source = None

(* Stream: nothing is left, silence, or a read, which keeps the mutex.     *)
BeginStream ==
  /\ speaker = "stream" /\ Take("speaker")
  /\ speaker' = IF Over \/ err \/ recovering THEN "return" ELSE "read"
  /\ UNCHANGED <<closing, closed, err, sourceVars, recoveryVars, stopped, streamVars, target,
                 goVars, closer, cut, due>>

ReadFrame ==
  /\ speaker = "read" /\ source \notin canceled /\ at[source] < Last
  /\ at' = [at EXCEPT ![source] = @ + 1]
  /\ due' = at[source] + 1
  /\ speaker' = "return"
  /\ UNCHANGED <<mu, closing, closed, err, sourceVars, recoveryVars, stopped, opened, canceled,
                 target, goVars, closer, cut>>

ReadEnd ==
  /\ speaker = "read" /\ source \notin canceled /\ at[source] = Last
  /\ speaker' = "return"
  /\ UNCHANGED <<mu, closing, closed, err, sourceVars, recoveryVars, stopped, streamVars,
                 target, goVars, closer, cut, due>>

(* A read fails: at the end of a close, with a recovery, or for good.      *)
ReadFails ==
  /\ speaker = "read"
  /\ speaker' = "return"
  /\ IF closing THEN UNCHANGED <<err, recoveryVars, recovery, attempt>>
     ELSE IF recoveries < MaxRecoveries
     THEN /\ recoveries' = recoveries + 1
          /\ recovering' = TRUE
          /\ resume' = at[source]
          /\ recovery' = "look" /\ attempt' = 1
          /\ UNCHANGED err
     ELSE err' = TRUE /\ UNCHANGED <<recoveryVars, recovery, attempt>>
  /\ UNCHANGED <<mu, closing, closed, sourceVars, stopped, streamVars, target, from, new,
                 closer, cut, due>>

(* Seek: refused, remembered for the stream that is being opened, or done. *)
BeginSeek ==
  /\ speaker = "seek" /\ Take("speaker")
  /\ speaker' = IF Over \/ recovering THEN "return" ELSE "reposition"
  /\ IF ~Over /\ recovering
     THEN resume' = target /\ due' = target
     ELSE UNCHANGED <<resume, due>>
  /\ UNCHANGED <<closing, closed, err, sourceVars, recovering, recoveries, stopped, streamVars,
                 target, goVars, closer, cut>>

(* SetPositionMs of the source; one that fails may have moved it.          *)
Reposition ==
  /\ speaker = "reposition"
  /\ \/ source \notin canceled /\ at' = [at EXCEPT ![source] = target] /\ due' = target
     \/ UNCHANGED <<at, due>>
  /\ speaker' = "return"
  /\ UNCHANGED <<mu, closing, closed, err, sourceVars, recoveryVars, stopped, opened, canceled,
                 target, goVars, closer, cut>>

Return ==
  /\ speaker = "return" /\ Drop
  /\ speaker' = "idle"
  /\ UNCHANGED <<closing, closed, err, sourceVars, recoveryVars, stopped, streamVars, target,
                 goVars, closer, cut, due>>

-----------------------------------------------------------------------------
(* recover and adopt                                                       *)

(* The wait before an attempt ends early when the streamer closes; the     *)
(* first attempt does not wait.                                            *)
Look ==
  /\ recovery = "look"
  /\ \/ /\ stopped /\ attempt > 1
        /\ recovery' = "none"
        /\ UNCHANGED from
     \/ mu = "free" /\ from' = resume /\ recovery' = "open"
  /\ UNCHANGED <<mu, closing, closed, err, sourceVars, recoveryVars, stopped, streamVars,
                 speakerVars, attempt, new, closer, cut, due>>

(* reopen ends with a stream, even after Close: its select may find both.  *)
Open ==
  /\ recovery = "open"
  /\ opened' = opened + 1 /\ new' = opened'
  /\ at' = [at EXCEPT ![opened'] = from]
  /\ recovery' = "adopt"
  /\ UNCHANGED <<mu, closing, closed, err, sourceVars, recoveryVars, stopped, canceled,
                 speakerVars, attempt, from, closer, cut, due>>

(* ... or fails, and cancels what its worker may still open.               *)
OpenFails ==
  /\ recovery = "open"
  /\ recovery' = IF stopped THEN "none" ELSE IF attempt < Attempts THEN "look" ELSE "give up"
  /\ attempt' = IF recovery' = "look" THEN attempt + 1 ELSE attempt
  /\ UNCHANGED <<mu, closing, closed, err, sourceVars, recoveryVars, stopped, streamVars,
                 speakerVars, from, new, closer, cut, due>>

GiveUp ==
  /\ recovery = "give up" /\ mu = "free"
  /\ recovery' = "none"
  /\ recovering' = FALSE
  /\ err' = (err \/ ~closing)
  /\ UNCHANGED <<mu, closing, closed, sourceVars, recoveries, resume, stopped, streamVars,
                 speakerVars, attempt, from, new, closer, cut, due>>

BadMoved == FALSE
Moved == resume # from

BeginAdopt ==
  /\ recovery = "adopt" /\ mu = "free"
  /\ IF closing \/ closed
     THEN canceled' = canceled \cup {new} /\ recovery' = "none" /\ UNCHANGED mu
     ELSE Take("recovery") /\ recovery' = (IF Moved THEN "move" ELSE "swap") /\ UNCHANGED canceled
  /\ UNCHANGED <<closing, closed, err, sourceVars, recoveryVars, stopped, opened, at,
                 speakerVars, attempt, from, new, closer, cut, due>>

(* The seek of the new stream, under the mutex and on the network: no      *)
(* cancel of the streamer cuts it off yet, so it may never end.            *)
MoveNew ==
  /\ recovery = "move"
  /\ \/ /\ at' = [at EXCEPT ![new] = resume]
        /\ recovery' = "swap"
        /\ UNCHANGED <<mu, err, recovering, canceled>>
     \/ /\ Drop /\ canceled' = canceled \cup {new}
        /\ recovering' = FALSE /\ err' = TRUE /\ recovery' = "none"
        /\ UNCHANGED at
  /\ UNCHANGED <<closing, closed, sourceVars, recoveries, resume, stopped, opened,
                 speakerVars, attempt, from, new, closer, cut, due>>

Swap ==
  /\ recovery = "swap"
  /\ source' = new /\ cancel' = new
  /\ recovering' = FALSE
  /\ canceled' = canceled \cup {cancel}
  /\ recovery' = "swapped"
  /\ UNCHANGED <<mu, closing, closed, err, recoveries, resume, stopped, opened, at,
                 speakerVars, attempt, from, new, closer, cut, due>>

(* "Close sets closing before it cancels, so a Close that cancelled the    *)
(* old stream before the swap is visible here."                            *)
BadLate == {}
Late == IF closing THEN {new} ELSE {}

EndAdopt ==
  /\ recovery = "swapped" /\ Drop
  /\ canceled' = canceled \cup Late
  /\ recovery' = "none"
  /\ UNCHANGED <<closing, closed, err, sourceVars, recoveryVars, stopped, opened, at,
                 speakerVars, attempt, from, new, closer, cut, due>>

-----------------------------------------------------------------------------
(* Close                                                                   *)

CloseMark ==
  /\ closer = "none"
  /\ closing' = TRUE /\ closer' = "stop"
  /\ UNCHANGED <<mu, closed, err, sourceVars, recoveryVars, stopped, streamVars, speakerVars,
                 goVars, cut, due>>

(* s.stop(), then the cancel function is read under cancelMu.              *)
CloseStop ==
  /\ closer = "stop"
  /\ stopped' = TRUE /\ cut' = cancel /\ closer' = "cancel"
  /\ UNCHANGED <<mu, closing, closed, err, sourceVars, recoveryVars, streamVars, speakerVars,
                 goVars, due>>

BadCutFirst == mu = "free"
CutFirst == TRUE

CloseCancel ==
  /\ closer = "cancel" /\ CutFirst
  /\ canceled' = canceled \cup {cut} /\ closer' = "lock"
  /\ UNCHANGED <<mu, closing, closed, err, sourceVars, recoveryVars, stopped, opened, at,
                 speakerVars, goVars, cut, due>>

CloseEnd ==
  /\ closer = "lock" /\ mu = "free"
  /\ closed' = TRUE /\ source' = None /\ closer' = "returned"
  /\ UNCHANGED <<mu, closing, err, cancel, recoveryVars, stopped, streamVars, speakerVars,
                 goVars, cut, due>>

-----------------------------------------------------------------------------

Speaks ==
  \/ BeginStream \/ BeginSeek \/ Return
  \/ source \in canceled /\ (ReadFails \/ Reposition)

(* All but the seek in adopt, MoveNew.                                     *)
Recovers == Look \/ Open \/ OpenFails \/ GiveUp \/ BeginAdopt \/ Swap \/ EndAdopt

Closes == CloseStop \/ CloseCancel \/ CloseEnd

Next ==
  \/ CallStream \/ CallSeek \/ BeginStream \/ ReadFrame \/ ReadEnd \/ ReadFails
  \/ BeginSeek \/ Reposition \/ Return
  \/ Look \/ Open \/ OpenFails \/ GiveUp \/ BeginAdopt \/ MoveNew \/ Swap \/ EndAdopt
  \/ CloseMark \/ CloseStop \/ CloseCancel \/ CloseEnd

Spec == Init /\ [][Next]_vars

(* The network owes the listener nothing, nor the seek in adopt; but a     *)
(* canceled read fails, an attempt to reopen ends by its time limit, and   *)
(* Go's mutex goes to whoever waits long enough.                           *)
Fairness == SF_vars(Speaks) /\ SF_vars(Recovers) /\ SF_vars(Closes)

FairSpec == Spec /\ Fairness

-----------------------------------------------------------------------------
(* Properties *)

TypeOK ==
  /\ mu \in {"free", "speaker", "recovery"}
  /\ source \in {None} \cup Streams /\ cancel \in Streams /\ opened \in Streams
  /\ at \in [Streams -> Frames] /\ canceled \subseteq Streams
  /\ recoveries \in 0..MaxRecoveries /\ resume \in Frames /\ due \in Frames

(* A stream holds requests and a goroutine of librespot until it is        *)
(* canceled.  Whatever Close meets, a read, a seek, a reopening or its     *)
(* adoption, when all have returned no stream is left open; and while the  *)
(* track plays only the one that is heard is.                              *)
StreamsReleased ==
  /\ closer = "returned" /\ recovery = "none" => 1..opened \subseteq canceled
  /\ closer = "none" /\ recovery = "none" /\ ~err => 1..opened \ canceled = {source}

(* A listener who hears the track again after a silence hears it where it  *)
(* broke off, or where they went meanwhile: adopt moves a stream that was  *)
(* opened before the seek.                                                 *)
ResumesInPlace == speaker = "read" => at[source] = due

(* Silence ends, with the track or with an error that ends it, and Close   *)
(* returns though a read, a recovery or a seek is under way: "Cancel it    *)
(* before waiting to close the decoder."  Not so while the seek in adopt   *)
(* waits: with the mutex it keeps the silence and Close, for good if it    *)
(* never ends.  It is all that does, see NobodyWaitsForGood in MCStreams.  *)
CallsReturn ==
  /\ recovering ~> ~recovering \/ closed
  /\ closer # "none" ~> closer = "returned"
=============================================================================
