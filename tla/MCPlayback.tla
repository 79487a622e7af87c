----------------------------- MODULE MCPlayback -----------------------------
(***************************************************************************)
(* Playback.tla for TLC and for the proofs about it, which share a module  *)
(* with those about the engine: its properties under their own names, and  *)
(* for TLC a track of each kind, a short list and one to replace it.       *)
(***************************************************************************)
EXTENDS Naturals, Sequences

CONSTANTS NoTrack, Tracks, Kind, InitRows, Lists, Reported, Positions,
          MaxCalls, MaxBreaks, MaxWaiting, LiveRestarts, RefusedSkips
VARIABLE model

Tui == INSTANCE Playback WITH s <- model, None <- NoTrack

ASSUME PlaybackAssumption ==
  /\ Kind \in [Tracks -> Tui!Kinds] /\ NoTrack \notin Tracks
  /\ InitRows \in Seq(Tracks) /\ Lists \subseteq Seq(Tracks)
  /\ Positions \subseteq Reported /\ Reported \subseteq Tracks
  /\ MaxCalls \in Nat /\ MaxBreaks \in Nat /\ MaxWaiting \in Nat
  /\ LiveRestarts \in Nat /\ RefusedSkips \in Nat

TuiSpec == Tui!Spec

-----------------------------------------------------------------------------
(* The track the UI announced is the one the engine plays, once the tick   *)
(* has heard of a gapless switch and unless a switch was missed.           *)
AnnouncedIsPlaying == Tui!AnnouncedIsPlaying

(* What a gapless switch would play is the track advanceToNext picks.      *)
PreloadIsNext == Tui!PreloadIsNext

(* The queue does not stall: a track that ended is followed, but for a     *)
(* station that plays behind a local track (StationsRetry).                *)
EndsMoveOn == Tui!EndsMoveOn

(* Every play that is announced is reported and, at its end, scrobbled,    *)
(* once and in order; positions aside no report is dropped, and unless the *)
(* wait times out the program exits after the last (report_queue.go).      *)
(* Not stated: that a play which is left before its end is scrobbled when  *)
(* half of it was played.                                                  *)
ReportsArrive == Tui!ReportsArrive

(* "Async stream buffering (true while HTTP connect is in progress)"       *)
(* (model.go).                                                             *)
BufferingIsConnecting == Tui!BufferingIsConnecting

(* A progress report gives the position of the track it names              *)
(* (notifications.go).                                                     *)
ProgressOfWhatPlays == Tui!ProgressOfWhatPlays

(* "A clean decoder EOF is a disconnect, so retry this station instead of  *)
(* advancing" (tick.go).                                                   *)
StationsRetry == Tui!StationsRetry

-----------------------------------------------------------------------------
(* A track is named for its kind. *)
Named == [t \in Tracks |-> t]
Mixed == <<"stream", "broadcast">>
Other == {<<"direct">>}
Radio == <<"direct", "station">>
=============================================================================
