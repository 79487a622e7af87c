--------------------------- MODULE SpotifyConnect ---------------------------
(***************************************************************************)
(* What the Spotify Connect receiver does while it serves a login          *)
(* (external/spotify/connect.go, serve) and how the TUI plays what it asks *)
(* for (ui/model).  Three parties run on their own: Spotify sends commands *)
(* and learns of cliamp only by the states PUT to it; the receiver is one  *)
(* goroutine that handles a message at a time; the TUI opens tracks in the *)
(* background, and stores a snapshot for the receiver after each message.  *)
(* A command that waits behind another is one that comes later.            *)
(*                                                                         *)
(* Left out: seeks, volume, options and the queue, which pass through to   *)
(* the TUI (Forward), and what a state tells besides track, status, sleep  *)
(* timer and activity.  A cluster push no newer than the last transfer is  *)
(* ignored, which is no step.                                              *)
(***************************************************************************)
EXTENDS Naturals

CONSTANTS
  Tracks,
  First,        \* the one that the TUI is on at the start
  Uris,         \* those Tracks that are of Spotify: a path that begins with "spotify:"
  None,
  MaxCommands,  \* bound: what Spotify and the user do, rebinds and ends of tracks
  MaxLimited    \* bound: PUTs that Spotify refuses for their rate

VARIABLES
  tui,         \* track; playing, paused (the engine); load (buffering and what the
               \* command that opens has reached); hold (pauseOnStreamStart)
  snap,        \* r.playback
  inbox,       \* what program.Send has handed over and Update has not handled
  at,          \* where the run goroutine is
  job,         \* the takeover whose tracks it loads
  spotConnID, active,
  claim,       \* late: its until has passed
  sleep,       \* sleepTimer, sleepEndOfTrack, sleepTrackURL, sleepState
  dirty, putTimer,
  early,       \* putDelay would not be zero
  shown,       \* the state that Spotify got last
  lost,        \* history: the last PUT did not get there, for another reason than its rate
  wish,        \* history: what Spotify last asked for
  taking,      \* history: a takeover that Spotify was told of is still loading
  commands, limited

tuiVars == <<tui, snap, inbox>>
putVars == <<putTimer, early, shown, lost, limited>>
vars == <<tuiVars, at, job, spotConnID, active, claim, sleep, dirty, putVars, wish, taking,
          commands>>

Awake == [timer |-> FALSE, end |-> FALSE, track |-> None, state |-> "none"]
Unseen == [track |-> None, status |-> "unseen", sleep |-> "none", buffering |-> FALSE]

(* playbackState, of the TUI.                                              *)
State(m) ==
  [track |-> m.track,
   status |-> IF ~m.playing THEN "stopped" ELSE IF m.paused THEN "paused" ELSE "playing"]

Init ==
  /\ tui \in [track : {First}, playing : BOOLEAN, paused : {FALSE}, load : {"no"}, hold : {FALSE}]
  /\ snap = State(tui) /\ inbox = <<>>
  /\ at = "select" /\ job = None
  /\ spotConnID = FALSE /\ active = FALSE /\ claim = None /\ sleep = Awake
  /\ dirty = FALSE /\ putTimer = FALSE /\ early = FALSE
  /\ shown = Unseen /\ lost = FALSE /\ wish = "free" /\ taking = FALSE /\ commands = 0 /\ limited = 0

Spends == commands < MaxCommands /\ commands' = commands + 1

-----------------------------------------------------------------------------
(* States PUT to Spotify                                                   *)

BadLoaded(c) == snap.track = c.uri
Loaded(c) == snap.track = c.uri /\ snap.status # "stopped"

ActiveClaim(c) == IF c # None /\ (c.late \/ Loaded(c)) THEN None ELSE c

PlayerState(c) ==
  IF c # None
  THEN [track |-> c.uri, status |-> IF c.paused THEN "paused" ELSE "playing",
        sleep |-> sleep'.state, buffering |-> TRUE]
  ELSE [track |-> IF snap.track \in Uris THEN snap.track ELSE None, status |-> snap.status,
        sleep |-> sleep'.state, buffering |-> FALSE]

(* flushState, with c the claim: sent, refused for the rate and sent again *)
(* after the cooldown, or failed in another way, which is only logged.     *)
Flush(c, timer) ==
  IF ~spotConnID'
  THEN claim' = c /\ putTimer' = timer /\ UNCHANGED <<early, shown, lost, limited>>
  ELSE /\ claim' = ActiveClaim(c) /\ early' = TRUE
       /\ \/ /\ shown' = PlayerState(claim') /\ lost' = FALSE
             /\ putTimer' = timer /\ UNCHANGED limited
          \/ /\ limited < MaxLimited /\ limited' = limited + 1
             /\ putTimer' = TRUE /\ UNCHANGED <<shown, lost>>
          \/ lost' = TRUE /\ putTimer' = timer /\ UNCHANGED <<shown, limited>>

-----------------------------------------------------------------------------
(* The receiver: commands and messages of Spotify                          *)

Message == at = "select" /\ Spends

(* Spotify commands a device that is registered, by its first PUT.         *)
Command == Message /\ spotConnID

(* program.Send waits until the loop takes the message.                    *)
Send(m) == inbox = <<>> /\ inbox' = <<m>>
Ask(kind) == [kind |-> kind, track |-> None, paused |-> FALSE]

Keeps == UNCHANGED <<tui, snap>>
KeepsPut == UNCHANGED <<claim, putVars>>

Refuse == active' = TRUE /\ KeepsPut /\ UNCHANGED <<at, job, taking>>

(* The takeover is told at once, before the TUI has loaded anything.       *)
ClaimPlayback(t, paused) ==
  /\ active' = TRUE
  /\ UNCHANGED <<spotConnID, sleep>>
  /\ Flush([uri |-> t, paused |-> paused, late |-> FALSE], putTimer)

Load(t, paused) ==
  /\ ClaimPlayback(t, paused)
  /\ at' = "load" /\ job' = [track |-> t, paused |-> paused]
  /\ taking' = (limited' = limited /\ ~lost' /\ claim' # None)

TakesOver == UNCHANGED <<spotConnID, sleep, dirty, inbox, wish>> /\ Keeps

(* A context that does not resolve is refused, and the device is active    *)
(* all the same.  The place of a transferred track may not be found.       *)
CmdTransfer(t, paused) ==
  /\ Command /\ TakesOver
  /\ \/ Refuse
     \/ Load(t, paused)
     \/ ClaimPlayback(t, paused) /\ taking' = FALSE /\ UNCHANGED <<at, job>>

CmdPlay(t, paused) ==
  /\ Command /\ TakesOver
  /\ Refuse \/ Load(t, paused)

(* A play command that names no context.                                   *)
PlayOn ==
  /\ Command /\ Send(Ask("resume")) /\ wish' = "play"
  /\ UNCHANGED <<at, job, spotConnID, active, sleep, dirty, taking>> /\ Keeps /\ KeepsPut

(* The pages of the context and the metadata, then the TUI.                *)
LoadTrackList ==
  /\ at = "load" /\ at' = "select" /\ job' = None
  /\ Send([kind |-> "tracks", track |-> job.track, paused |-> job.paused])
  /\ wish' = IF job.paused THEN "pause" ELSE "play"
  /\ dirty' = TRUE
  /\ UNCHANGED <<spotConnID, active, sleep, taking, commands>> /\ Keeps /\ KeepsPut

Pick ==
  /\ Command /\ active' = TRUE /\ dirty' = TRUE
  /\ UNCHANGED <<inbox, at, job, spotConnID, sleep, wish, taking>> /\ Keeps /\ KeepsPut

Forward(kind) ==
  /\ Command /\ Send(Ask(kind)) /\ dirty' = TRUE
  /\ wish' = CASE kind = "pause" -> "pause" [] kind = "resume" -> "play"
               [] kind = "next" -> "free" [] OTHER -> wish
  /\ taking' = (taking /\ kind # "next")
  /\ UNCHANGED <<at, job, spotConnID, active, sleep>> /\ Keeps /\ KeepsPut

CmdSleepTimer(type) ==
  /\ Command /\ dirty' = TRUE
  /\ sleep' = CASE type = "duration" ->
                     [sleep EXCEPT !.timer = TRUE, !.end = FALSE, !.state = "timestamp"]
                [] type = "end_of_track" ->
                     [sleep EXCEPT !.end = TRUE, !.track = snap.track, !.state = "end of track"]
                [] OTHER -> [sleep EXCEPT !.end = FALSE, !.state = "none"]
  /\ UNCHANGED <<inbox, at, job, spotConnID, active, wish, taking>> /\ Keeps /\ KeepsPut

(* A cluster push says that another device has the playback; the PUT that  *)
(* answers tells nothing of track and status.                              *)
Yield ==
  /\ Command /\ active
  /\ active' = FALSE /\ claim' = None /\ Send(Ask("pause"))
  /\ wish' = "pause" /\ taking' = FALSE
  /\ UNCHANGED <<at, job, spotConnID, sleep, dirty, putVars>> /\ Keeps

(* A dealer that reconnects gets another id.                               *)
ConnectionId ==
  /\ at = "select" /\ spotConnID' = TRUE
  /\ UNCHANGED <<active, sleep>> /\ Flush(claim, putTimer)
  /\ UNCHANGED <<inbox, at, job, dirty, wish, taking, commands>> /\ Keeps

Logout ==
  /\ Command /\ at' = "off" /\ taking' = FALSE
  /\ UNCHANGED <<inbox, job, spotConnID, active, sleep, dirty, wish>> /\ Keeps /\ KeepsPut

(* bind, after another login has taken the place of this one: what belongs *)
(* to a connection is reset, the timers are not.                           *)
Bind ==
  /\ Message
  /\ spotConnID' = FALSE /\ active' = FALSE /\ claim' = None /\ taking' = FALSE
  /\ sleep' = [Awake EXCEPT !.timer = sleep.timer]
  /\ UNCHANGED <<inbox, at, job, dirty, putVars, wish>> /\ Keeps

-----------------------------------------------------------------------------
(* The receiver: updates and timers                                        *)

Serve == at = "select" /\ UNCHANGED <<at, job, spotConnID, active, taking, commands>> /\ Keeps

(* The edge that an end-of-track timer waits for.                          *)
TrackEnded == sleep.end /\ sleep.track # None /\ snap.track # sleep.track

BadWait == UNCHANGED <<putVars, claim>>
Wait == putTimer' = TRUE /\ UNCHANGED <<early, shown, lost, limited, claim>>

SchedulePut ==
  /\ Serve /\ dirty /\ dirty' = FALSE
  /\ IF spotConnID /\ TrackEnded
     THEN /\ Send(Ask("pause")) /\ wish' = "pause"
          /\ sleep' = [sleep EXCEPT !.end = FALSE, !.state = "none"]
     ELSE UNCHANGED <<inbox, wish, sleep>>
  /\ IF spotConnID /\ early THEN Wait ELSE Flush(claim, putTimer)

PutTimer ==
  /\ Serve /\ putTimer
  /\ UNCHANGED <<inbox, wish, sleep, dirty>> /\ Flush(claim, FALSE)

SleepTimer ==
  /\ Serve /\ sleep.timer /\ Send(Ask("pause"))
  /\ sleep' = [sleep EXCEPT !.timer = FALSE, !.state = "none"]
  /\ dirty' = TRUE /\ wish' = "pause"
  /\ KeepsPut

TimePasses ==
  /\ early /\ early' = FALSE
  /\ UNCHANGED <<tui, snap, inbox, at, job, spotConnID, active, claim, sleep, dirty, putTimer,
                 shown, lost, limited, wish, taking, commands>>

(* connectClaimTimeout: nothing happens then but what the next PUT sees.   *)
ClaimExpires ==
  /\ claim # None /\ ~claim.late
  /\ claim' = [claim EXCEPT !.late = TRUE] /\ taking' = FALSE
  /\ UNCHANGED <<tui, snap, inbox, at, job, spotConnID, active, sleep, dirty, putVars, wish,
                 commands>>

-----------------------------------------------------------------------------
(* The TUI                                                                 *)

NotifyUpdate(st) == snap' = st /\ dirty' = (dirty \/ st # snap)

(* notifyPlaybackChange after each message.                                *)
Update(m) ==
  /\ tui' = m /\ NotifyUpdate(State(m))
  /\ UNCHANGED <<at, job, spotConnID, active, claim, sleep, putVars>>

(* playTrack: the engine plays on until the new track is open.             *)
Start(m, t) == [m EXCEPT !.track = t, !.load = "opening", !.hold = FALSE]
StopPlayback(m) == [m EXCEPT !.playing = FALSE, !.paused = FALSE, !.load = "no"]
Pause(m) == [m EXCEPT !.paused = m.playing]

TogglePlayPause(m) ==
  IF m.load # "no" THEN m
  ELSE IF ~m.playing THEN Start(m, m.track)
  ELSE [m EXCEPT !.paused = ~@]

BadPlayRemoteTracks(m, t, paused) == Start(m, t)
PlayRemoteTracks(m, t, paused) == [Start(m, t) EXCEPT !.hold = paused]

(* nextTrack: another track, whichever is next, or the end of the queue.   *)
NextTracks(m) == {StopPlayback(m)} \cup {Start(m, t) : t \in Tracks}

Handle ==
  /\ inbox # <<>> /\ inbox' = <<>>
  /\ LET msg == inbox[1] IN
     CASE msg.kind = "tracks" -> Update(PlayRemoteTracks(tui, msg.track, msg.paused))
       [] msg.kind = "pause" -> Update(Pause(tui))
       [] msg.kind = "resume" ->
            Update(IF tui.playing /\ ~tui.paused THEN tui ELSE TogglePlayPause(tui))
       [] msg.kind = "next" -> \E m \in NextTracks(tui) : Update(m)
       [] OTHER -> Update(tui)
  /\ wish' = IF inbox[1].kind = "pause" /\ tui.load = "opening" /\ wish = "pause"
              THEN "lost" ELSE wish
  /\ UNCHANGED <<taking, commands>>

UserActs ==
  /\ Spends
  /\ \E m \in NextTracks(tui) \cup {TogglePlayPause(tui)} : Update(m)
  /\ wish' = "free" /\ taking' = FALSE /\ UNCHANGED inbox

(* The command that opens a track commits it to the engine, or fails.      *)
Opens ==
  /\ tui.load = "opening"
  /\ tui' \in {[tui EXCEPT !.load = "failed"],
               [tui EXCEPT !.load = "open", !.playing = TRUE, !.paused = FALSE]}
  /\ UNCHANGED <<snap, inbox, at, job, spotConnID, active, claim, sleep, dirty, putVars, wish,
                 taking, commands>>

(* handleStreamPlayed; a track that Spotify refuses is skipped, so many    *)
(* times in the code and within MaxCommands here.                          *)
StreamPlayed ==
  /\ \/ /\ tui.load = "open"
        /\ Update([IF tui.hold THEN Pause(tui) ELSE tui EXCEPT !.load = "no", !.hold = FALSE])
        /\ UNCHANGED <<wish, commands>>
     \/ /\ tui.load = "failed"
        /\ \/ Update([tui EXCEPT !.load = "no"]) /\ UNCHANGED commands
           \/ Spends /\ \E m \in NextTracks(tui) : Update(m)
        /\ wish' = "free"
  /\ taking' = FALSE /\ UNCHANGED inbox

(* A tick finds the engine at the end of its track, or on the next one.    *)
TrackEnds ==
  /\ Spends
  /\ tui.load = "no" /\ tui.playing /\ ~tui.paused
  /\ \E m \in NextTracks(tui) \cup {[tui EXCEPT !.track = t] : t \in Tracks} : Update(m)
  /\ taking' = (taking /\ claim # None /\ tui'.track # claim.uri)
  /\ UNCHANGED <<inbox, wish>>

Tick ==
  /\ snap # State(tui) /\ Update(tui)
  /\ UNCHANGED <<inbox, wish, taking, commands>>

-----------------------------------------------------------------------------

Cloud ==
  \/ \E t \in Uris, paused \in BOOLEAN : CmdTransfer(t, paused) \/ CmdPlay(t, paused)
  \/ \E kind \in {"pause", "resume", "next", "volume"} : Forward(kind)
  \/ \E type \in {"duration", "end_of_track", "off"} : CmdSleepTimer(type)
  \/ PlayOn \/ Pick \/ Yield \/ Logout \/ Bind

Receiver == LoadTrackList \/ ConnectionId \/ SchedulePut \/ PutTimer \/ SleepTimer

TUI == Handle \/ Opens \/ StreamPlayed \/ Tick

Next == Cloud \/ Receiver \/ TimePasses \/ ClaimExpires \/ UserActs \/ TrackEnds \/ TUI

Spec == Init /\ [][Next]_vars

-----------------------------------------------------------------------------
(* Properties *)

(* "a state that still reads 'stopped' while cliamp loads the track leaves *)
(* the sending app playing alongside cliamp": once Spotify was told of a   *)
(* takeover, no update of the TUI before or during the load of the track   *)
(* makes the receiver say so, until the load ends or its time is over, or  *)
(* somebody plays something else, or the list before comes upon the track. *)
NeverReadsStopped == taking => shown.status # "stopped"

(* What asks for a pause, a command, a yield, a sleep timer or a transfer  *)
(* of a paused track, has one, unless a track was opening when the TUI     *)
(* handled it, or the track that was transferred fails.                    *)
PausesHold ==
  wish = "pause" /\ inbox = <<>> /\ tui.load = "no" => tui.paused \/ ~tui.playing

TakeoversHold == NeverReadsStopped /\ PausesHold

(* A claim that the TUI never fulfilled.                                   *)
Unfulfilled == shown.buffering /\ (snap.track # shown.track \/ snap.status = "stopped")

Told ==
  /\ shown.track = IF snap.track \in Uris THEN snap.track ELSE None
  /\ shown.status = snap.status
  /\ shown.sleep = sleep.state

(* Nothing of what the TUI or the receiver did last is on its way.         *)
Settled ==
  /\ at = "select" /\ spotConnID /\ ~dirty /\ ~putTimer
  /\ inbox = <<>> /\ tui.load = "no" /\ snap = State(tui)

(* "so the app's UI stays in sync": however updates coalesce and whatever  *)
(* PUT is refused for its rate, once all is settled Spotify has the last   *)
(* state, and an end-of-track timer has gone off behind its track.  Two    *)
(* cases are left out: the last PUT failed for another reason, which is    *)
(* never made up for until there is news (lost), and Spotify was told of a *)
(* takeover whose track the TUI does not play (Unfulfilled, see ClaimsEnd).*)
ControllerFollows == Settled => (Told \/ lost \/ Unfulfilled) /\ ~TrackEnded

(* "cliamp pauses and the remote device takes over"                        *)
YieldsHold ==
  wish \in {"pause", "lost"} /\ inbox = <<>> /\ tui.load = "no" => tui.paused \/ ~tui.playing

(* The claim stands in for the TUI "until the TUI plays the claimed track" *)
(* and at most connectClaimTimeout.                                        *)
ClaimsEnd == Settled /\ ~lost /\ (claim = None \/ claim.late) => ~Unfulfilled
=============================================================================
