------------------------------ MODULE Playback ------------------------------
(***************************************************************************)
(* The playback part of the TUI model (ui/model): which track the list is  *)
(* on, which one is announced as playing, and the calls to the engine that *)
(* should keep the two the same.  Update handles one message at a time,    *)
(* so a message is one step; what it starts in the background (opening a   *)
(* stream, preloading the next one, reporting to a provider) takes steps   *)
(* of its own, and the engine moves on between any two messages.           *)
(*                                                                         *)
(* The engine is what Player.tla promises of it: a start or a preload      *)
(* that was overtaken is refused, an end with a preload armed switches to  *)
(* it and leaves a flag for the next tick.  The list is Playlist.tla's     *)
(* without shuffle, repeat and queue: the rows play in order.              *)
(*                                                                         *)
(* A handler calls helpers that each change a part of the Model and of the *)
(* engine, so the helpers are functions from a state to a state, and s, a  *)
(* record with the fields of both, is the only variable.                   *)
(*   Model: rows, idx (the row the list is on), detached, track, active,   *)
(*     started, left (playingTrack...), buffering, preloading, preloadFor, *)
(*     preloadFailed, due, attempts, liveDrain, refusedSkips (reconnect),  *)
(*     quitting; starts and preloads, the commands under way: current and  *)
(*     valid say that the request or the engine generation they carry has  *)
(*     not moved on.                                                       *)
(*   Engine: cur, next, playing, paused, drained, failed (StreamErr),      *)
(*     advanced (gaplessAdvance).                                          *)
(*   reportQueue: pending, running, and busy, the report that runs.        *)
(*   History and bounds: missed, told, exit, calls, breaks.                *)
(***************************************************************************)
EXTENDS Integers, SequencesExt

CONSTANTS
  Tracks,
  Kind,          \* what each track is, see Kinds
  InitRows,      \* the rows at the start
  Lists,         \* the lists a provider can replace them with
  Reported,      \* tracks of a provider that takes reports (PlaybackReporter)
  Positions,     \* those of one that also takes positions (ProgressReporter)
  None,
  MaxCalls,      \* bound: commands of the user
  MaxBreaks,     \* bound: streams that break and live streams that end
  MaxWaiting,    \* bound: reports that wait when a command or a tick comes
  LiveRestarts,  \* ytdlLiveDrainRestarts, 3 in the code
  RefusedSkips   \* streamRefusedSkips, 5 in the code

\* file: a local file; direct: a path that starts in Update (ssh://); stream: a
\* finite HTTP stream or provider URI; station: live HTTP; video, broadcast:
\* yt-dlp, finite and live.
Kinds == {"file", "direct", "stream", "station", "video", "broadcast"}

VARIABLE s

Ytdl(t) == Kind[t] \in {"video", "broadcast"}
Remote(t) == Kind[t] \notin {"file", "direct"}
Endless(t) == Kind[t] \in {"station", "broadcast"}

\* What the code cannot know in advance: whether half of the track was played,
\* the end of the track is near, PlayAt succeeds, the reconnect delay is over,
\* a progress report is due (to a provider that takes them).
Chances == [half : BOOLEAN, near : BOOLEAN, opens : BOOLEAN, over : BOOLEAN,
            report : {FALSE, Positions # {}}]
Usual == [half |-> FALSE, near |-> TRUE, opens |-> TRUE, over |-> TRUE, report |-> FALSE]

-----------------------------------------------------------------------------
\* Reads.

RowAt(m, i) == IF i \in 1..Len(m.rows) THEN m.rows[i] ELSE None
\* The row advanceToNext moves to.
Upcoming(m) == IF m.detached THEN m.idx ELSE m.idx + 1
UpcomingTrack(m) == RowAt(m, Upcoming(m))

CurrentPlaybackTrack(m) ==
  IF m.active /\ (m.buffering \/ m.playing) THEN m.track ELSE RowAt(m, m.idx)

\* The engine knows the duration of what it plays, but of a piped ssh:// stream.
HasDuration(m) == m.cur # None /\ ~Endless(m.cur) /\ Kind[m.cur] # "direct"

PlaysLive(m, t) ==
  \/ Kind[t] = "station"
  \/ Kind[t] = "broadcast" /\ ~HasDuration(m)
  \/ m.cur # None /\ Kind[m.cur] = "station"

PreloadTarget(m) ==
  LET t == CurrentPlaybackTrack(m)
      next == UpcomingTrack(m)
  IN  IF \/ t # None /\ PlaysLive(m, t)
         \/ next # None /\ Ytdl(next) /\ next = t
      THEN None ELSE next

-----------------------------------------------------------------------------
\* The report queue: a progress report replaces the one of its track that waits.
\* There is at most one, as all of them come through here.

\* Mutant: any report of the track goes.
BadWaiting(m, t) == {i \in DOMAIN m.pending : m.pending[i].track = t}

Waiting(m, t) ==
  {i \in DOMAIN m.pending : m.pending[i].kind = "progress" /\ m.pending[i].track = t}

Add(m, r) ==
  LET old == Waiting(m, r.track)
      rest == IF r.kind # "progress" \/ old = {} THEN m.pending
              ELSE RemoveAt(m.pending, CHOOSE i \in old : TRUE)
  IN  [m EXCEPT !.pending = Append(rest, r), !.running = TRUE]

Report(kind, t, of) == [kind |-> kind, track |-> t, of |-> of]

\* Mutant: a play is reported each time it is left.
BadLeaveTrack(m, half) ==
  IF m.active /\ m.started /\ half /\ m.track \in Reported /\ ~Endless(m.track)
  THEN Add(m, Report("scrobble", m.track, m.track)) ELSE m

LeaveTrack(m, half) ==
  IF ~m.active \/ ~m.started \/ m.left THEN m
  ELSE LET gone == [m EXCEPT !.left = TRUE]
       IN  IF half /\ ~Endless(m.track) /\ m.track \in Reported
           THEN Add(gone, Report("scrobble", m.track, m.track)) ELSE gone

NowPlaying(m, t) ==
  LET n == [m EXCEPT !.started = TRUE]
  IN  IF t \in Reported THEN Add(n, Report("now", t, t)) ELSE n

\* The position of a progress report is the engine's.
TickProgressReport(m, due) ==
  LET t == CurrentPlaybackTrack(m)
  IN  IF due /\ m.playing /\ ~m.paused /\ t \in Positions
      THEN Add(m, Report("progress", t, m.cur)) ELSE m

-----------------------------------------------------------------------------
\* Calls to the engine.

Invalid(cmds) == {[c EXCEPT !.valid = FALSE] : c \in cmds}
Outdated(cmds) == {[c EXCEPT !.current = FALSE] : c \in cmds}

ClearPreload(m) == [m EXCEPT !.next = None, !.preloads = Invalid(@)]

EngineStop(m) ==
  [ClearPreload(m) EXCEPT !.cur = None, !.playing = FALSE, !.paused = FALSE, !.drained = FALSE,
                          !.failed = FALSE, !.advanced = FALSE, !.missed = FALSE]

EngineStarts(m, t) ==
  [m EXCEPT !.cur = t, !.next = None, !.playing = TRUE, !.paused = FALSE, !.drained = FALSE,
            !.failed = FALSE, !.advanced = FALSE, !.missed = FALSE]

-----------------------------------------------------------------------------
\* The helpers of the handlers.

SetPlaybackTrack(m, t) ==
  [m EXCEPT !.track = t, !.active = TRUE, !.started = FALSE, !.left = FALSE, !.detached = FALSE]

DetachPlaybackTrack(m) ==
  LET t == CurrentPlaybackTrack(m)
  IN  IF t = None THEN m ELSE [m EXCEPT !.track = t, !.active = TRUE, !.detached = TRUE]

ClearPlaybackTrack(m) ==
  [m EXCEPT !.track = None, !.active = FALSE, !.started = FALSE, !.left = FALSE, !.detached = FALSE]

StopPlayback(m, half) ==
  ClearPlaybackTrack(
    [EngineStop(LeaveTrack(m, half)) EXCEPT
       !.starts = Outdated(@), !.buffering = FALSE,
       !.due = FALSE, !.attempts = 0, !.liveDrain = FALSE, !.refusedSkips = 0])

BeginPlaybackTrack(m, t) ==
  SetPlaybackTrack(
    [ClearPreload(m) EXCEPT
       !.starts = Outdated(@), !.preloads = Outdated(@), !.preloading = FALSE,
       !.preloadFailed = None, !.attempts = 0, !.due = FALSE, !.liveDrain = FALSE], t)

\* A stream is preloaded near the end of a track whose length is known; a
\* yt-dlp page also when it is not.
MayArm(m, t, near) ==
  CASE Ytdl(t) -> HasDuration(m) => near
    [] Kind[t] \in {"stream", "station"} -> HasDuration(m) /\ near
    [] OTHER -> TRUE

PreloadNext(m, near) ==
  LET t == PreloadTarget(m)
  IN  IF \/ t = None \/ t = m.preloadFailed \/ (m.preloading /\ m.preloadFor = t)
         \/ ~MayArm(m, t, near)
      THEN m
      ELSE [m EXCEPT !.preloading = TRUE, !.preloadFor = t,
                     !.preloads = Outdated(Invalid(@)) \cup
                       {[track |-> t, current |-> TRUE, valid |-> TRUE, at |-> "opening"]}]

\* Mutant: an edit keeps the preload.
BadDropStalePreload(m) == m

DropStalePreload(m) ==
  IF \/ ~m.preloading /\ m.next = None
     \/ PreloadTarget(m) # None /\ PreloadTarget(m) = m.preloadFor
  THEN m ELSE [ClearPreload(m) EXCEPT !.preloading = FALSE]

RearmStalePreload(m, near) ==
  LET d == DropStalePreload(m)
  IN  IF ~d.playing \/ d.buffering \/ d.preloading \/ d.next # None THEN d ELSE PreloadNext(d, near)

PlayTrack(m, t, c) ==
  LET b == BeginPlaybackTrack(LeaveTrack(m, c.half), t)
  IN  IF Kind[t] # "direct"
      THEN [b EXCEPT !.buffering = TRUE,
                     !.starts = @ \cup {[track |-> t, current |-> TRUE, at |-> "opening"]}]
      ELSE PreloadNext(IF c.opens THEN NowPlaying(EngineStarts(b, t), t) ELSE b, c.near)

\* advanceToNext: the row and, when nothing follows, the end of the queue.
Advanced(m) == [m EXCEPT !.idx = Upcoming(m), !.detached = FALSE]
EndQueue(m, half) == StopPlayback([m EXCEPT !.detached = FALSE], half)

NextTrack(m, c) ==
  IF UpcomingTrack(m) = None THEN EndQueue(m, c.half)
  ELSE PlayTrack(Advanced(m), UpcomingTrack(m), c)

PlayCurrentTrack(m, c) ==
  LET t == RowAt(m, m.idx)
  IN  IF m.rows = <<>> THEN m
      ELSE IF t = None THEN StopPlayback(m, c.half) ELSE PlayTrack(m, t, c)

\* Update, after each message.  missed: a switch the tick has not heard of, and
\* the list is no longer on the row before it.
Handled(m) ==
  LET d == DropStalePreload(m)
  IN  [d EXCEPT !.missed = @ \/ (d.advanced /\ UpcomingTrack(d) # d.cur)]

-----------------------------------------------------------------------------
\* The messages of the user.

\* What the user asks for next, the handler h of the state and the chance c.
Command(h(_, _)) ==
  /\ ~s.quitting
  /\ s.calls < MaxCalls /\ Len(s.pending) < MaxWaiting
  /\ \E half, near, opens \in BOOLEAN :
       LET c == [Usual EXCEPT !.half = half, !.near = near, !.opens = opens]
       IN  s' = Handled(h([s EXCEPT !.calls = @ + 1], c))

\* Enter on a row, and IPC's play.
PlayIndex(i) ==
  /\ Command(LAMBDA m, c : PlayCurrentTrack([m EXCEPT !.idx = i], c))

SkipNext == Command(NextTrack)

StopByUser == Command(LAMBDA m, c : StopPlayback(m, c.half))

\* Resuming a live stream restarts it: what the buffers hold is old.
TogglePlayPause ==
  /\ ~s.buffering
  /\ Command(LAMBDA m, c :
       LET t == CurrentPlaybackTrack(m)
       IN  IF ~m.playing THEN PlayCurrentTrack(m, c)
           ELSE IF m.paused /\ t # None /\ PlaysLive(m, t)
                THEN PlayTrack(EngineStop(m), t, c)
                ELSE [m EXCEPT !.paused = ~@])

RemoveSelected(i) ==
  /\ Command(LAMBDA m, c :
       LET rest == RemoveAt(m.rows, i)
           pos == IF i < m.idx THEN m.idx - 1 ELSE m.idx
           gone == [m EXCEPT !.rows = rest,
                             !.idx = IF pos > Len(rest) /\ rest # <<>> THEN Len(rest) ELSE pos]
       IN  IF i = m.idx THEN ClearPreload(StopPlayback(gone, c.half)) ELSE gone)

AppendTrack(t) ==
  /\ t \notin ToSet(s.rows)
  /\ Command(LAMBDA m, c :
       LET added == [m EXCEPT !.rows = Append(@, t)]
       IN  IF m.rows = <<>> \/ ~m.playing
           THEN PlayCurrentTrack([added EXCEPT !.idx = Len(added.rows)], c)
           ELSE added)

\* A row moves up or down; the list stays on its track.
MoveTrack(i, j) ==
  Command(LAMBDA m, c :
    RearmStalePreload(
      [m EXCEPT !.rows = [@ EXCEPT ![i] = m.rows[j], ![j] = m.rows[i]],
                !.idx = IF @ = i THEN j ELSE IF @ = j THEN i ELSE @], c.near))

\* A provider's list replaces the rows; what plays goes on, detached.
ReplacePlayerPlaylist(rows) ==
  /\ rows # s.rows
  /\ Command(LAMBDA m, c :
       LET kept == IF m.playing \/ m.buffering
                   THEN [ClearPreload(DetachPlaybackTrack(m)) EXCEPT !.preloading = FALSE]
                   ELSE ClearPlaybackTrack(EngineStop(m))
       IN  [kept EXCEPT !.rows = rows, !.idx = 1])

\* shutdown.  It is the last message; Close stops the engine.
Quit ==
  /\ ~s.quitting
  /\ \E half \in BOOLEAN :
       s' = [ClearPlaybackTrack(EngineStop(LeaveTrack(s, half))) EXCEPT !.quitting = TRUE]

-----------------------------------------------------------------------------
\* The tick.

ScheduleReconnect(m) ==
  IF m.due \/ m.attempts >= 5 THEN m ELSE [m EXCEPT !.due = TRUE, !.attempts = @ + 1]

TickStreamHealth(m) ==
  LET t == CurrentPlaybackTrack(m)
  IN  IF ~m.failed THEN m
      ELSE IF t # None /\ Remote(t) /\ m.attempts < 5 THEN ScheduleReconnect(m)
      ELSE [m EXCEPT !.due = FALSE]

\* The marker of a drained broadcast survives the reset in playTrack.
Restart(m, t, c) ==
  LET p == PlayTrack(EngineStop([m EXCEPT !.due = FALSE]), t, c)
  IN  IF m.liveDrain THEN [p EXCEPT !.liveDrain = TRUE, !.attempts = m.attempts] ELSE p

\* The finished track was played to its end, so it scrobbles.
TickGapless(m, c) ==
  LET l == LeaveTrack([m EXCEPT !.advanced = FALSE], TRUE)
      t == UpcomingTrack(l)
      b == [BeginPlaybackTrack(Advanced(l), t) EXCEPT !.preloading = FALSE]
  IN  IF t = None THEN EndQueue(l, FALSE) ELSE PreloadNext(NowPlaying(b, t), c.near)

\* Mutant: a live stream that ended waits for an error that never comes.
BadTickDrain(m, c) ==
  LET t == CurrentPlaybackTrack(m)
  IN  IF ~m.playing \/ m.paused \/ ~m.drained \/ m.buffering \/ m.due \/ PlaysLive(m, t) THEN m
      ELSE NextTrack(EngineStop(LeaveTrack(m, TRUE)), c)

TickDrain(m, c) ==
  LET t == CurrentPlaybackTrack(m)
  IN  IF ~m.playing \/ m.paused \/ ~m.drained \/ m.buffering \/ m.due THEN m
      ELSE IF t # None /\ PlaysLive(m, t)
           THEN [ScheduleReconnect(m) EXCEPT !.liveDrain = Ytdl(t)]
           ELSE NextTrack(EngineStop(LeaveTrack(m, TRUE)), c)

TickPreloadRetry(m, near) ==
  IF ~m.playing \/ m.paused \/ m.buffering \/ m.preloading \/ m.next # None THEN m
  ELSE PreloadNext(m, near)

HandleTick(m, c) ==
  LET h == TickStreamHealth(TickProgressReport(m, c.report))
      t == CurrentPlaybackTrack(h)
      \* a reconnect that is due with nothing to play only stops the engine
      r == IF h.due /\ c.over THEN EngineStop([h EXCEPT !.due = FALSE]) ELSE h
  IN  IF h.due /\ c.over /\ t # None THEN Restart(h, t, c)
      ELSE IF r.advanced
           THEN LET g == TickGapless(r, c) IN IF g.active THEN TickPreloadRetry(g, c.near) ELSE g
           ELSE TickPreloadRetry(TickDrain(r, c), c.near)

Tick ==
  /\ ~s.quitting
  /\ Len(s.pending) < MaxWaiting
  /\ \E c \in Chances : s' = Handled(HandleTick(s, c))

-----------------------------------------------------------------------------
\* The background commands and their answers.

\* The process has not exited.
Running == s.exit = "no"

\* Mutant: a start is committed whatever came after it.
BadOwns(cmd) == TRUE

\* The generation a start carries is still the engine's.
Owns(cmd) == cmd.current

\* PlayAtForGeneration: the stream opens, and starts unless it was overtaken.
Opens(cmd) ==
  /\ Running
  /\ cmd.at = "opening"
  /\ s' = [IF Owns(cmd) THEN EngineStarts(s, cmd.track) ELSE s
             EXCEPT !.starts = (@ \ {cmd}) \cup {[cmd EXCEPT !.at = "played"]}]

FailsToOpen(cmd) ==
  /\ Running
  /\ cmd.at = "opening"
  /\ \E how \in {"failed", "refused"} \cup (IF Ytdl(cmd.track) THEN {"unavailable"} ELSE {}) :
       s' = [s EXCEPT !.starts = (@ \ {cmd}) \cup {[cmd EXCEPT !.at = how]}]

\* A drained broadcast that does not restart is retried, then given up.
LiveDrainFailed(m, c) ==
  LET e == EngineStop(m)
  IN  IF m.attempts < LiveRestarts THEN [ScheduleReconnect(e) EXCEPT !.liveDrain = TRUE]
      ELSE NextTrack([e EXCEPT !.attempts = 0], c)

HandleStreamPlayed(m, cmd, c) ==
  LET d == [m EXCEPT !.buffering = FALSE, !.liveDrain = FALSE]
      follows == RowAt(m, m.idx + 1) # None
      skips == follows /\ m.refusedSkips < RefusedSkips
  IN  IF cmd.at # "played" /\ m.liveDrain THEN LiveDrainFailed(d, c) ELSE
      CASE cmd.at = "refused" /\ skips -> NextTrack([d EXCEPT !.refusedSkips = @ + 1], c)
        [] cmd.at = "refused" /\ ~skips -> PreloadNext([d EXCEPT !.refusedSkips = 0], c.near)
        [] cmd.at = "unavailable" /\ ~PlaysLive(d, cmd.track) /\ follows -> NextTrack(d, c)
        [] cmd.at = "played" -> PreloadNext(NowPlaying([d EXCEPT !.attempts = 0, !.due = FALSE, !.refusedSkips = 0],
                                    cmd.track), c.near)
        [] OTHER -> PreloadNext(d, c.near)

\* The answer to a start that was overtaken says nothing.
Heeded(m, cmd) == cmd.current /\ cmd.track = CurrentPlaybackTrack(m)

StreamPlayed(cmd) ==
  /\ ~s.quitting
  /\ cmd.at # "opening"
  /\ LET m == [s EXCEPT !.starts = @ \ {cmd}]
     IN  IF ~Heeded(m, cmd) THEN s' = Handled(m)
         ELSE \E half, near, opens \in BOOLEAN :
                s' = Handled(HandleStreamPlayed(m, cmd,
                       [Usual EXCEPT !.half = half, !.near = near, !.opens = opens]))

PreloadEnds(cmd) ==
  /\ Running
  /\ cmd.at = "opening"
  /\ \/ s' = [s EXCEPT !.preloads = (@ \ {cmd}) \cup {[cmd EXCEPT !.at = "armed"]},
                       !.next = IF cmd.valid THEN cmd.track ELSE @]
     \/ s' = [s EXCEPT !.preloads = (@ \ {cmd}) \cup {[cmd EXCEPT !.at = "failed"]}]

StreamPreloaded(cmd) ==
  /\ ~s.quitting
  /\ cmd.at # "opening"
  /\ LET m == [s EXCEPT !.preloads = @ \ {cmd}]
     IN  s' = Handled(IF ~cmd.current THEN m
                      ELSE [m EXCEPT !.preloading = FALSE,
                                     !.preloadFailed = IF cmd.at = "failed" THEN cmd.track ELSE @])

-----------------------------------------------------------------------------
\* The audio goroutine.

Sounding == Running /\ s.playing /\ ~s.paused /\ ~s.drained

\* The end of what plays: the armed track follows at once, or silence.
TrackEnds ==
  /\ Sounding
  /\ Endless(s.cur) => s.breaks < MaxBreaks
  /\ LET m == IF Endless(s.cur) THEN [s EXCEPT !.breaks = @ + 1] ELSE s
     IN  s' = IF m.next = None THEN [m EXCEPT !.drained = TRUE]
              ELSE [m EXCEPT !.cur = m.next, !.next = None, !.failed = FALSE, !.advanced = TRUE]

StreamBreaks ==
  /\ Sounding
  /\ s.breaks < MaxBreaks
  /\ ~s.failed
  /\ Remote(s.cur)
  /\ s' = [s EXCEPT !.failed = TRUE, !.breaks = @ + 1]

-----------------------------------------------------------------------------
\* The goroutine of the report queue, and WaitReports after the program ended.

Drain ==
  /\ Running
  /\ s.running
  /\ s.busy = None
  /\ IF s.pending = <<>> THEN s' = [s EXCEPT !.running = FALSE]
     ELSE s' = [s EXCEPT !.busy = Head(s.pending), !.pending = Tail(@)]

ReportDone ==
  /\ Running
  /\ s.busy # None
  /\ s' = [s EXCEPT !.busy = None, !.told = IF s.busy.kind = "progress" THEN @ ELSE s.busy]

\* Mutant: the report that runs is not waited for.
BadIdle == s.pending = <<>>

\* wait sees the queue idle.
Idle == ~s.running

WaitReports ==
  /\ s.quitting
  /\ Running
  /\ \/ Idle /\ s' = [s EXCEPT !.exit = "reported"]
     \/ s' = [s EXCEPT !.exit = "timeout"]

-----------------------------------------------------------------------------
Init ==
  s = [rows |-> InitRows, idx |-> 1, detached |-> FALSE,
       track |-> None, active |-> FALSE, started |-> FALSE, left |-> FALSE,
       buffering |-> FALSE, starts |-> {},
       preloading |-> FALSE, preloadFor |-> None, preloadFailed |-> None, preloads |-> {},
       due |-> FALSE, attempts |-> 0, liveDrain |-> FALSE, refusedSkips |-> 0,
       cur |-> None, next |-> None, playing |-> FALSE, paused |-> FALSE, drained |-> FALSE,
       failed |-> FALSE, advanced |-> FALSE,
       pending |-> <<>>, running |-> FALSE, busy |-> None,
       quitting |-> FALSE, exit |-> "no", missed |-> FALSE, told |-> None,
       calls |-> 0, breaks |-> 0]

Next ==
  \/ \E i \in DOMAIN s.rows : PlayIndex(i)
  \/ \E i \in DOMAIN s.rows : RemoveSelected(i)
  \/ \E i, j \in DOMAIN s.rows : i # j /\ MoveTrack(i, j)
  \/ \E t \in Tracks : AppendTrack(t)
  \/ \E rows \in Lists : ReplacePlayerPlaylist(rows)
  \/ SkipNext
  \/ StopByUser
  \/ TogglePlayPause
  \/ Quit
  \/ Tick
  \/ \E cmd \in s.starts : Opens(cmd)
  \/ \E cmd \in s.starts : FailsToOpen(cmd)
  \/ \E cmd \in s.starts : StreamPlayed(cmd)
  \/ \E cmd \in s.preloads : PreloadEnds(cmd)
  \/ \E cmd \in s.preloads : StreamPreloaded(cmd)
  \/ TrackEnds
  \/ StreamBreaks
  \/ Drain
  \/ ReportDone
  \/ WaitReports

Spec == Init /\ [][Next]_s

-----------------------------------------------------------------------------
(***************************************************************************)
(* Properties.                                                             *)
(***************************************************************************)

\* playingTrack, rows, commands and reports are what their fields say.
TypeOK ==
  /\ s.rows \in Seq(Tracks)
  /\ {s.track, s.preloadFor, s.preloadFailed, s.cur, s.next} \subseteq Tracks \cup {None}
  /\ s.idx \in 1..(Len(s.rows) + 1)
  /\ s.attempts \in 0..5 /\ s.refusedSkips \in 0..RefusedSkips
  /\ s.playing <=> s.cur # None
  /\ s.active <=> s.track # None

\* The track the UI announced is the one the engine plays, once the tick has
\* heard of a gapless switch and unless a switch was missed.
AnnouncedIsPlaying ==
  s.started /\ s.playing /\ ~s.buffering /\ ~s.advanced /\ ~s.missed => s.cur = s.track

\* What a gapless switch would play is the track advanceToNext picks, so the
\* list follows the switch: no preload outlives an edit, a replaced list, a
\* jump or a stop.
PreloadIsNext ==
  /\ s.next # None => s.next = UpcomingTrack(s)
  /\ \A cmd \in s.preloads : cmd.valid => cmd.track = UpcomingTrack(s)

\* A provider hears of a play once: a scrobble only after the now-playing
\* report of that track, with no other play or scrobble in between.
ScrobbleEndsAPlay ==
  [][s.busy # None /\ s'.busy = None /\ s.busy.kind = "scrobble"
       => s.told = Report("now", s.busy.track, s.busy.track)]_s

Waits(m, r) == \E i \in DOMAIN m.pending : m.pending[i] = r

\* The last thing the providers heard, hear or will hear, positions aside.
ProgressFrom(m, i) == \A k \in i..Len(m.pending) : m.pending[k].kind = "progress"
LastSaid(m, r) ==
  \/ \E i \in DOMAIN m.pending : m.pending[i] = r /\ ProgressFrom(m, i + 1)
  \/ /\ r = IF m.busy # None /\ m.busy.kind # "progress" THEN m.busy ELSE m.told
     /\ ProgressFrom(m, 1)

\* A play that is announced and not over.
OnAir(m) == ~m.quitting /\ m.active /\ m.started /\ ~m.left

\* It was reported, and nothing has been said since.
PlaysReported == OnAir(s) /\ s.track \in Reported => LastSaid(s, Report("now", s.track, s.track))

\* It has come to its end, by a gapless switch or in silence, and the tick is to
\* find no broken stream and no reconnect first.
PlayedOut ==
  /\ OnAir(s) /\ ~Endless(s.track) /\ ~s.failed /\ ~s.due
  /\ \/ s.advanced
     \/ s.drained /\ s.playing /\ ~s.paused /\ ~s.buffering /\ ~PlaysLive(s, s.track)

\* Then the next tick scrobbles it.
EndsScrobbled ==
  PlayedOut /\ s.track \in Reported =>
    \A c \in Chances : Waits(HandleTick(s, c), Report("scrobble", s.track, s.track))

\* A report that is no position waits until the goroutine takes it, and what the
\* goroutine took it makes.
NothingLost ==
  [][ /\ \A i \in DOMAIN s.pending :
           LET r == s.pending[i] IN r.kind # "progress" => Waits(s', r) \/ s'.busy = r
      /\ s.busy # None /\ s'.busy # s.busy /\ s.busy.kind # "progress" => s'.told = s.busy]_s

\* Before the program exits it has told the providers everything, the scrobble
\* of the track that played at quit included, unless the wait timed out.
ExitAfterReports == s.exit = "reported" => s.pending = <<>> /\ s.busy = None

\* Every play that is announced is reported, the one that plays to its end
\* scrobbled (its length is known: such a provider has it in its metadata), each
\* once and in order, no such report is dropped, and the exit comes after all of
\* them unless it times out.  Not stated: that a play which is left earlier, by
\* a command or the quit, is scrobbled when half of it was played, which is a
\* chance here; and which position a provider hears (ProgressOfWhatPlays).
ReportsArrive ==
  /\ ScrobbleEndsAPlay /\ NothingLost
  /\ [](PlaysReported /\ EndsScrobbled /\ ExitAfterReports)

\* The buffering flag without a start to clear it.
Stuck == s.buffering /\ \A cmd \in s.starts : ~Heeded(s, cmd)

\* The track has ended and nothing hinders the tick that is to see it.
Ended == s.playing /\ s.drained /\ ~s.paused /\ ~s.quitting /\ ~s.advanced /\ ~Stuck

\* A station plays on while the list is on a local track.
StationBehind ==
  LET t == CurrentPlaybackTrack(s) IN t # None /\ ~Remote(t) /\ PlaysLive(s, t)

\* Another track, a reconnect or the end of the queue, at the next tick; or a
\* start or a reconnect is under way.
MovesOn ==
  \/ s.buffering
  \/ s.due
  \/ \A c \in Chances : LET h == HandleTick(s, c) IN ~h.drained \/ h.due

\* The queue does not stall: a track that ended is followed, but for a station
\* that plays behind a local track, see StationsRetry.
EndsMoveOn == Ended /\ ~StationBehind => MovesOn

\* tickDrain: "A clean decoder EOF is a disconnect, so retry this station instead
\* of advancing."  Each tick drops the reconnect that the last one scheduled,
\* as the list is on no stream, until five are used up.
StationsRetry == Ended /\ StationBehind => MovesOn

\* buffering: "Async stream buffering (true while HTTP connect is in progress)".
BufferingIsConnecting == ~Stuck

\* A progress report gives the position of the track it names.
ProgressOfWhatPlays ==
  \A i \in DOMAIN s.pending : s.pending[i].kind = "progress" => s.pending[i].of = s.pending[i].track
=============================================================================
