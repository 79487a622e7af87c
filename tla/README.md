# cliamp in TLA+

cliamp is a terminal music player: a playlist, an audio engine with gapless
playback, a text interface, providers (local files, Spotify, radio, podcasts
and a dozen services more), Lua plugins, and a socket for remote control. The
modules here specify the parts of it whose correctness depends on the order in
which things happen. TLC checks them on small instances and TLAPS proves
theorems about them for all sizes.

## Inventory

### Playlist: `playlist/playlist.go`

State: the track rows, the play order (a permutation of the rows), the position
in it, the play-next queue with a map from rows to queue positions, the row that
plays from the queue, the modes shuffle, Smart Shuffle and repeat, and a
revision counter. Every exported method holds one mutex for its whole body.
Operations: Add, Replace, Remove, Move, Next, Prev, PeekNext, Queue and its
edits, the mode changes, AddSmart and DisableSmart for recommendations,
Snapshot and Restore for undo.

Hard: every edit rewrites four structures that index one another; PeekNext
predicts, long before Next runs and in other code, what Next will do; undo
decides by a number whether the state is still the one its edit left.
Correct: indices name existing rows, the active row survives edits of others,
predictions come true, a shuffle starves nobody, undo drops nothing.

### Audio engine: `player/player.go`, `player/gapless.go`

State: the current and the next pipeline, the streams that the gapless streamer
plays and holds, generations of starts, preloads and seeks, flags of pause,
suspension and transition. Three locks: `lifecycleMu`, the speaker lock, which
the audio goroutine holds while it reads a decoder, and `p.mu`.
Actors: the audio goroutine, the UI goroutine, which calls Stop, TogglePause,
ClearPreload and native seeks, and background commands that build a track and
start it, preload it, or prepare a seek.

Hard: building takes seconds and happens outside the locks, so a result meets a
player that has moved on; a decoder may block while it holds the speaker lock;
a transition happens on the audio goroutine and the UI hears of it a tick later.
Correct: the engine plays what the Player holds; nothing overtaken takes effect;
no pipeline is closed in use or leaked; every call returns.

### Stream buffers: `player/nav_buffer.go`, `player/live_prefetch.go`

The first is a temporary file that one goroutine fills from one or more HTTP
bodies while ffmpeg processes read it, each through a cursor of its own with a
stall timer, and a probe waits for the whole file. The second is a ring that a
goroutine fills ahead of the speaker's callback, which takes what is there or
silence and never waits.

Hard: a stall timer runs out as bytes arrive; Close meets a blocked reader, a
stalled download and a copy of the file; the filler waits for room while the
callback waits for a refill.
Correct: listeners hear the source in order and a clean end only behind its last
byte; nobody uses the file after it is closed; a stall is true; all calls return.

### Playback: `ui/model`

The update loop handles one message at a time: commands, ticks, and the answers
of background commands that open, preload or report. State: the row that the
list is on, the track announced as playing, generations of requests, the
preload's target, the reconnection schedule, and the queue of reports to
providers with its goroutine.

Hard: an answer comes after the user has gone on; the engine switches tracks on
its own and says so at the next tick; edits change what comes next under an
armed preload; the program quits with reports waiting.
Correct: what is announced plays, what is preloaded follows, an ended track
moves the queue on; every play is reported, and scrobbled if it comes to its end,
once, in order and before the exit.

### Event broker: `ipc/pubsub.go`, subscribed connections: `ipc/server.go`

State: retained events, subscriptions with a bounded channel each, a sequence
number, one mutex. Publish sends under the mutex, so it should never wait: a
subscriber that does not read is cut off with an overflow event in a slot kept
free for it. A subscription begins with the retained values of its topics, which
may be as many as its channel has slots; where they are, Publish waits.

Hard: replay and live events of one topic meet; channels are closed by three
parties; a connection needs the mutex to leave.
Correct: a stream has no gap, no repetition and no swap, a loss is announced,
Publish waits for no consumer but one whose full replay is unread.

### Socket: `ipc/server.go`, `main.go`, `ipc_client.go`

cliamp programs share one socket path and a PID file beside it. A start looks
whether somebody answers, removes what a dead program left, listens, and writes
its PID; Close takes all of it away and waits for its connections.

Hard: processes interleave at every system call, may be killed anywhere, and a
removal takes away what a path names at that moment, whoever made it.
Correct: the program that serves is the one the path names; Close returns.

### Jobs: `ipc/jobs.go`, `main.go`, `lua_wiring.go`, `ui/model/ipc_*.go`

A remote operation becomes a job in a bounded store. A queue brings it to the
update loop in order. The loop runs it at once, or starts a command (a load, a
change at a provider, a switch of the audio device) and a waiter that returns
its answer as a message. Plugin calls run in goroutines of their own. Clients
cancel and read jobs; the end of a job goes through a bounded channel to the
broker; the shutdown cancels everything.

Hard: a result, a cancellation and the shutdown race to end a job; the store
evicts when full; effect, snapshot and record are different steps.
Correct: an active job is never dropped, an outcome is final, told truthfully
and announced once, the queue loses nothing, every job ends.

### Lua plugins: `luaplugin/`

Each plugin has one Lua state under a mutex, a worker with a bounded queue of
events, timers and processes with goroutines of their own, commands from
clients, and perhaps a visualizer that the UI draws frames with. Close stops
all of it in a fixed order with a time limit for the last events.

Hard: everything that calls into Lua may already wait for the mutex when it is
canceled or closed.
Correct: events run in order, `app.quit` last; a canceled timer stays silent;
no Lua runs in a closed state; Close returns and leaves nothing behind.

### Small files: `internal/fileutil`, `favorites`, `history`, `external/radio`

Favorites, history, stations and pins are lists in files that several cliamp
processes change: lock, load, change, write a temporary file, sync, rename, sync
the directory. After a toggle a queue makes the provider of the track follow.

Hard: any step fails, a process is killed, power is lost; two changes of one
favorite run on goroutines of their own.
Correct: a file is always a whole list, no save is lost once it is
acknowledged, the provider ends with the last local state.

### Spotify: `external/spotify`

A provider holds one Session, built by whichever call needs it first, replaced
inside when Spotify drops it or the user signs in again, and closed at exit. A
receiver goroutine follows the login for Spotify Connect. While it serves one,
it passes commands of Spotify on to the update loop, answers a takeover at once
with a claim that stands in for the loop's state, and PUTs that state after
changes, one PUT at a time with a pause between, and again when one was refused
for the rate. A stream whose connection breaks plays silence while a goroutine
opens the track again.

Hard: Close, seeks, sign-ins and reconnections meet calls that are inside the
player they replace, and a stream that nobody holds yet; a takeover is under way
while the user and the list go on; updates, timers and refusals share one flag
and one timer.
Correct: no player is closed in use, a recovered track goes on in its place, no
stream stays open, a sign-in can be canceled, everybody returns; a takeover does
not read stopped while it loads, a pause that was asked for holds, Spotify has
the last state.

### Not modelled

- The rest of Spotify: the options and the queue of Connect, the web API and its
  caches, credentials.
- The rest of the interface (`ui/model`): overlays, search, provider lists and
  their paging, lyrics, views.
- The clients of the other providers, media controls, local playlists, podcasts'
  progress and the resume file, which one process saves without a lock.
- Framing and versions of the IPC protocol, and its deadlines.
- Parsing, formatting, drawing and sample arithmetic: visualizers, decoders,
  equalizer, speed, URL resolution, themes, configuration, the command line, the
  plugin manager and the upgrade. They are sequential, or bridges that pass
  messages to the update loop.

`PROJECT.json` lists every part with its status, and under `hazards` the lines
where the code can go wrong in a way that a test would hardly reach.

## Modules

| Module | Models |
| --- | --- |
| `Playlist` | the playlist, one action per method |
| `PlaylistUndo` | Ctrl+Z: composes the playlist with the snapshot that the UI keeps |
| `Player` | the engine, its workers and the UI calls that drive it |
| `ByteStream` | abstract: every listener gets the stream in order, the end behind the last byte |
| `NavBuffer`, `LivePrefetch` | the two buffers; both implement `ByteStream` |
| `SpotifyStream` | a Spotify track with its recovery, seeks and Close |
| `SpotifySession` | the login, those who share it, sign-in, the Connect receiver, Close |
| `SpotifyConnect` | the receiver while it serves a login, Spotify's commands, and the TUI that plays them |
| `Playback` | commands, ticks, answers, the engine's switches, reports to providers |
| `Broker` | the broker and subscribed connections |
| `IpcServer` | programs that start, close and die around one socket path, with their connections |
| `Jobs` | the job store, queue, update loop, commands, shutdown |
| `Plugins` | one plugin, all that calls into it, and Close |
| `AtomicFile` | abstract: a list that changes by whole operations and may fall back to a list not yet settled |
| `ConfigFile` | the files step by step, with failures, kills and power losses; implements `AtomicFile` |
| `Favorites` | composes `ConfigFile` with the queues that copy its changes to providers |
| `MCPlaylist`, `MCPlaylistSession`, `MCPlayer`, `MCStreams`, `MCPlayback`, `MCBroker`, `MCJobs`, `MCPlugins`, `MCSpotify` | instances for TLC; `MCPlaylistSession` joins two kinds of session with the playlist, `MCBroker` the broker and the socket's path, `MCStreams` the two buffers and the Spotify track, `MCSpotify` the login and what the receiver does with one, `MCPlayback` names the instance of `Playback` that the proofs share |
| `PlaylistProofs`, `PlayerProofs`, `BrokerProofs`, `JobsProofs`, `PluginsProofs`, `FavoritesProofs`, `StreamsProofs`, `SpotifyProofs` | the theorems |

Operators whose name begins with `Bad` are the code with one plausible mistake.
No action uses them: for each property of a run there is one that, put in the
place of the operator it varies, makes TLC find the property violated.

### How the models correspond to the code

**Playlist.** One call is one action, since a method holds `p.mu` throughout.
Indices are one higher than in Go, and 0 stands for -1. A row is an identity
with the three flags the playlist reads. A reshuffle is a choice of any
permutation the code could draw; where the code keeps a prefix, so does the
model. `Next`'s loop over unplayable rows is the set `NextOutcomes` of the
results it may have. `PlaylistUndo` adds the record of `recordPlaylistUndo`: a
snapshot, the revision it expects and whether it is forced. `MCPlaylistSession`
runs either a session that edits and undoes, rows becoming unplayable on the way,
from an empty list, or one that only listens, from any list under repeat-all.

**Player.** A pipeline is a value; its kind says whether it seeks natively, by a
prepared ffmpeg process or by restarting yt-dlp. The audio goroutine holds the
speaker lock from the start of a read to its end; every other section under
that lock is one step, which waits for it. `lifecycleMu` is a variable. A worker
is a program counter with the locals that survive from one locked section to
the next. Generations are compared for equality only, so each worker has a bit
that says whether its own is still current. Reads outside locks, interrupts
before a lock, and work after an unlock are steps of their own, in the code's
order. What is coarser or wider than the code:

- `replaced` (currentVersion) and the token check of a transition (`Adopted`)
  are kept though the speaker lock makes them idle.
- A local ffmpeg seek runs on the UI goroutine in the code and in a worker here,
  and Stop followed by a start in one handler are two requests here: both allow
  more behaviours.
- ClearPreload's new generation is part of its first locked section, and the
  pause flag and the suspension that follows it are one step.
- A bare Stop, without a new generation, may come at any time, as two call sites
  make it (`update.go:737`, `artist_screen.go:212`). The history variable
  `overtook` says that it suspended the speaker after a start under way had
  resumed it; `PauseInSync` leaves the suspension out until the next pause,
  resumption or start, and `PlayingIsAudible` shows the case.
- Left out: PlayAt from the UI goroutine, the metadata poller, volume, equalizer
  and speed, the engine's own Close, and the use of GaplessAdvanced as the
  session is saved (`session.go:44`).

**NavBuffer, LivePrefetch.** A byte or a frame is its position in the source, so
"in order, without a gap" is equality with a prefix. Each lock, each wait on a
condition, the stall timer and its callback, and each part of Close between two
unlocks is a step in the code's order. A broadcast wakes each reader that
waits; a reader that has looked but does not wait yet misses none, since it
keeps the mutex. The network delivers, ends, fails or stands still. Both
modules implement `ByteStream` by a refinement mapping to what was heard and how
its end was told.

**SpotifyStream.** A stream is its number, a position is a frame. `mu` is a
variable, because a read keeps it while the network stands still. Close cancels
what it read under `closeMu` and then waits for `mu`; the recovery goroutine
opens, seeks and adopts in steps of its own, each attempt with its time limit.
The seek in `adopt` is on the network, under `mu`, and may wait for good.

**SpotifySession.** A login is its number; a Session has the number of its first
login, and `reconnect` puts another one inside it. A flight joins the callers
that build the same login. The read lock of a call and the write lock of a
reconnection are guards: no reader is inside, or no writer. `p.mu` is held from
step to step by Close alone, which waits for a receiver under it. Left out:
credentials and their files (whether a silent login succeeds is a free choice)
and a program with Connect turned off (the receiver then is not there). Whether
Spotify refused the key a moment ago is a free choice too. Each goroutine calls
once, which is enough to have any two calls of any kind meet.

**SpotifyConnect.** The receiver is one goroutine, so a message, a command or a
timer is a step, except a takeover: between the claim and the tracks that are
sent it fetches pages and metadata (`at = "load"`). `program.Send` waits until
the loop takes the message: `inbox` holds one. A PUT sets `shown`, is refused for
its rate and sets the timer, or fails in another way, which is only logged
(`lost`, a history variable, until one succeeds). The TUI is that of `Playback` reduced to what the receiver
sees: a start in the background with its answer, pause, stop, another track, and
the snapshot that is stored after each message; which track comes next is a free
choice. `wish` and `taking` are history: what Spotify last asked for, and that
it was told of a takeover whose track still loads. Left out: seeks, volume,
options and the queue, whose commands pass through; cluster pushes no newer than
the last transfer, which are ignored; and a receiver made after the TUI's first
notice.

**Playback.** Update handles one message at a time, so a message is a step, and
the helpers of the handlers are functions from a state to a state. The engine is
what `Player` checks: a start or a preload that was overtaken is refused, an end
with a preload armed switches and leaves a flag. The list plays its rows in
order; shuffle, repeat and the queue are in `Playlist`. `missed` remembers a
command that the UI handled after a switch and before the tick that would tell:
`tickGapless` then advances once more (`playback.go:126`), and the properties
except that case. Left out: previous, rewind and seek, the reconnection of a
yt-dlp track after a long pause, feeds, resume positions, lyrics, a remote list
played by a client, a provider that asks for a sign-in, and reports of tracks
whose provider takes none.

**Broker.** Publish is several steps, because a send on a channel may wait; it
keeps `b.mu` meanwhile. Subscribe, ClearPrefix, Close and the deferred
unsubscription are one step each under the mutex. A connection reads, sees that
its channel is closed, or leaves at any moment. Payloads and the checks of
topic names are left out. `owed` and `replayed` are history: the events a
subscription was to get while it lived, and how many values it began with.

**IpcServer.** A program is a process, so every system call is a step: the check
before anything is built, the probe, the reading of the PID file, each removal,
listening, chmod, the creation of the PID file and its writing. A program may be
killed anywhere and leaves its files; its PID may then belong to another
process. What the path names is the program that made the socket, dead or alive.
Close sets done, closes the listener (which removes what the path names), closes
the connections it knows, waits for their goroutines, and removes the files in
the code's order. Bind and listen are one step; errors of probes, directories
and removals, requests, and Windows are left out.

**Jobs.** A store call is one action, with the pruning it begins with; sending
the event after the unlock is another. The queue's goroutine swaps its slice,
then hands messages on one by one. An update of the UI is split where another
goroutine could see a difference: start of the job, look at the context, effect,
snapshot, end. What an operation does to the player or a provider is one
abstract edit that makes a new version. The theme and the visualizer (`setting`)
are put in place first and saved then, and their job fails if they cannot be
saved; a provider, the switch of the output and a plugin may fail with their
effect, or a part of it, in place (`TakesEffect`). A provider rename, which replies from an
update of its own, and feeds, which complete in the update that loads them, are
not told apart from other edits and from synchronous operations. Framing of
requests, the protocol version and deadlines are left out.

**Plugins.** `p.mu` is a variable, since Lua runs for as long as it likes up to
the deadline of its context. A callback is any of the API calls that touch this
state: add or cancel a timer, start or kill a process, publish. Close is the
sequence of `luaplugin.go`, each wait a step that may also run out of time.
Permissions, other API calls, and the loading of several plugins are left out.

**ConfigFile, Favorites.** Every system call is a step that may fail, and
between any two a process may be killed or power may be lost. A version of the
file is its list, a mark for bytes that are on the disk, and the operations it
holds. After a rename without a synced directory a power loss leaves the old or
the new version. History's Clear removes the file, syncs nothing and returns nil,
so a power loss may undo what it acknowledged, until a later save syncs the
directory: `unsettled` and `undone` (history) hold those removals,
`KeepsAcknowledged` excepts them, and `AtomicFile` allows that, as it allows the
effect of a change that was not acknowledged. A toggle that finds the list as it
wants it writes nothing, and is not counted as acknowledged. The Windows variants of lock and
rename are left out. The queues of two processes know nothing of each other, so
`SyncEndsWithLast` speaks of the calls of one process.

## Runs

All in `PROJECT.json`; each takes at most a few minutes.

| Run | Question | Instance |
| --- | --- | --- |
| `playlist_edit` | Do all edits, queue operations, mode changes and transport calls keep the indices sound, the active row in place and the predictions true? | two rows of the user and a recommended one, which may be unplayable, become so, and be bookmarked, a queue of two |
| `playlist_session` | Does Ctrl+Z restore only over the state its edit left, and with repeat-all does every playable row play again and again? | two identities, bookmarks among them, and six revisions to edit; three rows, any of them unplayable, any order and queue, to listen to |
| `player_calls` | Do overtaken starts, preloads and seeks stay without effect, does the engine play what the Player holds, is no pipeline used after Close or leaked? | five pipelines of all kinds, two workers, bare Stop |
| `player_live` | Does every call return, and do pause, display and suspension agree between calls, but for the speaker a bare Stop suspends after a start resumed it? | three pipelines, one worker, bare Stop |
| `streams` | Do listeners hear the source in order, is a stall true, is everything released once nobody uses it, does a recovered track go on in its place, and does nobody wait for good, unless the seek in `adopt` does? | a download of two bytes in up to two segments, with a length that is right, missing or wrong (right where one body has the most bytes); a ring of four and up to eight frames; a track of two frames with one recovery of two attempts |
| `spotify` | Is no player closed under a call, can a waiting sign-in always be canceled, does everybody return; and does a takeover never read stopped while it loads, does a pause that was asked for hold, has Spotify the last state once all is settled, unless the last PUT failed for another reason than its rate or the TUI does not play what was taken over? | two of up to four callers (streams or sign-ins), two logins; two commands, acts of the user or ends of tracks, one refused PUT, three tracks of which one is not Spotify's |
| `playback` | Is what is announced what plays, what is preloaded what follows, does an ended track move on, is every play reported, and scrobbled at its end, once and before an exit that did not time out? | a finite stream whose provider takes reports and positions, a path that starts in the update, a live broadcast; two commands, one break, two reports that wait |
| `playback_buffering` | Does "buffering" mean that a connection is under way? Violated | the same |
| `broker` | Has a stream no gap and no repetition, is a loss announced, does Publish wait only where a replay alone filled the channel; is a program that serves the one its path and PID file name; can every connection leave and every server close, unless a publication waits for good? | one connection, two publishers, three topics and as many slots, four events; three programs, one connection |
| `jobs` | Is an active job kept, an outcome final and announced once, a snapshot no older than the effect, the queue complete, a canceled job never begun, and does every job end? | a job of any kind and a second that is synchronous, a store for one, one connection, one keyboard edit, the shutdown |
| `plugins` | Do events run in order, does nothing run Lua after the end, does a canceled timer stay silent, does Close return? | a one-shot timer, a ticker, a process, a visualizer, events and a command, three of them in one behaviour |
| `favorites` | Is the file an atomic register, does an acknowledged save survive kills and power loss, and a cleared history all but a power loss before the next save, does the provider end with the last state? | two processes, three operations, one kill or power loss |

One more instance lies beside the modules: `NavBuffer_seek.cfg` has two readers
with seeks; it passes, and checks the `TypeOK` of `NavBuffer`. That of `Playlist`
is a theorem, a part of `IndexInv`; the invariants of the other proofs hold the
types they need (`Types` of `PlayerProofs`, `BrokerType` and `FollowTypes`,
`WorkTypes`, `StageTypes`, `EventTypes` and `BackTypes` of `PluginsProofs`,
`FileType`, `LoadTypes`, `ReaderTypes`, `RingTypes`, `StreamType`,
`SessionType`).

**Why the bounds are enough.** Playlist edits touch at most two rows and the
position, so three rows have every arrangement of before, at and after; a queue
of two has a first entry, a later one and duplicates. In `playlist_edit` one row at
most cannot play; in `playlist_session` any may, and `PredictionsSound` is about
all. The revision wraps in
`playlist_edit`; a session that edits stops before it does, as a wrapped
revision would be taken for the old one: in the code it has 64 bits. In the
engine a hazard needs a current pipeline, a next one and one that a worker
builds; two workers more than once each bring any pair of start, preload and
seek together, and closed pipelines are built again. In the download a second
byte puts one before and one behind the boundary of the segments; the ring is
filled, drained to an underrun and wrapped by eight frames; one recovery has all
that a second would do, as nothing but a counter outlives it. Two logins are the
one that is replaced and its successor. Three programs are one that closes or
was killed, one that starts and one that meets both. In the broker three slots
for three topics fill with a replay alone, with a replay and live events, or with
live events, and the overflow comes with the next. In the store a capacity of one makes every submission meet eviction or
refusal, and two jobs are enough for one to end, be evicted or be published
while the other is anywhere. Two commands let one overtake what another began,
and Spotify's second command or the user's act meets the takeover, timer or PUT
of the first (three find nothing else). A plugin's queue of one is full with the
first event. Three operations of two processes let a change fall between the two
of another, and one crash comes at any step. A bound on counters (`MaxEvents`,
`MaxEdits`, `MaxCalls`, `MaxOps`, `MaxWork`, `MaxBegun`, `MaxCommands`,
`MaxLimited`, `MaxWaiting`, the identities of jobs) ends a behaviour, and a program that has
quit or a stream that is closed takes no step: these configurations do not check
for deadlock. In the engine nothing is bounded by a counter, and deadlock is
checked. Symmetry is over interchangeable identities, and never where liveness
is checked.

**Fairness.** Where a step waits for a mutex, strong fairness stands for Go's
mutex, which hands over to a waiter that has waited long enough; where nothing
can take the condition away again, weak fairness is the scheduler's.

A promise that a wait ends, `P ~> ~P \/ Q`, is written `[]<>(~P \/ Q)`, which says
the same and is quicker to check.

- `MCPlaylistSession`: tracks keep ending and Next runs.
- `Player!FairSpec`: locks, and a decoder's read, which holds as long as data
  arrives; `StallSpec` is the same without the latter.
- `MCStreams!StreamsSpec`: goroutines run and locks are handed over. The network
  owes nothing: only a read that was canceled ends, and the seek in `adopt`,
  which nothing cancels, need not. An attempt to open a Spotify track again ends
  by its time limit.
- `SpotifySession!Fairness`: web requests have time limits, timers expire, the
  channel of a closed login ends. The user need not finish a sign-in.
- `MCSpotify!SpotifySpec`: that of the login. What is said of the receiver with
  its commands is safety and needs none.
- `MCBroker!ServerSpec`: publishers go on, a connection that waits for the mutex
  again and again gets it, and a program that closes goes on; consumers and
  peers owe nothing, and a program may be killed. `ReadersSpec` lets consumers
  read until they leave.
- `Jobs!FairSpec`: the program keeps running (`Runs` is every step but those of
  the shutdown), its goroutines run, the update loop reads its messages, and
  commands end, since the code gives provider calls and plugin commands time
  limits.
- `Plugins!Fairness`: Lua returns, because its context is canceled at the
  deadline, goroutines run, and a killed process ends after the lines it left in
  its pipe. Of those that wait for the Lua lock again and
  again, one gets it: a command or a timer, and a process.
- `Playback` and `Favorites` state none: their properties are about safety.
  `EndsMoveOn` looks one tick ahead instead.

## Where the code and its words differ

`playback_buffering` shows a statement of the repository violated: a track that
starts on the update loop itself (`playback.go:603`) overtakes a connection and
leaves `buffering` set, which `model.go:450` calls "true while HTTP connect is in
progress"; the pause key then does nothing and the end of the track is not seen.

More instances of this kind belong to no listed run; `tlc -config <file>
<module>` shows the first that a file names and, with that property taken out of
the file, the next:

| Configuration | Statement, and what the code does |
| --- | --- |
| `MCPlaylist_promises.cfg` | "Returns false when the next track can't be predicted" (`playlist.go:491`): with only unplayable rows queued at the end of a shuffled pass, PeekNext predicts the first row |
| | Smart rows "that already played (including the current one) stay" (`playlist.go:980`): one that plays from the queue goes |
| | After removal of the active row "playback advances naturally on next" (`playlist.go:804`): Next skips the row that followed it |
| `MCPlaylistSession_smart.cfg` | "Restoring the snapshot would drop every change since the edit" (`playback.go:534`) is why undo compares revisions: a batch of recommendations changes no revision, so undo drops it |
| `MCPlayer_promises.cfg` | "Prevent interruption-driven EOF from advancing to a stale preload" (`player.go:544`): a prepared seek interrupts the decoder before it holds the speaker lock, and a preload armed in between is advanced to |
| | HasPreload is "true if a next track is already queued" (`player.go:847`): a yt-dlp seek that fails leaves the pipeline without its stream |
| | Drained is "true if the current track ended" (`player.go:842`): a read that a seek interrupted looks the same |
| | GaplessAdvanced is "true (once) when a gapless transition happened" (`player.go:381`): a seek that commits first clears the flag |
| | buffering is "true while HTTP connect is in progress" (`model.go:450`): a transition heard of after a new start outdates that start, and buffering stays |
| | "Resume is called automatically on the next track start" (`player.go:408`): a bare Stop may suspend after it |
| `MCPlayer_stall.cfg` | "Interrupt it first so source replacement can acquire the mutex" (`player.go:252`): a transition between the look at the current pipeline and the interrupt leaves the wrong one cut |
| `MCBroker_replay.cfg` | "a live server is never displaced because its PID file is missing, stale, or malformed" (`server.go:563`): of two programs that start at once, the second may probe before the first listens, find no PID file or an empty one, and remove the first one's socket |
| | `cliamp quit` waits until the socket closes, "so a new instance can start right after it returns" (`ipc_client.go:50`): the listener closes first and the PID file goes last, so such a start is refused as "already running" |
| | "Publish never waits for a subscriber" (`pubsub.go:62`): 32 topics with a retained value each fill the 32 slots of a new subscription, and the slot for the overflow event is gone; when its peer leaves before it reads, Publish waits under `b.mu` for a consumer that needs `b.mu` to leave |
| `MCJobs_promises.cfg` | "a job is acknowledged before the Model reads it" (`main.go:706`): nothing orders the two |
| | "cancellation prevents late results from committing" (`jobs.go:222`): a switch of the device does not look |
| | the record has "the snapshot from the committed operation" (`docs/remote-control.md:52`): that of a load is taken in a later update |
| `MCPlayback_promises.cfg` | An "interim position update for a playing track" (`provider/interfaces.go:177`): after a switch by the engine, and until the tick, the position of the new track is reported for the old one |
| | "A clean decoder EOF is a disconnect, so retry this station instead of advancing" (`tick.go:571`): while the list is on a local track that failed to open, each tick drops the reconnection that the last one scheduled, until five are used and the station stays silent |
| `MCPlugins_render.cfg` | "render never runs before init" (`luaplugin/visualizer.go:97`): an init that meets a full queue is dropped and render runs without it |
| `MCFavorites_provider.cfg` | The provider "always ends with the last local state" (`favorites/sync.go:7`): a toggle of which only the sync of the directory fails is saved but not copied |
| `MCSpotify_promises.cfg` | "Close releases the session if one was created" (`provider.go`): a sign-in and a build that both finish leave the login that `p.session` named first open |
| | "cliamp pauses and the remote device takes over" (`docs/spotify.md:195`): a PauseMsg that is handled while a track opens finds nothing to pause, or pauses the track before, and the new one plays |
| | The claim stands in "until the TUI plays the claimed track" (`connect.go:931`), at most `connectClaimTimeout`: nothing PUTs when it expires, so Spotify goes on showing a track as buffering that failed, or that the user skipped while it loaded |
| `SpotifyStream_seek.cfg` | "Cancel it before waiting to close the decoder" (`streamer.go`): the seek of a stream that is being adopted is under `mu` and not yet known to Close |

Observations without an instance: `Session.Close` leaves `s.player` and `s.sess`
set, so the "session closed" check of NewStream never fires. A reconnection that
ends after the provider's Close leaves a live login. The UI's read lock on a
Session waits behind a reconnection that waits for a NewStream. Clearing a Spotify
sleep timer does not stop the timer (`connect.go:759`). A receiver that is made
after the TUI's first notice tells an empty state until something changes. A
command that is refused leaves the device active. A PUT that fails for another
reason than the rate is not repeated (`connect.go:856`), so Spotify goes without
the last state until there is news: `ControllerFollows` leaves that out.
`GaplessAdvanced` polled
after a command advances the list twice. A start may commit after the quit, as
the shutdown makes no new generation. Openings of provider lists and their pages
can leave `loading` set (`providers.go`) when another list is opened meanwhile.

The properties of the passing runs leave these cases out where they meet them,
and say so in their comments.

## Proofs

Every theorem is proved for all values of the constants that satisfy the named
assumptions of its module.

**PlaylistProofs.** No part of the index structure is inductive alone: Remove
keeps the order a permutation only if queue and position are in range, and the
queue map follows only from a queue of rows. The invariant is therefore
`IndexInv`, the conjunction of `TypeOK`, `PlayOrderIntegrity`,
`QueuePositionsExact` and `TrackOrderUnlessShuffled`. Its first part proves
what dropping, inserting and shifting do to sequences of indices; then there is
a lemma per operation (`AddSound`, `QueueSound`, `QueueEditsSound`,
`RemovalSound` and so on), and `NextInv` combines them.
Results: `IndexesSound`, `TypeCorrect`, `PlayOrderSound`,
`QueuePositionsSound`, `TrackOrderSound`. `PredictionsSound` says of every state
with sound indices that PeekNext and HasNext are right about the call of Next
that follows: both walk the queue and the rest of the order in the same way,
and where `Next` draws a new shuffle, PeekNext names nothing.

`PlaceKept` proves the action property `EditsKeepPlace`: no edit takes the
listener off the active row, loses what is queued or disturbs what has played.
A track stays listed exactly when its row stays, because no two rows are the same
track (`RowsDistinct`, inductive since what is added is not listed yet). A
removal lists the slots that stay in increasing order, so those up to the
position are the first of the new order (`InOrderPrefix`), and the position,
less the slots removed before it, is the slot of the same row
(`RemovalKeepsPosition`). Increasing lists are unique (`InOrderIs`), proved from
the least place where two of them differ. What is appended lands behind the
position (`AppendKeepsPlace`), and a move takes every reference with its row
(`MoveKeepsPlace`).

Undo has a section of its own. A snapshot taken of sound indices is sound
(`SnapshotInv`), so `Restore` keeps `IndexInv`: `UndoStaysSound`, whatever is
recommended. That Ctrl+Z drops nothing is `SessionInv`: the revision of the
record is never ahead of the playlist's, and while the two are equal the playlist
is as the edit left it, but for the smart flag. It holds because every step is
`Tracked`: it adds one to the revision or keeps all but that flag, shown for
each method in turn. `UndoIsGuarded` has the hypothesis that nothing is
recommended (`SmartIds = {}`): recommendations change no revision, and
`MCPlaylistSession_smart.cfg` shows what undo then drops. It speaks of sessions
before the revision wraps, which in the code is after 2^64 changes.

**PlayerProofs.** `PlayerInv` is what the locks and generations of the engine
add up to, and its parts lean on one another. `LocalInv`: what a process holds
follows from the step it is at. `OwnerInv`: an open pipeline plays, is armed, or
is with the one worker that built it. `AudioInv`: the streams of the audio
goroutine are pipelines of the Player, the armed one only from the end of a read
to the swap. `WantedInv`: a start that has passed its check is the newest
request, and a preload in flight when the armed one was dropped is not.
`SilenceInv`: a stopped engine has no source. Results: `PlayerTypeCorrect`,
`OvertakenNeverLandsHolds`, `AudioMatchesPlayerHolds`, `PipelinesSoundHolds`,
`SilentAfterStopHolds`. `PauseInv` adds that at most one start is under way, that
the UI neither pauses nor resumes meanwhile and stops only with a bare Stop, and
that the speaker is then suspended only where that Stop overtook the start.
`PauseInSyncHolds` follows, for every Stop the call sites make.

The same module has the proofs about the TUI that drives this engine: `Tui`, the
instance of `Playback` in `MCPlayback`, under `PlaybackAssumption`, which says
what its constants are. `PlaybackInv` says that at most one start and one
preload are current; that while a start is awaited nothing is armed
(`StartInv`); that what is armed or being opened is what the TUI asked for
(`ArmInv`) and what follows in the list (`UpcomingInv`); and that a switch the
TUI has yet to hear of was to it (`SwitchInv`). With these `AnnouncedInv`, that
what is announced as started plays, is inductive. `RetryInv` says that a remote
track that may drain has used no attempt unless a reconnection is due. Results:
`AnnouncedPlays`, `ArmedIsNext`, `QueueMovesOn`. They have no hypotheses, so they
hold for any lists of any kinds of tracks, stations too, which the run has none of.

`ReportsInOrder` is about the reports to the providers. `QueueInv`: in the queue,
read after what the provider hears now or heard last, each scrobble comes behind
the now-playing report of its track with nothing but positions between them, at
most one position of a track waits, so that adding one leaves that order, and the
goroutine runs while a report waits. `PlayInv`: a play that is not over has been
reported, and no play or scrobble since. `Beside`: what a handler does to the
queue takes none but a position out of it, which goes through every helper that
adds a report, so `Keeps`, no report is lost, holds of every step; and
`TickScrobbles` follows a play that has come to its end through the tick to its
scrobble, with `RetryInv` for what the tick finds. Its one hypothesis is that
the value that stands for no track is not a report.

**BrokerProofs.** `BrokerInv` says who holds the lock while a publication is
under way, that it only has live subscribers left, and that a live subscriber's
channel is open. `SendsOnOpenChannels` follows for all sizes. When Publish waits
needs `Reserve`: each live subscription has a free slot, or its replay took all
of them and nothing of it was read. `WaitsForUnreadReplay` follows for all sizes
that the code could have, the 32 topics and 32 slots that it has among them, and
`MCBroker_replay.cfg` shows such a wait, for good. `SubscribersSound` is about content: `FollowInv` says that
what a consumer has read, followed by its channel, is its replay and then the
events it is owed, up to the one that is being sent (`FlowInv`); where that
chain is cut, the overflow event is its end (`CutInv`); and the retained values
are the latest events of their topics (`ValueInv`), from which the replay comes.

`ServersStay`, in the same module, is about the socket. `ServersReachable` needs
to know why nobody removes the socket of a program that serves: `PidInv`, that
the PID file names a program from the moment it serves until it has removed its
socket; `ClearInv`, that a start which goes on to clean up has seen no such
program; `SockInv`, that the path names the one that listens; and `AloneInv`,
that at most one program is starting, which holds until `overlapped`.

**JobsProofs.** Every step is either a call of the store, whose new state
differs in one of a few ways (`StepCases`), or leaves it alone. `StoreInv`: the
list of ended jobs holds only ended ones, so eviction and expiry take no active
job; it gives `ActiveJobsKept` and `OutcomesFinal`. `ToldInv`: an end is owed by
one actor, or in the channel, or published, never two of these; it gives
`AnnouncementsUnique`. `QueueInv`: the goroutine of the queue holds a batch only
while it sends it; it gives `QueueSound`. `SubmissionsSound` joins the two. What a job does to the
player is followed by `EffectInv`: a job is in one place only, as a message, with
the loop, as a command or at its end (`PlaceInv`, `OneMessage`), it takes effect
in one of them, and what is told of that is true (`TruthInv`: a job that succeeded
took effect once, one that failed at most once, and not at all if it is a load or
a synchronous one without a setting to save), the snapshot of its record is taken after that
(`VersionInv`), and a canceled one passes the look at its context no more
(`CanceledStopped`). Results: `OutcomesTrue`, `SnapshotsCover`,
`CanceledJobsDropped`.

**PluginsProofs.** `StageInv` says how far the load and Close are and who may
still be in Lua. `EventInv` follows the events: numbers rise through the queue
(`OrderInv`); what ran is a prefix of what was accepted, the worker holds the
one behind it (`SeenInv`), and the queue holds exactly those behind that until
Close drops it (`WaitingInv`). It gives `EventsRunInOrder`. `BackInv` is about
timers and processes: a canceled timer is in the map no more (`TimersInv`), and
what the second round of Close finds is all there is, because a closed VM starts
nothing (`LeftInv`). It gives `OverStaysSilent`. Both need only that the names
of timers and processes are not those of other callers (`NamesAssumption`).

**FavoritesProofs.** `FileInv` has the types and `HandInv`: who holds the file
lock, what the holder has read is what the path names, and its temporary file
is what it will rename. From it every step maps to a step or a stutter of
`AtomicFile`, whose value is the list that a reader would load and whose
`recent` holds the lists a power loss may bring back: `FileIsAtomic`. `AckInv`
says that an acknowledged operation is in every version that may be on the disk,
but for a removal that is unsettled or was undone; it gives
`AcknowledgedSurvives`. `QueueInv` relates the latest number of each
track to the calls that wait, run or were skipped; it gives `SyncIsLast`.

**StreamsProofs.** A byte is its position, so `Upto(n)` is the beginning of a
stream. Of a download, `FileInv` says that the file is such a beginning and how
it agrees with what the goroutine has fetched and published; `WholeInv`, that a
clean end is that of the whole stream; `FileLockInv`, who holds `readMu` and that
Close has waited for the goroutine before it takes it; `CursorInv`, that each
reader has a beginning of what was published, that its timer looks back to what
it has seen, and that it goes to the file only for bytes that are there, or for
the clean end. They give `FileStaysSound`, `StallsAreTrue`, and that each step
maps to a step or a stutter of `ByteStream`. Of the ring, `PlayedInv` says that
what was played and then what the ring holds are the beginning of the stream,
slot by slot; `ChunkInv`, that what `fill` has yet to write follows; `DryInv`,
that a source that ended well has given all it had. The places of the ring wrap:
`CountFalls`, `CountRises` and `Apart` say once what that does to the count and
to the distances. `RingIsAByteStream` follows, and with the download
`EveryoneHears`. All need only that the sizes are numbers, that the ring is not
empty, and that no reader has the name of another holder of the lock
(`StreamsAssumption`).

In the Spotify track, whether a stream is left open depends on who could still
close it. `OpenInv` says that a stream that is not canceled is the one `s.cancel`
cuts off or the one in the hand of the recovery goroutine; `CutInv`, that Close
has cut off what `s.cancel` names unless a swap is under way, which then looks
at `closing` again; `MuInv` and `CountInv`, who holds `s.mu` and which numbers
are in use. `StreamsAreReleased` follows for any number of recoveries.
`PlaceInv` follows the position through the recovery, from the read of `resume`
to the seek in `adopt`, and gives `TracksResumeInPlace`; a recovery that gives up
ends the track, and Close ends all, so the place is kept short of these.

**SpotifyProofs.** That Alone keeps a login open while a worker is in its
player needs more than the lock: no second Session may hold that login.
`OwnInv` says that a login that is built and not yet published or swapped in
has one owner and a Session that nobody else refers to; `ApartInv`, that no
login is in two Sessions; `UserInv`, that a worker is in the player of the
Session its call has captured. All steps fall into four classes, with a lemma
each: those that pass (`PassesKeeps`), build (`BuildsKeeps`), publish
(`PublishesKeeps`) or swap a login (`SwapsKeeps`). Results: `PlayersAreKept`,
and, from `CancelInv` about the generation that `authCancel` belongs to,
`SignInsCancelable`. Both need only that no sign-in is called `None`, and that
the bound on logins is a number (`SessionAssumption`).

What the receiver owes to Spotify's commands is `ConnectInv`. `ConnectType` has
the types. `TakeInv`: a takeover that Spotify was told of is backed by the claim,
or by a TUI that plays something which no message on its way
stops, and the claim stands while tracks are fetched. `PauseInv`: a pause that
was asked for is in the inbox, or with the load that is to end, or had. `ToldInv`:
what Spotify was told differs from the last state only while a PUT is due, by the
flag or the timer, after a PUT that got lost, or with a takeover that the TUI did
not fulfil. One lemma per kind of step: commands (`CommandsKeep`, `TakeoverKeeps`), the receiver's own
(`ServingKeeps`, with `FlushTells` about a PUT), and the TUI's (`HandleKeeps`,
`PlayingKeeps`, `UpdateTells`). Results: `TakeoversAreHeld`, `ControllersFollow`,
for any commands and refusals in any number.

Out of the prover's reach are liveness under fairness, ENABLED, and induction
over data. No module with a theorem, and none that it uses, declares a recursive
operator.

**Only model-checked.** All liveness (`EveryRowPlays`, `EveryCallReturns`,
`NobodyWaitsForGood`, `NobodyStuck`, `ServerCloses`, `EveryJobEnds`,
`CloseReturns`).

## Plan

Done: the playlist with undo, the engine, the broker, jobs, playback, the stream
buffers and their abstraction, plugins, files with crashes and the queues behind
them, the Spotify login, its streams and Connect. Left, in this order:

1. The engine's own Close and its metadata poller; previous, rewind, seek and
   feeds in `Playback`, then shuffle and the queue by composing it with
   `Playlist`.
2. The provider lists and their paging; local
   playlists edited by the program and the command line at once.
