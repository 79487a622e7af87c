------------------------------- MODULE Player -------------------------------
(***************************************************************************)
(* The audio engine of package player (player.go, gapless.go) with its     *)
(* actors: the audio goroutine, which reads the decoders under the speaker *)
(* lock; the UI goroutine, which makes its calls one after the other; and  *)
(* the workers, background commands that start a track, preload the next   *)
(* one or seek.                                                            *)
(*                                                                         *)
(* Locks.  lifecycleMu is the variable lifecycle.  The speaker lock is     *)
(* held across steps by the audio goroutine only, while audio # "idle";    *)
(* every other section under it is one step that waits for the lock:       *)
(* whoever does not take that lock can see one p.mu section of it at most. *)
(* p.mu and the gapless mutex are never held across a step.                *)
(*                                                                         *)
(* Counters that are only compared for equality are modelled by what the   *)
(* comparison tells: valid[w] says that the play, preload or seek          *)
(* generation worker w carries is still the current one, replaced that     *)
(* currentVersion moved since the audio goroutine read it.  SetNext        *)
(* gives each pipeline one token, so a pipeline stands for its token.      *)
(***************************************************************************)
EXTENDS Naturals, FiniteSets

CONSTANTS
  Pipes,             \* pipelines: a decoder with its processes and buffers
  Ffmpeg,            \* those that seek by a prepared replacement process
  Ytdl,              \* those that seek by restarting yt-dlp
  Workers,           \* background commands that can be under way at once
  None               \* no pipeline, no process

UI == "ui"
Procs == Workers \cup {UI}

ASSUME KindsAssumption == Ffmpeg \cup Ytdl \subseteq Pipes /\ Ffmpeg \cap Ytdl = {}
ASSUME NamesAssumption == None \notin Pipes \cup Procs /\ UI \notin Workers

VARIABLES
  gCurrent, gNext,        \* gaplessStreamer: the streams it plays and holds
  drained, replaced,
  current, nextPipeline,  \* Player: the pipelines of those streams
  playing, paused, ctrlPaused, started, suspended, gaplessAdvance,
  open, finished, cut,    \* pipelines: not closed; at their end; interrupted
  lifecycle,              \* holder of lifecycleMu
  audio, reading,         \* the audio goroutine and the pipeline it reads
  pc, tp, cur, valid,     \* the other processes and their local variables
  after, buffering, preloading, seeking,  \* the UI's own state
  dropped,                \* history: the preload was dropped, none was asked for since
  overtook                \* history: a bare Stop suspended what a start had resumed

gapless == <<gCurrent, gNext, drained, replaced>>
pipelines == <<current, nextPipeline>>
output == <<playing, paused, ctrlPaused, started, suspended, overtook>>
decoders == <<open, finished, cut>>
locals == <<pc, tp, cur, valid>>
ui == <<after, buffering, preloading, seeking, dropped>>
vars == <<gapless, pipelines, output, gaplessAdvance, decoders, lifecycle, audio, reading,
          locals, ui>>

SpeakerFree == audio = "idle"
Go(p, step) == pc' = [pc EXCEPT ![p] = step]

-----------------------------------------------------------------------------
(* Pipelines *)

(* A closed pipeline is built again only when nothing refers to it. *)
Unused == {x \in Pipes \ open : \A p \in Procs : cur[p] # x /\ tp[p] # x}
                \ {gCurrent, gNext, current, nextPipeline, reading}

Build(x) ==
  /\ open' = open \cup {x}
  /\ UNCHANGED <<finished, cut>>

Close(S) ==
  /\ open' = open \ S
  /\ finished' = finished \ S
  /\ cut' = cut \ S

BadInterrupt(x) ==
  /\ cut' = cut \cup {x}
  /\ UNCHANGED <<open, finished>>

Interrupt(x) ==
  /\ cut' = cut \cup ({x} \cap open \cap (Ffmpeg \cup Ytdl))   \* others have no interrupt
  /\ UNCHANGED <<open, finished>>

(* gaplessStreamer *)
Replace(x) ==
  /\ gCurrent' = x
  /\ gNext' = None
  /\ drained' = FALSE
  /\ replaced' = ~SpeakerFree

SetNext(x) == gNext' = x /\ UNCHANGED <<gCurrent, drained, replaced>>

-----------------------------------------------------------------------------
(* The audio goroutine *)

(* A callback: it does not come while the speaker is suspended, ctrl and a *)
(* missing source answer with silence.                                     *)
AudioRead ==
  /\ SpeakerFree /\ ~suspended /\ started /\ ~ctrlPaused
  /\ gCurrent # None
  /\ audio' = "reading"
  /\ reading' = gCurrent
  /\ replaced' = FALSE
  /\ UNCHANGED <<gCurrent, gNext, drained, pipelines, output, gaplessAdvance, decoders,
                 lifecycle, locals, ui>>

AudioFull ==
  /\ audio = "reading" /\ reading \notin cut \cup finished
  /\ audio' = "idle" /\ reading' = None
  /\ UNCHANGED <<gapless, pipelines, output, gaplessAdvance, decoders, lifecycle, locals, ui>>

(* A short read: the track is over, or its decoder was interrupted. *)
AudioShort ==
  /\ audio = "reading"
  /\ finished' = IF reading \in cut THEN finished ELSE finished \cup {reading}
  /\ IF replaced
     THEN /\ audio' = "idle" /\ reading' = None
          /\ UNCHANGED gapless
     ELSE /\ gCurrent' = gNext
          /\ gNext' = None
          /\ drained' = IF gNext = None THEN TRUE ELSE drained
          /\ audio' = IF gNext = None THEN "idle" ELSE "swapping"
          /\ reading' = gNext
          /\ UNCHANGED replaced
  /\ UNCHANGED <<pipelines, output, gaplessAdvance, open, cut, lifecycle, locals, ui>>

(* handleGaplessSwap takes over the pipeline whose token it is handed. *)
Adopted == nextPipeline = reading

AudioSwap ==
  /\ audio = "swapping"
  /\ IF Adopted
     THEN /\ current' = nextPipeline
          /\ nextPipeline' = None
          /\ Close({current})
          /\ gaplessAdvance' = TRUE
     ELSE UNCHANGED <<pipelines, decoders, gaplessAdvance>>
  /\ drained' = FALSE
  /\ audio' = "idle" /\ reading' = None
  /\ UNCHANGED <<gCurrent, gNext, replaced, output, lifecycle, locals, ui>>

-----------------------------------------------------------------------------
(* PlayAtForGeneration, in a worker *)

PlayBuild(w) ==
  /\ pc[w] = "build"
  /\ \/ \E x \in Unused : Build(x) /\ tp' = [tp EXCEPT ![w] = x] /\ Go(w, "lock")
     \/ Go(w, "played") /\ UNCHANGED <<decoders, tp>>           \* buildSource failed
  /\ UNCHANGED <<gapless, pipelines, output, gaplessAdvance, lifecycle, audio, reading, cur, valid,
                 ui>>

BadGenerationUnchecked(w) == TRUE

StartStillWanted(w) == valid[w]

(* resumeSpeaker *)
Resumed == suspended' = FALSE /\ overtook' = FALSE

(* A stale start closes its pipeline; another one takes the lifecycle lock *)
(* and wakes the speaker.                                                  *)
PlayLock(w) ==
  /\ pc[w] = "lock" /\ lifecycle = None
  /\ IF StartStillWanted(w)
     THEN /\ lifecycle' = w
          /\ Resumed
          /\ cur' = [cur EXCEPT ![w] = current]
          /\ Go(w, "unarm")
          /\ UNCHANGED <<decoders, tp>>
     ELSE /\ Close({tp[w]})
          /\ tp' = [tp EXCEPT ![w] = None]
          /\ Go(w, "played")
          /\ UNCHANGED <<lifecycle, suspended, overtook, cur>>
  /\ UNCHANGED <<gapless, pipelines, playing, paused, ctrlPaused, started, gaplessAdvance, audio,
                 reading, valid, ui>>

(* The active decoder may block the audio goroutine: it is interrupted     *)
(* before the speaker lock is asked for, without that lock.                *)
UnarmAndInterrupt(p, next) ==
  /\ IF cur[p] # None THEN SetNext(None) /\ Interrupt(cur[p]) ELSE UNCHANGED <<gapless, decoders>>
  /\ Go(p, next)
  /\ UNCHANGED <<pipelines, output, gaplessAdvance, lifecycle, audio, reading, tp, cur, valid, ui>>

PlayUnarm(w) == pc[w] = "unarm" /\ UnarmAndInterrupt(w, "commit")

BadPlayCommitUnlocked(w) == TRUE
SpeakerGranted(w) == SpeakerFree

BadUnpaused == paused' = FALSE /\ UNCHANGED ctrlPaused
Unpaused == paused' = FALSE /\ ctrlPaused' = FALSE

PlayCommit(w) ==
  /\ pc[w] = "commit" /\ SpeakerGranted(w)
  /\ Replace(tp[w])
  /\ Close({current, nextPipeline})
  /\ current' = tp[w] /\ nextPipeline' = None
  /\ gaplessAdvance' = FALSE
  /\ playing' = TRUE /\ Unpaused /\ started' = TRUE
  /\ lifecycle' = None
  /\ tp' = [tp EXCEPT ![w] = None]
  /\ cur' = [cur EXCEPT ![w] = None]
  /\ Go(w, "played")
  /\ UNCHANGED <<suspended, overtook, audio, reading, valid, ui>>

-----------------------------------------------------------------------------
(* PreloadForGeneration, in a worker *)

PreloadBuild(w) ==
  /\ pc[w] = "prebuild"
  /\ \/ \E x \in Unused : Build(x) /\ tp' = [tp EXCEPT ![w] = x] /\ Go(w, "arm")
     \/ Go(w, "preloaded") /\ UNCHANGED <<decoders, tp>>
  /\ UNCHANGED <<gapless, pipelines, output, gaplessAdvance, lifecycle, audio, reading, cur, valid,
                 ui>>

PreloadStillWanted(w) == valid[w]

PreloadArm(w) ==
  /\ pc[w] = "arm" /\ SpeakerFree
  /\ IF PreloadStillWanted(w)
     THEN /\ nextPipeline' = tp[w]
          /\ SetNext(tp[w])
          /\ Close({nextPipeline})
     ELSE /\ Close({tp[w]})
          /\ UNCHANGED <<nextPipeline, gapless>>
  /\ tp' = [tp EXCEPT ![w] = None]
  /\ Go(w, "preloaded")
  /\ UNCHANGED <<current, output, gaplessAdvance, lifecycle, audio, reading, cur, valid, ui>>

-----------------------------------------------------------------------------
(* Seek, in a worker: a prepared ffmpeg seek or a yt-dlp restart *)

BadSeekDone(w) == Go(w, "seek") /\ cur' = [cur EXCEPT ![w] = None]

SeekDone(w) == Go(w, "sought") /\ cur' = [cur EXCEPT ![w] = None]

SeekSnapshot(w) ==
  /\ pc[w] = "seek"
  /\ IF current \in Ffmpeg \cup Ytdl
     THEN /\ cur' = [cur EXCEPT ![w] = current]
          /\ valid' = [valid EXCEPT ![w] = TRUE]
          /\ Go(w, IF current \in Ytdl THEN "mute" ELSE "prepared")
     ELSE SeekDone(w) /\ UNCHANGED valid
  /\ UNCHANGED <<gapless, pipelines, output, gaplessAdvance, decoders, lifecycle, audio, reading, tp,
                 ui>>

BadSeekUnchecked(w) == TRUE

(* The pipeline that is to seek still plays, and no newer seek replaced it. *)
SeekStillWanted(w) == current = cur[w] /\ valid[w]

(* commitPreparedSeek up to the speaker lock; a failed preparation ends here. *)
SeekInterrupt(w) ==
  /\ pc[w] = "prepared"
  /\ \/ /\ lifecycle = None
        /\ SeekStillWanted(w)
        /\ lifecycle' = w
        /\ SetNext(None)
        /\ Interrupt(cur[w])
        /\ Go(w, "commitSeek")
        /\ UNCHANGED cur
     \/ /\ SeekDone(w)
        /\ UNCHANGED <<lifecycle, gapless, decoders>>
  /\ UNCHANGED <<pipelines, output, gaplessAdvance, audio, reading, tp, valid, ui>>

BadRenewed(w) == UNCHANGED decoders

(* The decoder continues with the prepared process; the preload is dropped. *)
Renewed(w) ==
  /\ open' = open \ {nextPipeline}
  /\ finished' = finished \ {cur[w], nextPipeline}
  /\ cut' = cut \ {cur[w], nextPipeline}

SeekCommit(w) ==
  /\ pc[w] = "commitSeek" /\ SpeakerFree
  /\ lifecycle' = None
  /\ SeekDone(w)
  /\ IF SeekStillWanted(w)
     THEN /\ Renewed(w)
          /\ nextPipeline' = None
          /\ Replace(cur[w])
          /\ gaplessAdvance' = FALSE
          /\ valid' = [v \in Workers |-> valid[v] /\ cur[v] # cur[w]]
     ELSE UNCHANGED <<decoders, nextPipeline, gapless, gaplessAdvance, valid>>
  /\ UNCHANGED <<current, output, audio, reading, tp, ui>>

(* muteYTDLSeekSource *)
YTDLMute(w) ==
  /\ pc[w] = "mute" /\ SpeakerFree
  /\ IF SeekStillWanted(w)
     THEN /\ Replace(None)
          /\ gaplessAdvance' = FALSE
          /\ Go(w, "rebuild")
          /\ UNCHANGED cur
     ELSE SeekDone(w) /\ UNCHANGED <<gapless, gaplessAdvance>>
  /\ UNCHANGED <<pipelines, output, decoders, lifecycle, audio, reading, tp, valid, ui>>

YTDLRebuild(w) ==
  /\ pc[w] = "rebuild"
  /\ \/ \E x \in Unused \cap Ytdl : Build(x) /\ tp' = [tp EXCEPT ![w] = x] /\ Go(w, "commitYTDL")
     \/ Go(w, "restore") /\ UNCHANGED <<decoders, tp>>
  /\ UNCHANGED <<gapless, pipelines, output, gaplessAdvance, lifecycle, audio, reading, cur, valid,
                 ui>>

YTDLCommit(w) ==
  /\ pc[w] = "commitYTDL" /\ SpeakerFree
  /\ IF SeekStillWanted(w)
     THEN /\ Replace(tp[w])
          /\ gaplessAdvance' = FALSE
          /\ current' = tp[w] /\ nextPipeline' = None
          /\ Close({current, nextPipeline})
     ELSE /\ Close({tp[w]})
          /\ UNCHANGED <<gapless, gaplessAdvance, pipelines>>
  /\ tp' = [tp EXCEPT ![w] = None]
  /\ SeekDone(w)
  /\ UNCHANGED <<output, lifecycle, audio, reading, valid, ui>>

(* restoreYTDLSeekSource *)
YTDLRestore(w) ==
  /\ pc[w] = "restore" /\ SpeakerFree
  /\ IF SeekStillWanted(w)
     THEN Replace(cur[w]) /\ gaplessAdvance' = FALSE
     ELSE UNCHANGED <<gapless, gaplessAdvance>>
  /\ SeekDone(w)
  /\ UNCHANGED <<pipelines, output, decoders, lifecycle, audio, reading, tp, valid, ui>>

-----------------------------------------------------------------------------
(* The UI goroutine (ui/model), one message at a time.  A call of several  *)
(* steps keeps pc[UI] off "idle"; after says what it is part of: a start   *)
(* ("play"), a gapless advance ("advance"), stopPlayback ("stop"), a bare  *)
(* Stop or ClearPreload ("bare").                                          *)

Starting  == {"build", "lock", "unarm", "commit", "played"}
Preloads  == {"prebuild", "arm", "preloaded"}
YTDLSeeks == {"mute", "rebuild", "commitYTDL", "restore"}

UIIdle == pc[UI] = "idle"
IdleWorker == {w \in Workers : pc[w] = "idle"}

(* Moving a generation on leaves the workers at these steps outdated. *)
Outdated(steps) == valid' = [w \in Workers |-> valid[w] /\ pc[w] \notin steps]

BadPreloadsKept == UNCHANGED valid
PreloadsRejected == Outdated(Preloads)

UIGoes(step, purpose) == Go(UI, step) /\ after' = purpose

(* preloadNext when it arms something: BeginPreload and a worker. *)
Preloading(w) ==
  /\ valid' = [v \in Workers |-> v = w \/ (valid[v] /\ pc[v] \notin Preloads)]
  /\ preloading' = w
  /\ dropped' = FALSE

(* playTrack of a track that opens in a worker: CancelSeekYTDL, and the    *)
(* model's own resets, here; SetPlaybackGeneration and ClearPreload next.  *)
RequestPlay ==
  /\ UIIdle /\ IdleWorker # {}
  /\ UIGoes("setGen", "play")
  /\ Outdated(YTDLSeeks)
  /\ preloading' = None /\ seeking' = None
  /\ UNCHANGED <<gapless, pipelines, output, gaplessAdvance, decoders, lifecycle, audio, reading, tp,
                 cur, buffering, dropped>>

(* The tick hears of a gapless transition: the next track becomes the      *)
(* playing one (beginPlaybackTrack), or the queue has ended.               *)
PollAdvance ==
  /\ UIIdle /\ gaplessAdvance
  /\ gaplessAdvance' = FALSE
  /\ \/ /\ UIGoes("setGen", "advance")
        /\ Outdated(YTDLSeeks)
        /\ preloading' = None /\ seeking' = None
     \/ UIGoes("setGen", "stop") /\ UNCHANGED <<valid, preloading, seeking>>
  /\ UNCHANGED <<gapless, pipelines, output, decoders, lifecycle, audio, reading, tp, cur, buffering,
                 dropped>>

StopPlayback ==
  /\ UIIdle
  /\ UIGoes("setGen", "stop")
  /\ UNCHANGED <<gapless, pipelines, output, gaplessAdvance, decoders, lifecycle, audio, reading, tp,
                 cur, valid, buffering, preloading, seeking, dropped>>

BareStop ==
  /\ UIIdle
  /\ UIGoes("stopLock", "bare")
  /\ UNCHANGED <<gapless, pipelines, output, gaplessAdvance, decoders, lifecycle, audio, reading, tp,
                 cur, valid, buffering, preloading, seeking, dropped>>

(* dropStalePreload *)
DropPreload ==
  /\ UIIdle
  /\ preloading # None \/ nextPipeline # None
  /\ UIGoes("clearNext", "bare")
  /\ preloading' = None
  /\ UNCHANGED <<gapless, pipelines, output, gaplessAdvance, decoders, lifecycle, audio, reading, tp,
                 cur, valid, buffering, seeking, dropped>>

SetPlaybackGeneration ==
  /\ pc[UI] = "setGen" /\ lifecycle = None
  /\ Outdated(Starting)
  /\ Go(UI, IF after = "stop" THEN "stopLock" ELSE "clearNext")
  /\ UNCHANGED <<gapless, pipelines, output, gaplessAdvance, decoders, lifecycle, audio, reading, tp,
                 cur, ui>>

(* ClearPreload up to the unlock of the speaker ... *)
ClearNext ==
  /\ pc[UI] = "clearNext" /\ SpeakerFree
  /\ PreloadsRejected
  /\ SetNext(None)
  /\ Go(UI, "closeNext")
  /\ UNCHANGED <<pipelines, output, gaplessAdvance, decoders, lifecycle, audio, reading, tp, cur, ui>>

(* ... and the rest of it; a start then goes to a worker, and after an     *)
(* advance the next preload may.                                           *)
CloseNext ==
  /\ pc[UI] = "closeNext"
  /\ Close({nextPipeline})
  /\ nextPipeline' = None
  /\ \/ /\ after = "play"
        /\ \E w \in IdleWorker :
             /\ pc' = [pc EXCEPT ![UI] = "idle", ![w] = "build"]
             /\ valid' = [valid EXCEPT ![w] = TRUE]
        /\ buffering' = TRUE
        /\ dropped' = TRUE /\ UNCHANGED preloading
     \/ /\ after # "play"
        /\ Go(UI, "idle")
        /\ dropped' = TRUE /\ UNCHANGED <<valid, buffering, preloading>>
     \/ /\ after = "advance"
        /\ \E w \in IdleWorker :
             Preloading(w) /\ pc' = [pc EXCEPT ![UI] = "idle", ![w] = "prebuild"]
        /\ UNCHANGED buffering
  /\ after' = None
  /\ UNCHANGED <<gapless, current, output, gaplessAdvance, lifecycle, audio, reading, tp, cur, seeking>>

(* Stop *)
StopLock ==
  /\ pc[UI] = "stopLock" /\ lifecycle = None
  /\ PreloadsRejected
  /\ lifecycle' = UI
  /\ cur' = [cur EXCEPT ![UI] = current]
  /\ Go(UI, "stopUnarm")
  /\ UNCHANGED <<gapless, pipelines, output, gaplessAdvance, decoders, audio, reading, tp, ui>>

StopUnarm == pc[UI] = "stopUnarm" /\ UnarmAndInterrupt(UI, "stopCommit")

StopCommit ==
  /\ pc[UI] = "stopCommit" /\ SpeakerFree
  /\ Replace(None)
  /\ Close({current, nextPipeline})
  /\ current' = None /\ nextPipeline' = None
  /\ gaplessAdvance' = FALSE
  /\ playing' = FALSE /\ paused' = FALSE /\ ctrlPaused' = started
  /\ lifecycle' = None
  /\ cur' = [cur EXCEPT ![UI] = None]
  /\ dropped' = TRUE
  /\ Go(UI, "suspend")
  /\ UNCHANGED <<started, suspended, overtook, audio, reading, tp, valid, after, buffering, preloading,
                 seeking>>

(* It suspends without a lock: a start that a bare Stop leaves valid may   *)
(* have resumed the speaker since, or even play.                           *)
StopSuspend ==
  /\ pc[UI] = "suspend"
  /\ suspended' = TRUE
  /\ overtook' = (after = "bare" /\ (playing \/ \E w \in Workers : pc[w] \in {"unarm", "commit"}))
  /\ IF after = "stop" THEN buffering' = FALSE /\ seeking' = None ELSE UNCHANGED <<buffering, seeking>>
  /\ UIGoes("idle", None)
  /\ UNCHANGED <<gapless, pipelines, playing, paused, ctrlPaused, started, gaplessAdvance, decoders,
                 lifecycle, audio, reading, tp, cur, valid, preloading, dropped>>

(* TogglePause under the speaker lock; then the flag the UI reads and the  *)
(* speaker follow what was written there.                                  *)
TogglePause ==
  /\ UIIdle /\ ~buffering /\ playing /\ SpeakerFree
  /\ ctrlPaused' = ~ctrlPaused
  /\ Go(UI, IF ctrlPaused THEN "resume" ELSE "pause")
  /\ UNCHANGED <<gapless, pipelines, playing, paused, started, suspended, overtook, gaplessAdvance,
                 decoders, lifecycle, audio, reading, tp, cur, valid, ui>>

FollowPause ==
  /\ pc[UI] \in {"pause", "resume"}
  /\ paused' = (pc[UI] = "pause")
  /\ suspended' = (pc[UI] = "pause")
  /\ overtook' = FALSE
  /\ Go(UI, "idle")
  /\ UNCHANGED <<gapless, pipelines, playing, ctrlPaused, started, gaplessAdvance, decoders,
                 lifecycle, audio, reading, tp, cur, valid, ui>>

(* Seek of a decoder that seeks in place. *)
NativeSeek ==
  /\ UIIdle /\ lifecycle = None /\ SpeakerFree
  /\ current \in Pipes \ (Ffmpeg \cup Ytdl)
  /\ SetNext(None)
  /\ nextPipeline' = None
  /\ open' = open \ {nextPipeline}
  /\ finished' = finished \ {current, nextPipeline}
  /\ cut' = cut \ {nextPipeline}
  /\ UNCHANGED <<current, output, gaplessAdvance, lifecycle, audio, reading, locals, ui>>

(* rearmStalePreload and tickPreloadRetry *)
BeginPreload ==
  /\ UIIdle /\ playing /\ ~buffering /\ preloading = None /\ nextPipeline = None
  /\ \E w \in IdleWorker : Preloading(w) /\ Go(w, "prebuild")
  /\ UNCHANGED <<gapless, pipelines, output, gaplessAdvance, decoders, lifecycle, audio, reading, tp,
                 cur, after, buffering, seeking>>

(* A seek keypress outdates the yt-dlp seeks; one seek runs at a time. *)
CancelSeekYTDL ==
  /\ UIIdle /\ current \in Ytdl
  /\ Outdated(YTDLSeeks)
  /\ UNCHANGED <<gapless, pipelines, output, gaplessAdvance, decoders, lifecycle, audio, reading,
                 pc, tp, cur, ui>>

StartSeek ==
  /\ UIIdle /\ seeking = None
  /\ current \in Ffmpeg \cup Ytdl
  /\ \E w \in IdleWorker : Go(w, "seek") /\ seeking' = w
  /\ UNCHANGED <<gapless, pipelines, output, gaplessAdvance, decoders, lifecycle, audio, reading, tp,
                 cur, valid, after, buffering, preloading, dropped>>

(* reconnectYTDLOnUnpause seeks without regard to a seek under way. *)
ReconnectYTDL ==
  /\ UIIdle /\ playing /\ paused /\ ~buffering
  /\ current \in Ytdl
  /\ \E w \in IdleWorker : Go(w, "seek")
  /\ Outdated(YTDLSeeks)
  /\ UNCHANGED <<gapless, pipelines, output, gaplessAdvance, decoders, lifecycle, audio, reading, tp,
                 cur, ui>>

(* The messages of workers that are done; an outdated start is ignored.    *)
(* The goroutine that is free then takes the next command.                 *)
HandleStreamPlayed(w) ==
  /\ UIIdle /\ pc[w] = "played"
  /\ buffering' = (buffering /\ ~valid[w])
  /\ \/ /\ Go(w, "idle")
        /\ valid' = [valid EXCEPT ![w] = FALSE]
        /\ UNCHANGED <<preloading, dropped>>
     \/ valid[w] /\ Preloading(w) /\ Go(w, "prebuild")
  /\ UNCHANGED <<gapless, pipelines, output, gaplessAdvance, decoders, lifecycle, audio, reading, tp,
                 cur, after, seeking>>

HandleStreamPreloaded(w) ==
  /\ UIIdle /\ pc[w] = "preloaded"
  /\ preloading' = IF preloading = w THEN None ELSE preloading
  /\ Go(w, "idle")
  /\ valid' = [valid EXCEPT ![w] = FALSE]
  /\ UNCHANGED <<gapless, pipelines, output, gaplessAdvance, decoders, lifecycle, audio, reading, tp,
                 cur, after, buffering, seeking, dropped>>

(* A seek that reports back starts the one that waits, or preloads: what   *)
(* was armed before the seek is near enough to the end to arm again.       *)
HandleSeek(w) ==
  /\ UIIdle /\ pc[w] = "sought"
  /\ \/ /\ seeking # w \/ nextPipeline = None \/ preloading # None
        /\ seeking' = IF seeking = w THEN None ELSE seeking
        /\ Go(w, "idle")
        /\ valid' = [valid EXCEPT ![w] = FALSE]
        /\ UNCHANGED <<preloading, dropped>>
     \/ seeking = w /\ Go(w, "seek") /\ UNCHANGED <<valid, seeking, preloading, dropped>>
     \/ seeking = w /\ seeking' = None /\ Preloading(w) /\ Go(w, "prebuild")
  /\ UNCHANGED <<gapless, pipelines, output, gaplessAdvance, decoders, lifecycle, audio, reading, tp,
                 cur, after, buffering>>

-----------------------------------------------------------------------------
(* New: nothing plays and the speaker is suspended. *)
Init ==
  /\ gCurrent = None /\ gNext = None /\ drained = FALSE /\ replaced = FALSE
  /\ current = None /\ nextPipeline = None
  /\ playing = FALSE /\ paused = FALSE /\ ctrlPaused = FALSE
  /\ started = FALSE /\ suspended = TRUE /\ overtook = FALSE
  /\ gaplessAdvance = FALSE
  /\ open = {} /\ finished = {} /\ cut = {}
  /\ lifecycle = None
  /\ audio = "idle" /\ reading = None
  /\ pc = [p \in Procs |-> "idle"]
  /\ tp = [w \in Procs |-> None]
  /\ cur = [p \in Procs |-> None]
  /\ valid = [w \in Workers |-> FALSE]
  /\ after = None
  /\ buffering = FALSE /\ preloading = None /\ seeking = None /\ dropped = FALSE

AudioReturns == AudioFull \/ AudioShort \/ AudioSwap

Audio == AudioRead \/ AudioReturns

Work(w) ==
  \/ PlayBuild(w) \/ PlayLock(w) \/ PlayUnarm(w) \/ PlayCommit(w)
  \/ PreloadBuild(w) \/ PreloadArm(w)
  \/ SeekSnapshot(w) \/ SeekInterrupt(w) \/ SeekCommit(w)
  \/ YTDLMute(w) \/ YTDLRebuild(w) \/ YTDLCommit(w) \/ YTDLRestore(w)

Handle(w) == HandleStreamPlayed(w) \/ HandleStreamPreloaded(w) \/ HandleSeek(w)

UIRequest ==
  \/ RequestPlay \/ PollAdvance \/ StopPlayback \/ BareStop \/ DropPreload
  \/ TogglePause \/ NativeSeek \/ BeginPreload \/ CancelSeekYTDL \/ StartSeek \/ ReconnectYTDL

UIContinues ==
  \/ SetPlaybackGeneration \/ ClearNext \/ CloseNext
  \/ StopLock \/ StopUnarm \/ StopCommit \/ StopSuspend \/ FollowPause

Next ==
  \/ Audio
  \/ \E w \in Workers : Work(w) \/ Handle(w)
  \/ UIRequest
  \/ UIContinues

Spec == Init /\ [][Next]_vars

(* Go's mutexes hand over to whoever waits long enough, hence strong       *)
(* fairness for the steps that wait for a lock, and messages are handled.  *)
Scheduling ==
  /\ \A w \in Workers : SF_vars(Work(w)) /\ SF_vars(Handle(w))
  /\ SF_vars(UIContinues)

FairSpec == Spec /\ Scheduling /\ WF_vars(AudioReturns)

(* A decoder may wait for data for good: its read only has to return once  *)
(* it is interrupted or at its end, and then it does.                      *)
StallSpec == Spec /\ Scheduling /\ WF_vars(AudioSwap) /\ WF_vars(reading \in cut \cup finished /\ AudioShort)

-----------------------------------------------------------------------------
(* Properties *)

PipeOrNone == Pipes \cup {None}

TypeOK ==
  /\ gCurrent \in PipeOrNone /\ gNext \in PipeOrNone /\ reading \in PipeOrNone
  /\ current \in PipeOrNone /\ nextPipeline \in PipeOrNone
  /\ drained \in BOOLEAN /\ replaced \in BOOLEAN /\ gaplessAdvance \in BOOLEAN
  /\ playing \in BOOLEAN /\ paused \in BOOLEAN /\ ctrlPaused \in BOOLEAN
  /\ started \in BOOLEAN /\ suspended \in BOOLEAN /\ overtook \in BOOLEAN
  /\ buffering \in BOOLEAN /\ dropped \in BOOLEAN
  /\ open \subseteq Pipes /\ finished \subseteq open /\ cut \subseteq open
  /\ lifecycle \in Procs \cup {None}
  /\ audio \in {"idle", "reading", "swapping"}
  /\ pc \in [Procs -> Starting \cup Preloads \cup YTDLSeeks \cup
               {"idle", "seek", "prepared", "commitSeek", "sought", "setGen", "clearNext", "closeNext",
                "stopLock", "stopUnarm", "stopCommit", "suspend", "pause", "resume"}]
  /\ tp \in [Procs -> PipeOrNone] /\ cur \in [Procs -> PipeOrNone]
  /\ valid \in [Workers -> BOOLEAN]
  /\ after \in {None, "play", "advance", "stop", "bare"}
  /\ preloading \in Workers \cup {None} /\ seeking \in Workers \cup {None}

(* Whenever the speaker lock is free, the gapless streamer plays and holds *)
(* the pipelines the Player thinks it does; during a read nobody changes   *)
(* what the audio goroutine reads (playPipelineForGeneration,              *)
(* preloadPipelineForGeneration, handleGaplessSwap).                       *)
AudioMatchesPlayer ==
  /\ SpeakerFree => gCurrent \in {current, None} /\ gNext \in {nextPipeline, None}
  /\ reading # None => reading = gCurrent
  /\ audio = "swapping" => reading = nextPipeline

(* No pipeline is closed while the audio goroutine can still read it.      *)
NoUseAfterClose == {gCurrent, gNext, reading} \ {None} \subseteq open

(* Every pipeline that was built is playing, armed, or in the hands of the *)
(* worker that built it: no decoder process is left behind.                *)
NoLeak == open \subseteq {current, nextPipeline} \cup {tp[w] : w \in Workers}

(* Every pipeline is closed, once nobody plays or holds it, and not before *)
(* (closePipelines and its callers).                                       *)
PipelinesSound == NoUseAfterClose /\ NoLeak

(* SetPlaybackGeneration: once a start has passed the check, no newer      *)
(* request exists until it has committed.                                  *)
NoStaleStart == \A w \in Workers : pc[w] \in {"unarm", "commit"} => valid[w]

(* A stopped player holds no source, reads none and has none to report,    *)
(* whatever was under way when it stopped (Stop, commitYTDLSeek,           *)
(* commitPreparedSeek).  A next stream may be armed: a start that failed   *)
(* preloads too, but without a source nothing advances to it.              *)
SilentAfterStop ==
  ~playing => {gCurrent, current, reading} = {None} /\ ~gaplessAdvance

(* A preload that was in flight when the queue changed can never be armed  *)
(* afterwards (ClearPreload, Stop).                                        *)
ClearedStaysCleared == dropped => gNext = None /\ nextPipeline = None

(* What a newer request, a stop or an edit of the queue has overtaken      *)
(* never takes effect, neither as a start nor as a preload                 *)
(* (playPipelineForGeneration, preloadPipelineForGeneration).              *)
OvertakenNeverLands == NoStaleStart /\ ClearedStaysCleared

(* Between calls, what the UI shows and what the audio callback does agree *)
(* (TogglePause, Stop, playPipelineForGeneration), and so does the         *)
(* suspension of the speaker, but for one case: a Stop without a new       *)
(* generation while a start is under way (update.go:737,                   *)
(* artist_screen.go:212) may suspend what the start has resumed, which     *)
(* lasts until the next pause, resumption or start (PlayingIsAudible).     *)
PauseInSync ==
  UIIdle /\ lifecycle = None /\ playing => paused = ctrlPaused /\ (suspended = paused \/ overtook)

(* Where a worker waits for the UI to handle its message, and where both   *)
(* wait for something to do.                                               *)
Returned == {"idle", "played", "preloaded", "sought"}

(* Every call of the UI and every command of a worker returns, whatever    *)
(* the others do: no deadlock of the speaker lock, lifecycleMu and p.mu,   *)
(* no endless retry.                                                       *)
EveryCallReturns == \A p \in Procs : []<>(pc[p] \in Returned)

Quiet == UIIdle /\ SpeakerFree /\ \A w \in Workers : pc[w] = "idle"

(* HasPreload: "returns true if a next track is already queued for gapless *)
(* transition" (player.go:847).  Refuted: a yt-dlp seek that mutes the     *)
(* source and then fails leaves nextPipeline without its stream.           *)
HasPreloadIsQueued == Quiet /\ nextPipeline # None => gNext = nextPipeline

(* "Prevent interruption-driven EOF from advancing to a stale preload"     *)
(* (player.go:544).  Refuted: a preload may be armed between the interrupt *)
(* and the speaker lock.                                                   *)
InterruptNeverAdvances == [][audio = "reading" /\ reading \in cut => audio' # "swapping"]_vars

(* Drained: "true if the current track ended with no preloaded next track" *)
(* (player.go:842), as tickDrain reads it.  Refuted: the read that a seek  *)
(* interrupts reports the same.                                            *)
DrainedMeansEnded ==
  UIIdle /\ playing /\ ~paused /\ ~buffering /\ drained => current \in finished

(* GaplessAdvanced: "returns true (once) when a gapless transition         *)
(* happened" (player.go:381); a start or a stop makes it moot.  Refuted: a *)
(* seek that commits after the transition clears the flag unread.          *)
AdvanceIsHeard ==
  [][gaplessAdvance /\ ~gaplessAdvance' => PollAdvance \/ current' # current]_vars

(* buffering: "true while HTTP connect is in progress" (model.go:450).     *)
(* Refuted: the tick that hears of a transition made before a new start    *)
(* outdates that start, whose answer is then ignored: buffering stays.     *)
BufferingEnds ==
  UIIdle /\ buffering => \E w \in Workers : pc[w] \in Starting

(* "Resume is called automatically on the next track start"                *)
(* (player.go:408).  Refuted where Stop is called without a new generation *)
(* while a start is under way: its Suspend may follow the start's Resume.  *)
PlayingIsAudible == UIIdle /\ lifecycle = None /\ playing /\ ~paused => ~suspended

(* "Interrupt it first so source replacement can acquire the mutex"        *)
(* (player.go:252), Stop's reason too.  Refuted: a transition between the  *)
(* snapshot of current and the interrupt leaves the wrong decoder cut.     *)
StopReturns == pc[UI] = "stopUnarm" ~> pc[UI] = "idle"

=============================================================================
