---------------------------- MODULE PlayerProofs ----------------------------
(***************************************************************************)
(* What the engine promises at any number of pipelines and workers: what a *)
(* newer request has overtaken has no effect, the audio goroutine and the  *)
(* Player agree on what plays, no pipeline is used after its Close or left *)
(* behind, a stopped engine is silent, and pause and suspension agree      *)
(* unless a bare Stop suspended what a start under way had resumed.        *)
(*                                                                         *)
(* The properties lean on one another.  That the audio goroutine reads an  *)
(* open pipeline follows from what it reads being current, which holds     *)
(* because a pipeline has one owner at a time, which needs the worker that *)
(* commits to have one, which follows from the step it is at.              *)
(*                                                                         *)
(* The second half is about the TUI that drives the engine, Playback.tla,  *)
(* for any list of tracks of any kind: what it announces is what plays,    *)
(* what it has armed is what it goes on to, the queue does not stall, and  *)
(* a provider hears of the plays in their order.                           *)
(* Update handles one message at a time, and a handler is a chain of       *)
(* helpers, so each helper has a lemma on what it makes of a sound state.  *)
(***************************************************************************)
EXTENDS Player, MCPlayback, TLAPS

-----------------------------------------------------------------------------
(* The invariant *)

WorkerSteps == Starting \cup Preloads \cup YTDLSeeks
                 \cup {"idle", "seek", "prepared", "commitSeek", "sought"}
UISteps == {"idle", "setGen", "clearNext", "closeNext", "stopLock", "stopUnarm", "stopCommit",
            "suspend", "pause", "resume"}

Steps == WorkerSteps \cup UISteps

(* The types, in the parts the steps disturb together. *)
PipeTypes ==
  /\ gCurrent \in PipeOrNone /\ gNext \in PipeOrNone /\ reading \in PipeOrNone
  /\ current \in PipeOrNone /\ nextPipeline \in PipeOrNone
FlagTypes ==
  /\ drained \in BOOLEAN /\ replaced \in BOOLEAN /\ gaplessAdvance \in BOOLEAN
  /\ playing \in BOOLEAN /\ paused \in BOOLEAN /\ ctrlPaused \in BOOLEAN
  /\ started \in BOOLEAN /\ suspended \in BOOLEAN /\ overtook \in BOOLEAN
  /\ buffering \in BOOLEAN /\ dropped \in BOOLEAN
DecoderTypes ==
  /\ open \subseteq Pipes /\ finished \subseteq open /\ cut \subseteq open
LocalTypes ==
  /\ pc \in [Procs -> Steps]
  /\ tp \in [Procs -> PipeOrNone] /\ cur \in [Procs -> PipeOrNone]
ValidTypes == valid \in [Workers -> BOOLEAN]
UITypes ==
  /\ lifecycle \in Procs \cup {None}
  /\ audio \in {"idle", "reading", "swapping"}
  /\ after \in {None, "play", "advance", "stop", "bare"}
  /\ preloading \in Workers \cup {None} /\ seeking \in Workers \cup {None}

Types == PipeTypes /\ FlagTypes /\ DecoderTypes /\ LocalTypes /\ ValidTypes /\ UITypes

Building == {"lock", "unarm", "commit", "arm", "commitYTDL"}     \* owns a new pipeline
Sought == {"prepared", "commitSeek"} \cup YTDLSeeks              \* seeks in cur
Committing == {"unarm", "commit", "commitSeek"}                  \* holds lifecycleMu

(* What a process holds follows from the step it is at. *)
LocalInv ==
  /\ pc[UI] \in UISteps
  /\ pc[UI] \in {"stopUnarm", "stopCommit"} => lifecycle = UI
  /\ \A w \in Workers :
       /\ pc[w] \in WorkerSteps
       /\ pc[w] \in Committing => lifecycle = w
       /\ pc[w] \in Sought => cur[w] \in Pipes
       /\ pc[w] \in Building <=> tp[w] # None

(* Each open pipeline has one owner: it plays, it is armed, or it is in    *)
(* the hands of the worker that built it.                                  *)
OwnerInv ==
  /\ current # None => current \in open /\ current # nextPipeline
  /\ nextPipeline # None => nextPipeline \in open
  /\ \A w \in Workers : tp[w] # None =>
       /\ tp[w] \in open \ {current, nextPipeline}
       /\ \A v \in Workers : tp[v] = tp[w] => v = w
  /\ NoLeak

(* The streams of the audio goroutine are pipelines of the Player: the     *)
(* current one, or the armed one from the end of a read to the swap.       *)
AudioInv ==
  /\ ~replaced
  /\ gNext \in {nextPipeline, None}
  /\ audio = "idle" => reading = None /\ gCurrent \in {current, None}
  /\ audio = "reading" => reading = gCurrent /\ gCurrent = current /\ current # None
  /\ audio = "swapping" =>
       reading = gCurrent /\ gCurrent = nextPipeline /\ nextPipeline # None /\ gNext = None
  /\ pc[UI] = "closeNext" => gNext = None /\ audio # "swapping"

(* A start that has passed its check is the newest request; a preload that *)
(* was in flight when the armed one was dropped is not.                    *)
Rejecting == dropped \/ pc[UI] \in {"closeNext", "stopUnarm", "stopCommit"}
WantedInv ==
  /\ NoStaleStart
  /\ Rejecting => \A w \in Workers : pc[w] \in Preloads => ~valid[w]
  /\ dropped => nextPipeline = None

(* A Player that does not play has no source: nothing can swap or start.  *)
SilenceInv == ~playing => gCurrent = None /\ current = None /\ ~gaplessAdvance

PlayerInv == Types /\ LocalInv /\ OwnerInv /\ AudioInv /\ WantedInv /\ SilenceInv

(* Pause and suspension.  A start is under way until the UI has its answer *)
(* or makes a newer request; meanwhile the UI neither pauses nor resumes,  *)
(* and stops only with a bare Stop.                                        *)
UnderWay(w) == valid[w] /\ pc[w] \in Starting
Committed == \A w \in Workers : pc[w] \notin {"unarm", "commit"}

PauseInv ==
  /\ \A w \in Workers : UnderWay(w) =>
       /\ buffering
       /\ pc[UI] \notin {"pause", "resume"}
       /\ pc[UI] \in {"stopLock", "stopUnarm", "stopCommit", "suspend"} => after = "bare"
       /\ pc[UI] \in {"clearNext", "closeNext"} => after # "play"
       /\ \A v \in Workers : UnderWay(v) => v = w
  /\ ~Committed => ~suspended \/ overtook
  /\ pc[UI] = "suspend" /\ playing => after = "bare"
  /\ pc[UI] = "pause" => ctrlPaused
  /\ pc[UI] = "resume" => ~ctrlPaused
  /\ playing /\ Committed /\ pc[UI] \notin {"pause", "resume"} =>
       paused = ctrlPaused /\ (suspended = paused \/ overtook)

-----------------------------------------------------------------------------
(* The invariant holds of every state, one part after the other.           *)

USE KindsAssumption, NamesAssumption
USE DEF UI, Procs, gapless, pipelines, output, decoders, locals, ui, Go, PipeOrNone, SpeakerFree

(* New: nothing is built, played or asked for. *)
LEMMA InitInv == Init => PlayerInv /\ PauseInv
<1> SUFFICES ASSUME Init PROVE PlayerInv /\ PauseInv
  OBVIOUS
<1> USE DEF Init, Starting, Preloads, YTDLSeeks
<1>1. Types
  BY DEF Types, PipeTypes, FlagTypes, DecoderTypes, LocalTypes, ValidTypes, UITypes, Steps,
         WorkerSteps, UISteps
<1>2. LocalInv
  BY DEF LocalInv, WorkerSteps, UISteps, Building, Sought, Committing
<1>3. OwnerInv /\ AudioInv
  BY DEF OwnerInv, NoLeak, AudioInv
<1>4. WantedInv /\ SilenceInv
  BY DEF WantedInv, NoStaleStart, Rejecting, SilenceInv
<1>5. PauseInv
  BY DEF PauseInv, UnderWay, Committed
<1> QED BY <1>1, <1>2, <1>3, <1>4, <1>5 DEF PlayerInv

(* The names of the steps. *)
LEMMA StepNames ==
  /\ "idle" \in Steps /\ "played" \in Steps /\ "preloaded" \in Steps /\ "sought" \in Steps
  /\ "build" \in Steps /\ "lock" \in Steps /\ "unarm" \in Steps /\ "commit" \in Steps
  /\ "prebuild" \in Steps /\ "arm" \in Steps
  /\ "seek" \in Steps /\ "prepared" \in Steps /\ "commitSeek" \in Steps
  /\ "mute" \in Steps /\ "rebuild" \in Steps /\ "commitYTDL" \in Steps /\ "restore" \in Steps
  /\ "setGen" \in Steps /\ "clearNext" \in Steps /\ "closeNext" \in Steps
  /\ "stopLock" \in Steps /\ "stopUnarm" \in Steps /\ "stopCommit" \in Steps
  /\ "suspend" \in Steps /\ "pause" \in Steps /\ "resume" \in Steps
BY DEF Steps, WorkerSteps, UISteps, Starting, Preloads, YTDLSeeks

(* The streams and pipelines that are kept are pipelines of the engine.    *)
LEMMA PipeTypesStep == ASSUME PlayerInv, [Next]_vars PROVE PipeTypes'
<1> USE DEF PlayerInv, Types, LocalTypes, PipeTypes
<1>1. ASSUME NEW w \in Workers, PlayBuild(w) \/ PlayLock(w) \/ PlayUnarm(w) \/ PlayCommit(w) PROVE
      PipeTypes'
  BY <1>1 DEF PlayBuild, Unused, Build, PlayLock, Resumed, StartStillWanted, Close, PlayUnarm,
      UnarmAndInterrupt, SetNext, Interrupt, PlayCommit, SpeakerGranted, Replace, Unpaused
<1>2. ASSUME NEW w \in Workers, PreloadBuild(w) \/ PreloadArm(w) PROVE PipeTypes'
  BY <1>2 DEF PreloadBuild, Unused, Build, PreloadArm, PreloadStillWanted, SetNext, Close
<1>3. ASSUME NEW w \in Workers, SeekSnapshot(w) \/ SeekInterrupt(w) \/ SeekCommit(w) PROVE
      PipeTypes'
  BY <1>3 DEF SeekSnapshot, SeekDone, SeekInterrupt, SeekStillWanted, SetNext, Interrupt,
      SeekCommit, Renewed, Replace
<1>4. ASSUME NEW w \in Workers, YTDLMute(w) \/ YTDLRebuild(w) \/ YTDLCommit(w) \/ YTDLRestore(w)
      PROVE PipeTypes'
  BY <1>4 DEF YTDLMute, SeekStillWanted, Replace, SeekDone, YTDLRebuild, Unused, Build, YTDLCommit,
      Close, YTDLRestore
<1>5. ASSUME NEW w \in Workers, HandleStreamPlayed(w) \/ HandleStreamPreloaded(w) \/ HandleSeek(w)
      PROVE PipeTypes'
  BY <1>5 DEF HandleStreamPlayed, UIIdle, Preloading, HandleStreamPreloaded, HandleSeek, Preloads
<1>6. CASE AudioRead \/ AudioFull \/ AudioShort \/ AudioSwap
  BY <1>6 DEF AudioRead, AudioFull, AudioShort, AudioSwap, Adopted, Close
<1>7. CASE RequestPlay \/ PollAdvance \/ StopPlayback \/ BareStop \/ DropPreload
  BY <1>7 DEF RequestPlay, UIIdle, IdleWorker, UIGoes, Outdated, PollAdvance, StopPlayback,
      BareStop, DropPreload, YTDLSeeks
<1>8. CASE TogglePause \/ NativeSeek \/ BeginPreload \/ CancelSeekYTDL \/ StartSeek \/ ReconnectYTDL
  BY <1>8 DEF TogglePause, UIIdle, NativeSeek, SetNext, BeginPreload, IdleWorker, Preloading,
      CancelSeekYTDL, Outdated, StartSeek, ReconnectYTDL, Preloads, YTDLSeeks
<1>9. CASE SetPlaybackGeneration \/ ClearNext \/ CloseNext
  BY <1>9 DEF SetPlaybackGeneration, Outdated, ClearNext, PreloadsRejected, SetNext, CloseNext,
      Close, IdleWorker, Preloading, Starting, Preloads
<1>10. CASE StopLock \/ StopUnarm \/ StopCommit \/ StopSuspend \/ FollowPause
  BY <1>10 DEF StopLock, PreloadsRejected, Outdated, StopUnarm, UnarmAndInterrupt, SetNext,
      Interrupt, StopCommit, Replace, Close, StopSuspend, UIGoes, FollowPause, Preloads
<1>11. CASE UNCHANGED vars
  BY <1>11 DEF vars
<1> QED BY <1>1, <1>2, <1>3, <1>4, <1>5, <1>6, <1>7, <1>8, <1>9, <1>10, <1>11 DEF Next, Audio,
    AudioReturns, Work, Handle, UIRequest, UIContinues

(* The flags stay Boolean.                                                 *)
LEMMA FlagTypesStep == ASSUME PlayerInv, [Next]_vars PROVE FlagTypes'
<1> USE DEF PlayerInv, Types, ValidTypes, FlagTypes
<1>1. ASSUME NEW w \in Workers, PlayBuild(w) \/ PlayLock(w) \/ PlayUnarm(w) \/ PlayCommit(w) PROVE
      FlagTypes'
  <2>1. CASE PlayBuild(w)
    BY <2>1 DEF PlayBuild
  <2>2. CASE PlayLock(w)
    BY <2>2 DEF PlayLock, Resumed
  <2>3. CASE PlayUnarm(w)
    BY <2>3 DEF PlayUnarm, UnarmAndInterrupt, SetNext
  <2>4. CASE PlayCommit(w)
    BY <2>4 DEF PlayCommit, Replace, Unpaused
  <2> QED BY <1>1, <2>1, <2>2, <2>3, <2>4
<1>2. ASSUME NEW w \in Workers, PreloadBuild(w) \/ PreloadArm(w) PROVE FlagTypes'
  BY <1>2 DEF PreloadBuild, PreloadArm, SetNext
<1>3. ASSUME NEW w \in Workers, SeekSnapshot(w) \/ SeekInterrupt(w) \/ SeekCommit(w) PROVE
      FlagTypes'
  <2>1. CASE SeekSnapshot(w)
    BY <2>1 DEF SeekSnapshot
  <2>2. CASE SeekInterrupt(w)
    BY <2>2 DEF SeekInterrupt, SetNext
  <2>3. CASE SeekCommit(w)
    BY <2>3 DEF SeekCommit, Replace
  <2> QED BY <1>3, <2>1, <2>2, <2>3
<1>4. ASSUME NEW w \in Workers, YTDLMute(w) \/ YTDLRebuild(w) \/ YTDLCommit(w) \/ YTDLRestore(w)
      PROVE FlagTypes'
  <2>1. CASE YTDLMute(w)
    BY <2>1 DEF YTDLMute, Replace
  <2>2. CASE YTDLRebuild(w)
    BY <2>2 DEF YTDLRebuild
  <2>3. CASE YTDLCommit(w)
    BY <2>3 DEF YTDLCommit, Replace
  <2>4. CASE YTDLRestore(w)
    BY <2>4 DEF YTDLRestore, Replace
  <2> QED BY <1>4, <2>1, <2>2, <2>3, <2>4
<1>5. ASSUME NEW w \in Workers, HandleStreamPlayed(w) \/ HandleStreamPreloaded(w) \/ HandleSeek(w)
      PROVE FlagTypes'
  <2>1. CASE HandleStreamPlayed(w)
    BY <2>1 DEF HandleStreamPlayed, Preloading
  <2>2. CASE HandleStreamPreloaded(w)
    BY <2>2 DEF HandleStreamPreloaded
  <2>3. CASE HandleSeek(w)
    BY <2>3 DEF HandleSeek, Preloading
  <2> QED BY <1>5, <2>1, <2>2, <2>3
<1>6. CASE AudioRead \/ AudioFull \/ AudioShort \/ AudioSwap
  <2>1. CASE AudioRead
    BY <2>1 DEF AudioRead
  <2>2. CASE AudioFull
    BY <2>2 DEF AudioFull
  <2>3. CASE AudioShort
    BY <2>3 DEF AudioShort
  <2>4. CASE AudioSwap
    BY <2>4 DEF AudioSwap
  <2> QED BY <1>6, <2>1, <2>2, <2>3, <2>4
<1>7. CASE RequestPlay \/ PollAdvance \/ StopPlayback \/ BareStop \/ DropPreload
  <2>1. CASE RequestPlay
    BY <2>1 DEF RequestPlay
  <2>2. CASE PollAdvance
    BY <2>2 DEF PollAdvance
  <2>3. CASE StopPlayback
    BY <2>3 DEF StopPlayback
  <2>4. CASE BareStop
    BY <2>4 DEF BareStop
  <2>5. CASE DropPreload
    BY <2>5 DEF DropPreload
  <2> QED BY <1>7, <2>1, <2>2, <2>3, <2>4, <2>5
<1>8. CASE TogglePause \/ NativeSeek \/ BeginPreload \/ CancelSeekYTDL \/ StartSeek \/ ReconnectYTDL
  <2>1. CASE TogglePause
    BY <2>1 DEF TogglePause
  <2>2. CASE NativeSeek
    BY <2>2 DEF NativeSeek, SetNext
  <2>3. CASE BeginPreload
    BY <2>3 DEF BeginPreload, Preloading
  <2>4. CASE CancelSeekYTDL
    BY <2>4 DEF CancelSeekYTDL
  <2>5. CASE StartSeek
    BY <2>5 DEF StartSeek
  <2>6. CASE ReconnectYTDL
    BY <2>6 DEF ReconnectYTDL
  <2> QED BY <1>8, <2>1, <2>2, <2>3, <2>4, <2>5, <2>6
<1>9. CASE SetPlaybackGeneration \/ ClearNext \/ CloseNext
  <2>1. CASE SetPlaybackGeneration
    BY <2>1 DEF SetPlaybackGeneration
  <2>2. CASE ClearNext
    BY <2>2 DEF ClearNext, SetNext
  <2>3. CASE CloseNext
    BY <2>3 DEF CloseNext, Preloading
  <2> QED BY <1>9, <2>1, <2>2, <2>3
<1>10. CASE StopLock \/ StopUnarm \/ StopCommit \/ StopSuspend \/ FollowPause
  <2>1. CASE StopLock
    BY <2>1 DEF StopLock
  <2>2. CASE StopUnarm
    BY <2>2 DEF StopUnarm, UnarmAndInterrupt, SetNext
  <2>3. CASE StopCommit
    BY <2>3 DEF StopCommit, Replace
  <2>4. CASE StopSuspend
    BY <2>4 DEF StopSuspend
  <2>5. CASE FollowPause
    BY <2>5 DEF FollowPause
  <2> QED BY <1>10, <2>1, <2>2, <2>3, <2>4, <2>5
<1>11. CASE UNCHANGED vars
  BY <1>11 DEF vars
<1> QED BY <1>1, <1>2, <1>3, <1>4, <1>5, <1>6, <1>7, <1>8, <1>9, <1>10, <1>11 DEF Next, Audio,
    AudioReturns, Work, Handle, UIRequest, UIContinues

(* Only an open pipeline is at its end or interrupted: the audio goroutine *)
(* marks the one it reads, which is open (OwnerInv, AudioInv), and Close   *)
(* takes all the marks of a pipeline with it.                              *)
LEMMA DecoderTypesStep == ASSUME PlayerInv, [Next]_vars PROVE DecoderTypes'
<1> USE DEF PlayerInv, Types, PipeTypes, DecoderTypes, LocalTypes, AudioInv, OwnerInv, NoLeak,
    LocalInv, WorkerSteps, UISteps, Building, Sought, Committing, Starting, Preloads, YTDLSeeks
<1>1. ASSUME NEW w \in Workers, PlayBuild(w) \/ PlayLock(w) \/ PlayUnarm(w) \/ PlayCommit(w) PROVE
      DecoderTypes'
  BY <1>1 DEF PlayBuild, Unused, Build, PlayLock, Resumed, StartStillWanted, Close, PlayUnarm,
      UnarmAndInterrupt, SetNext, Interrupt, PlayCommit, SpeakerGranted, Replace, Unpaused
<1>2. ASSUME NEW w \in Workers, PreloadBuild(w) \/ PreloadArm(w) PROVE DecoderTypes'
  BY <1>2 DEF PreloadBuild, Unused, Build, PreloadArm, PreloadStillWanted, SetNext, Close
<1>3. ASSUME NEW w \in Workers, SeekSnapshot(w) \/ SeekInterrupt(w) \/ SeekCommit(w) PROVE
      DecoderTypes'
  BY <1>3 DEF SeekSnapshot, SeekDone, SeekInterrupt, SeekStillWanted, SetNext, Interrupt,
      SeekCommit, Renewed, Replace
<1>4. ASSUME NEW w \in Workers, YTDLMute(w) \/ YTDLRebuild(w) \/ YTDLCommit(w) \/ YTDLRestore(w)
      PROVE DecoderTypes'
  BY <1>4 DEF YTDLMute, SeekStillWanted, Replace, SeekDone, YTDLRebuild, Unused, Build, YTDLCommit,
      Close, YTDLRestore
<1>5. ASSUME NEW w \in Workers, HandleStreamPlayed(w) \/ HandleStreamPreloaded(w) \/ HandleSeek(w)
      PROVE DecoderTypes'
  BY <1>5 DEF HandleStreamPlayed, UIIdle, Preloading, HandleStreamPreloaded, HandleSeek
<1>6. CASE AudioRead \/ AudioFull \/ AudioShort \/ AudioSwap
  <2>1. CASE AudioRead
    BY <2>1 DEF AudioRead
  <2>2. CASE AudioFull
    BY <2>2 DEF AudioFull
  <2>3. CASE AudioShort
    BY <2>3 DEF AudioShort
  <2>4. CASE AudioSwap
    BY <2>4 DEF AudioSwap, Adopted, Close
  <2> QED BY <1>6, <2>1, <2>2, <2>3, <2>4
<1>7. CASE RequestPlay \/ PollAdvance \/ StopPlayback \/ BareStop \/ DropPreload
  BY <1>7 DEF RequestPlay, UIIdle, IdleWorker, UIGoes, Outdated, PollAdvance, StopPlayback,
      BareStop, DropPreload
<1>8. CASE TogglePause \/ NativeSeek \/ BeginPreload \/ CancelSeekYTDL \/ StartSeek \/ ReconnectYTDL
  BY <1>8 DEF TogglePause, UIIdle, NativeSeek, SetNext, BeginPreload, IdleWorker, Preloading,
      CancelSeekYTDL, Outdated, StartSeek, ReconnectYTDL
<1>9. CASE SetPlaybackGeneration \/ ClearNext \/ CloseNext
  BY <1>9 DEF SetPlaybackGeneration, Outdated, ClearNext, PreloadsRejected, SetNext, CloseNext,
      Close, IdleWorker, Preloading
<1>10. CASE StopLock \/ StopUnarm \/ StopCommit \/ StopSuspend \/ FollowPause
  BY <1>10 DEF StopLock, PreloadsRejected, Outdated, StopUnarm, UnarmAndInterrupt, SetNext,
      Interrupt, StopCommit, Replace, Close, StopSuspend, UIGoes, FollowPause
<1>11. CASE UNCHANGED vars
  BY <1>11 DEF vars
<1> QED BY <1>1, <1>2, <1>3, <1>4, <1>5, <1>6, <1>7, <1>8, <1>9, <1>10, <1>11 DEF Next, Audio,
    AudioReturns, Work, Handle, UIRequest, UIContinues

(* The types of the processes' local variables.                            *)
LEMMA LocalTypesStep == ASSUME PlayerInv, [Next]_vars PROVE LocalTypes'
<1> USE DEF PlayerInv, Types, LocalTypes, PipeTypes
<1> USE StepNames
<1>1. ASSUME NEW w \in Workers, PlayBuild(w) \/ PlayLock(w) \/ PlayUnarm(w) \/ PlayCommit(w) PROVE
      LocalTypes'
  BY <1>1 DEF PlayBuild, Unused, Build, PlayLock, Resumed, StartStillWanted, Close, PlayUnarm,
      UnarmAndInterrupt, SetNext, Interrupt, PlayCommit, SpeakerGranted, Replace, Unpaused
<1>2. ASSUME NEW w \in Workers, PreloadBuild(w) \/ PreloadArm(w) PROVE LocalTypes'
  BY <1>2 DEF PreloadBuild, Unused, Build, PreloadArm, PreloadStillWanted, SetNext, Close
<1>3. ASSUME NEW w \in Workers, SeekSnapshot(w) \/ SeekInterrupt(w) \/ SeekCommit(w) PROVE
      LocalTypes'
  BY <1>3 DEF SeekSnapshot, SeekDone, SeekInterrupt, SeekStillWanted, SetNext, Interrupt,
      SeekCommit, Renewed, Replace
<1>4. ASSUME NEW w \in Workers, YTDLMute(w) \/ YTDLRebuild(w) \/ YTDLCommit(w) \/ YTDLRestore(w)
      PROVE LocalTypes'
  BY <1>4 DEF YTDLMute, SeekStillWanted, Replace, SeekDone, YTDLRebuild, Unused, Build, YTDLCommit,
      Close, YTDLRestore
<1>5. ASSUME NEW w \in Workers, HandleStreamPlayed(w) \/ HandleStreamPreloaded(w) \/ HandleSeek(w)
      PROVE LocalTypes'
  BY <1>5 DEF HandleStreamPlayed, UIIdle, Preloading, HandleStreamPreloaded, HandleSeek, Preloads
<1>6. CASE AudioRead \/ AudioFull \/ AudioShort \/ AudioSwap
  BY <1>6 DEF AudioRead, AudioFull, AudioShort, AudioSwap, Adopted, Close
<1>7. CASE RequestPlay \/ PollAdvance \/ StopPlayback \/ BareStop \/ DropPreload
  BY <1>7 DEF RequestPlay, UIIdle, IdleWorker, UIGoes, Outdated, PollAdvance, StopPlayback,
      BareStop, DropPreload, YTDLSeeks
<1>8. CASE TogglePause \/ NativeSeek \/ BeginPreload \/ CancelSeekYTDL \/ StartSeek \/ ReconnectYTDL
  BY <1>8 DEF TogglePause, UIIdle, NativeSeek, SetNext, BeginPreload, IdleWorker, Preloading,
      CancelSeekYTDL, Outdated, StartSeek, ReconnectYTDL, Preloads, YTDLSeeks
<1>9. CASE SetPlaybackGeneration \/ ClearNext \/ CloseNext
  BY <1>9 DEF SetPlaybackGeneration, Outdated, ClearNext, PreloadsRejected, SetNext, CloseNext,
      Close, IdleWorker, Preloading, Starting, Preloads
<1>10. CASE StopLock \/ StopUnarm \/ StopCommit \/ StopSuspend \/ FollowPause
  BY <1>10 DEF StopLock, PreloadsRejected, Outdated, StopUnarm, UnarmAndInterrupt, SetNext,
      Interrupt, StopCommit, Replace, Close, StopSuspend, UIGoes, FollowPause, Preloads
<1>11. CASE UNCHANGED vars
  BY <1>11 DEF vars
<1> QED BY <1>1, <1>2, <1>3, <1>4, <1>5, <1>6, <1>7, <1>8, <1>9, <1>10, <1>11 DEF Next, Audio,
    AudioReturns, Work, Handle, UIRequest, UIContinues

(* Generations only tell current from outdated.                            *)
LEMMA ValidTypesStep == ASSUME PlayerInv, [Next]_vars PROVE ValidTypes'
<1> USE DEF PlayerInv, Types, ValidTypes
<1>1. ASSUME NEW w \in Workers, PlayBuild(w) \/ PlayLock(w) \/ PlayUnarm(w) \/ PlayCommit(w) PROVE
      ValidTypes'
  BY <1>1 DEF PlayBuild, Unused, Build, PlayLock, Resumed, StartStillWanted, Close, PlayUnarm,
      UnarmAndInterrupt, SetNext, Interrupt, PlayCommit, SpeakerGranted, Replace, Unpaused
<1>2. ASSUME NEW w \in Workers, PreloadBuild(w) \/ PreloadArm(w) PROVE ValidTypes'
  BY <1>2 DEF PreloadBuild, Unused, Build, PreloadArm, PreloadStillWanted, SetNext, Close
<1>3. ASSUME NEW w \in Workers, SeekSnapshot(w) \/ SeekInterrupt(w) \/ SeekCommit(w) PROVE
      ValidTypes'
  <2>1. CASE SeekSnapshot(w)
    BY <2>1 DEF SeekSnapshot, SeekDone
  <2>2. CASE SeekInterrupt(w)
    BY <2>2 DEF SeekInterrupt, SeekStillWanted, SetNext, Interrupt, SeekDone
  <2>3. CASE SeekCommit(w)
    BY <2>3 DEF SeekCommit, SeekDone, SeekStillWanted, Renewed, Replace
  <2> QED BY <1>3, <2>1, <2>2, <2>3
<1>4. ASSUME NEW w \in Workers, YTDLMute(w) \/ YTDLRebuild(w) \/ YTDLCommit(w) \/ YTDLRestore(w)
      PROVE ValidTypes'
  BY <1>4 DEF YTDLMute, SeekStillWanted, Replace, SeekDone, YTDLRebuild, Unused, Build, YTDLCommit,
      Close, YTDLRestore
<1>5. ASSUME NEW w \in Workers, HandleStreamPlayed(w) \/ HandleStreamPreloaded(w) \/ HandleSeek(w)
      PROVE ValidTypes'
  <2>1. CASE HandleStreamPlayed(w)
    BY <2>1 DEF HandleStreamPlayed, UIIdle, Preloading, Preloads
  <2>2. CASE HandleStreamPreloaded(w)
    BY <2>2 DEF HandleStreamPreloaded, UIIdle
  <2>3. CASE HandleSeek(w)
    BY <2>3 DEF HandleSeek, UIIdle, Preloading, Preloads
  <2> QED BY <1>5, <2>1, <2>2, <2>3
<1>6. CASE AudioRead \/ AudioFull \/ AudioShort \/ AudioSwap
  BY <1>6 DEF AudioRead, AudioFull, AudioShort, AudioSwap, Adopted, Close
<1>7. CASE RequestPlay \/ PollAdvance \/ StopPlayback \/ BareStop \/ DropPreload
  BY <1>7 DEF RequestPlay, UIIdle, IdleWorker, UIGoes, Outdated, PollAdvance, StopPlayback,
      BareStop, DropPreload, YTDLSeeks
<1>8. CASE TogglePause \/ NativeSeek \/ BeginPreload \/ CancelSeekYTDL \/ StartSeek \/ ReconnectYTDL
  <2>1. CASE TogglePause
    BY <2>1 DEF TogglePause, UIIdle
  <2>2. CASE NativeSeek
    BY <2>2 DEF NativeSeek, UIIdle, SetNext
  <2>3. CASE BeginPreload
    BY <2>3 DEF BeginPreload, UIIdle, IdleWorker, Preloading, Preloads
  <2>4. CASE CancelSeekYTDL
    BY <2>4 DEF CancelSeekYTDL, UIIdle, Outdated, YTDLSeeks
  <2>5. CASE StartSeek
    BY <2>5 DEF StartSeek, UIIdle, IdleWorker
  <2>6. CASE ReconnectYTDL
    BY <2>6 DEF ReconnectYTDL, UIIdle, IdleWorker, Outdated, YTDLSeeks
  <2> QED BY <1>8, <2>1, <2>2, <2>3, <2>4, <2>5, <2>6
<1>9. CASE SetPlaybackGeneration \/ ClearNext \/ CloseNext
  <2>1. CASE SetPlaybackGeneration
    BY <2>1 DEF SetPlaybackGeneration, Outdated, Starting
  <2>2. CASE ClearNext
    BY <2>2 DEF ClearNext, PreloadsRejected, Outdated, SetNext, Preloads
  <2>3. CASE CloseNext
    BY <2>3 DEF CloseNext, Close, IdleWorker, Preloading, Preloads
  <2> QED BY <1>9, <2>1, <2>2, <2>3
<1>10. CASE StopLock \/ StopUnarm \/ StopCommit \/ StopSuspend \/ FollowPause
  BY <1>10 DEF StopLock, PreloadsRejected, Outdated, StopUnarm, UnarmAndInterrupt, SetNext,
      Interrupt, StopCommit, Replace, Close, StopSuspend, UIGoes, FollowPause, Preloads
<1>11. CASE UNCHANGED vars
  BY <1>11 DEF vars
<1> QED BY <1>1, <1>2, <1>3, <1>4, <1>5, <1>6, <1>7, <1>8, <1>9, <1>10, <1>11 DEF Next, Audio,
    AudioReturns, Work, Handle, UIRequest, UIContinues

(* The types of the lock, of the audio goroutine's step and of the UI's    *)
(* state.                                                                  *)
LEMMA UITypesStep == ASSUME PlayerInv, [Next]_vars PROVE UITypes'
<1> USE DEF PlayerInv, Types, LocalTypes, UITypes
<1>1. ASSUME NEW w \in Workers, PlayBuild(w) \/ PlayLock(w) \/ PlayUnarm(w) \/ PlayCommit(w) PROVE
      UITypes'
  BY <1>1 DEF PlayBuild, Unused, Build, PlayLock, Resumed, StartStillWanted, Close, PlayUnarm,
      UnarmAndInterrupt, SetNext, Interrupt, PlayCommit, SpeakerGranted, Replace, Unpaused
<1>2. ASSUME NEW w \in Workers, PreloadBuild(w) \/ PreloadArm(w) PROVE UITypes'
  BY <1>2 DEF PreloadBuild, Unused, Build, PreloadArm, PreloadStillWanted, SetNext, Close
<1>3. ASSUME NEW w \in Workers, SeekSnapshot(w) \/ SeekInterrupt(w) \/ SeekCommit(w) PROVE UITypes'
  BY <1>3 DEF SeekSnapshot, SeekDone, SeekInterrupt, SeekStillWanted, SetNext, Interrupt,
      SeekCommit, Renewed, Replace
<1>4. ASSUME NEW w \in Workers, YTDLMute(w) \/ YTDLRebuild(w) \/ YTDLCommit(w) \/ YTDLRestore(w)
      PROVE UITypes'
  BY <1>4 DEF YTDLMute, SeekStillWanted, Replace, SeekDone, YTDLRebuild, Unused, Build, YTDLCommit,
      Close, YTDLRestore
<1>5. ASSUME NEW w \in Workers, HandleStreamPlayed(w) \/ HandleStreamPreloaded(w) \/ HandleSeek(w)
      PROVE UITypes'
  BY <1>5 DEF HandleStreamPlayed, UIIdle, Preloading, HandleStreamPreloaded, HandleSeek, Preloads
<1>6. CASE AudioRead \/ AudioFull \/ AudioShort \/ AudioSwap
  BY <1>6 DEF AudioRead, AudioFull, AudioShort, AudioSwap, Adopted, Close
<1>7. CASE RequestPlay \/ PollAdvance \/ StopPlayback \/ BareStop \/ DropPreload
  BY <1>7 DEF RequestPlay, UIIdle, IdleWorker, UIGoes, Outdated, PollAdvance, StopPlayback,
      BareStop, DropPreload, YTDLSeeks
<1>8. CASE TogglePause \/ NativeSeek \/ BeginPreload \/ CancelSeekYTDL \/ StartSeek \/ ReconnectYTDL
  BY <1>8 DEF TogglePause, UIIdle, NativeSeek, SetNext, BeginPreload, IdleWorker, Preloading,
      CancelSeekYTDL, Outdated, StartSeek, ReconnectYTDL, Preloads, YTDLSeeks
<1>9. CASE SetPlaybackGeneration \/ ClearNext \/ CloseNext
  BY <1>9 DEF SetPlaybackGeneration, Outdated, ClearNext, PreloadsRejected, SetNext, CloseNext,
      Close, IdleWorker, Preloading, Starting, Preloads
<1>10. CASE StopLock \/ StopUnarm \/ StopCommit \/ StopSuspend \/ FollowPause
  BY <1>10 DEF StopLock, PreloadsRejected, Outdated, StopUnarm, UnarmAndInterrupt, SetNext,
      Interrupt, StopCommit, Replace, Close, StopSuspend, UIGoes, FollowPause, Preloads
<1>11. CASE UNCHANGED vars
  BY <1>11 DEF vars
<1> QED BY <1>1, <1>2, <1>3, <1>4, <1>5, <1>6, <1>7, <1>8, <1>9, <1>10, <1>11 DEF Next, Audio,
    AudioReturns, Work, Handle, UIRequest, UIContinues

(* A process that takes lifecycleMu has it until it lets go, and what a    *)
(* worker builds or seeks in is in its hands while it does.                *)
LEMMA LocalStep == ASSUME PlayerInv, [Next]_vars PROVE LocalInv'
<1> USE DEF PlayerInv, Types, LocalTypes, PipeTypes, LocalInv, WorkerSteps, UISteps, Building,
    Sought, Committing, Starting, Preloads, YTDLSeeks
<1>1. ASSUME NEW w \in Workers, PlayBuild(w) \/ PlayLock(w) \/ PlayUnarm(w) \/ PlayCommit(w) PROVE
      LocalInv'
  BY <1>1 DEF PlayBuild, Unused, Build, PlayLock, Resumed, StartStillWanted, Close, PlayUnarm,
      UnarmAndInterrupt, SetNext, Interrupt, PlayCommit, SpeakerGranted, Replace, Unpaused
<1>2. ASSUME NEW w \in Workers, PreloadBuild(w) \/ PreloadArm(w) PROVE LocalInv'
  BY <1>2 DEF PreloadBuild, Unused, Build, PreloadArm, PreloadStillWanted, SetNext, Close
<1>3. ASSUME NEW w \in Workers, SeekSnapshot(w) \/ SeekInterrupt(w) \/ SeekCommit(w) PROVE LocalInv'
  BY <1>3 DEF SeekSnapshot, SeekDone, SeekInterrupt, SeekStillWanted, SetNext, Interrupt,
      SeekCommit, Renewed, Replace
<1>4. ASSUME NEW w \in Workers, YTDLMute(w) \/ YTDLRebuild(w) \/ YTDLCommit(w) \/ YTDLRestore(w)
      PROVE LocalInv'
  BY <1>4 DEF YTDLMute, SeekStillWanted, Replace, SeekDone, YTDLRebuild, Unused, Build, YTDLCommit,
      Close, YTDLRestore
<1>5. ASSUME NEW w \in Workers, HandleStreamPlayed(w) \/ HandleStreamPreloaded(w) \/ HandleSeek(w)
      PROVE LocalInv'
  BY <1>5 DEF HandleStreamPlayed, UIIdle, Preloading, HandleStreamPreloaded, HandleSeek
<1>6. CASE AudioRead \/ AudioFull \/ AudioShort \/ AudioSwap
  BY <1>6 DEF AudioRead, AudioFull, AudioShort, AudioSwap, Adopted, Close
<1>7. CASE RequestPlay \/ PollAdvance \/ StopPlayback \/ BareStop \/ DropPreload
  BY <1>7 DEF RequestPlay, UIIdle, IdleWorker, UIGoes, Outdated, PollAdvance, StopPlayback,
      BareStop, DropPreload
<1>8. CASE TogglePause \/ NativeSeek \/ BeginPreload \/ CancelSeekYTDL \/ StartSeek \/ ReconnectYTDL
  BY <1>8 DEF TogglePause, UIIdle, NativeSeek, SetNext, BeginPreload, IdleWorker, Preloading,
      CancelSeekYTDL, Outdated, StartSeek, ReconnectYTDL
<1>9. CASE SetPlaybackGeneration \/ ClearNext \/ CloseNext
  BY <1>9 DEF SetPlaybackGeneration, Outdated, ClearNext, PreloadsRejected, SetNext, CloseNext,
      Close, IdleWorker, Preloading
<1>10. CASE StopLock \/ StopUnarm \/ StopCommit \/ StopSuspend \/ FollowPause
  BY <1>10 DEF StopLock, PreloadsRejected, Outdated, StopUnarm, UnarmAndInterrupt, SetNext,
      Interrupt, StopCommit, Replace, Close, StopSuspend, UIGoes, FollowPause
<1>11. CASE UNCHANGED vars
  BY <1>11 DEF vars
<1> QED BY <1>1, <1>2, <1>3, <1>4, <1>5, <1>6, <1>7, <1>8, <1>9, <1>10, <1>11 DEF Next, Audio,
    AudioReturns, Work, Handle, UIRequest, UIContinues

(* A pipeline changes hands as a whole: built by a worker, it is armed or  *)
(* played in the step that takes it out of the worker's hands, and what it *)
(* replaces is closed in that step.                                        *)
LEMMA OwnerStep == ASSUME PlayerInv, [Next]_vars PROVE OwnerInv'
<1> USE DEF PlayerInv, Types, LocalTypes, PipeTypes, DecoderTypes, UITypes, LocalInv, WorkerSteps,
    UISteps, Building, Sought, Committing, OwnerInv, NoLeak, AudioInv, Starting, Preloads, YTDLSeeks
<1>1. ASSUME NEW w \in Workers, PlayBuild(w) \/ PlayLock(w) \/ PlayUnarm(w) \/ PlayCommit(w) PROVE
      OwnerInv'
  BY <1>1 DEF PlayBuild, Unused, Build, PlayLock, Resumed, StartStillWanted, Close, PlayUnarm,
      UnarmAndInterrupt, SetNext, Interrupt, PlayCommit, SpeakerGranted, Replace, Unpaused
<1>2. ASSUME NEW w \in Workers, PreloadBuild(w) \/ PreloadArm(w) PROVE OwnerInv'
  BY <1>2 DEF PreloadBuild, Unused, Build, PreloadArm, PreloadStillWanted, SetNext, Close
<1>3. ASSUME NEW w \in Workers, SeekSnapshot(w) \/ SeekInterrupt(w) \/ SeekCommit(w) PROVE OwnerInv'
  BY <1>3 DEF SeekSnapshot, SeekDone, SeekInterrupt, SeekStillWanted, SetNext, Interrupt,
      SeekCommit, Renewed, Replace
<1>4. ASSUME NEW w \in Workers, YTDLMute(w) \/ YTDLRebuild(w) \/ YTDLCommit(w) \/ YTDLRestore(w)
      PROVE OwnerInv'
  BY <1>4 DEF YTDLMute, SeekStillWanted, Replace, SeekDone, YTDLRebuild, Unused, Build, YTDLCommit,
      Close, YTDLRestore
<1>5. ASSUME NEW w \in Workers, HandleStreamPlayed(w) \/ HandleStreamPreloaded(w) \/ HandleSeek(w)
      PROVE OwnerInv'
  BY <1>5 DEF HandleStreamPlayed, UIIdle, Preloading, HandleStreamPreloaded, HandleSeek
<1>6. CASE AudioRead \/ AudioFull \/ AudioShort \/ AudioSwap
  <2>1. CASE AudioRead
    BY <2>1 DEF AudioRead
  <2>2. CASE AudioFull
    BY <2>2 DEF AudioFull
  <2>3. CASE AudioShort
    BY <2>3 DEF AudioShort
  <2>4. CASE AudioSwap
    BY <2>4 DEF AudioSwap, Adopted, Close
  <2> QED BY <1>6, <2>1, <2>2, <2>3, <2>4
<1>7. CASE RequestPlay \/ PollAdvance \/ StopPlayback \/ BareStop \/ DropPreload
  BY <1>7 DEF RequestPlay, UIIdle, IdleWorker, UIGoes, Outdated, PollAdvance, StopPlayback,
      BareStop, DropPreload
<1>8. CASE TogglePause \/ NativeSeek \/ BeginPreload \/ CancelSeekYTDL \/ StartSeek \/ ReconnectYTDL
  BY <1>8 DEF TogglePause, UIIdle, NativeSeek, SetNext, BeginPreload, IdleWorker, Preloading,
      CancelSeekYTDL, Outdated, StartSeek, ReconnectYTDL
<1>9. CASE SetPlaybackGeneration \/ ClearNext \/ CloseNext
  BY <1>9 DEF SetPlaybackGeneration, Outdated, ClearNext, PreloadsRejected, SetNext, CloseNext,
      Close, IdleWorker, Preloading
<1>10. CASE StopLock \/ StopUnarm \/ StopCommit \/ StopSuspend \/ FollowPause
  BY <1>10 DEF StopLock, PreloadsRejected, Outdated, StopUnarm, UnarmAndInterrupt, SetNext,
      Interrupt, StopCommit, Replace, Close, StopSuspend, UIGoes, FollowPause
<1>11. CASE UNCHANGED vars
  BY <1>11 DEF vars
<1> QED BY <1>1, <1>2, <1>3, <1>4, <1>5, <1>6, <1>7, <1>8, <1>9, <1>10, <1>11 DEF Next, Audio,
    AudioReturns, Work, Handle, UIRequest, UIContinues

(* The audio goroutine plays what the Player knows.  A write to its        *)
(* streams waits for the speaker lock, or only takes the next one away;    *)
(* the swap finds the next pipeline as the end of the read left it,        *)
(* because whoever changes that pipeline waits for the lock, except        *)
(* CloseNext, whose ClearNext has unarmed it before.                       *)
LEMMA AudioStep == ASSUME PlayerInv, [Next]_vars PROVE AudioInv'
<1> USE DEF PlayerInv, Types, LocalTypes, PipeTypes, UITypes, LocalInv, WorkerSteps, UISteps,
    Building, Sought, Committing, OwnerInv, NoLeak, AudioInv, WantedInv, Rejecting, NoStaleStart,
    Starting, Preloads, YTDLSeeks
<1>1. ASSUME NEW w \in Workers, PlayBuild(w) \/ PlayLock(w) \/ PlayUnarm(w) \/ PlayCommit(w) PROVE
      AudioInv'
  <2>1. CASE PlayBuild(w)
    BY <2>1 DEF PlayBuild, Unused, Build
  <2>2. CASE PlayLock(w)
    BY <2>2 DEF PlayLock, Resumed, StartStillWanted, Close
  <2>3. CASE PlayUnarm(w)
    BY <2>3 DEF PlayUnarm, UnarmAndInterrupt, SetNext, Interrupt
  <2>4. CASE PlayCommit(w)
    BY <2>4 DEF PlayCommit, SpeakerGranted, Replace, Close, Unpaused
  <2> QED BY <1>1, <2>1, <2>2, <2>3, <2>4
<1>2. ASSUME NEW w \in Workers, PreloadBuild(w) \/ PreloadArm(w) PROVE AudioInv'
  BY <1>2 DEF PreloadBuild, Unused, Build, PreloadArm, PreloadStillWanted, SetNext, Close
<1>3. ASSUME NEW w \in Workers, SeekSnapshot(w) \/ SeekInterrupt(w) \/ SeekCommit(w) PROVE AudioInv'
  <2>1. CASE SeekSnapshot(w)
    BY <2>1 DEF SeekSnapshot, SeekDone
  <2>2. CASE SeekInterrupt(w)
    BY <2>2 DEF SeekInterrupt, SeekStillWanted, SetNext, Interrupt, SeekDone
  <2>3. CASE SeekCommit(w)
    BY <2>3 DEF SeekCommit, SeekDone, SeekStillWanted, Renewed, Replace
  <2> QED BY <1>3, <2>1, <2>2, <2>3
<1>4. ASSUME NEW w \in Workers, YTDLMute(w) \/ YTDLRebuild(w) \/ YTDLCommit(w) \/ YTDLRestore(w)
      PROVE AudioInv'
  BY <1>4 DEF YTDLMute, SeekStillWanted, Replace, SeekDone, YTDLRebuild, Unused, Build, YTDLCommit,
      Close, YTDLRestore
<1>5. ASSUME NEW w \in Workers, HandleStreamPlayed(w) \/ HandleStreamPreloaded(w) \/ HandleSeek(w)
      PROVE AudioInv'
  BY <1>5 DEF HandleStreamPlayed, UIIdle, Preloading, HandleStreamPreloaded, HandleSeek
<1>6. CASE AudioRead \/ AudioFull \/ AudioShort \/ AudioSwap
  <2>1. CASE AudioRead
    BY <2>1 DEF AudioRead
  <2>2. CASE AudioFull
    BY <2>2 DEF AudioFull
  <2>3. CASE AudioShort
    BY <2>3 DEF AudioShort
  <2>4. CASE AudioSwap
    BY <2>4 DEF AudioSwap, Adopted, Close
  <2> QED BY <1>6, <2>1, <2>2, <2>3, <2>4
<1>7. CASE RequestPlay \/ PollAdvance \/ StopPlayback \/ BareStop \/ DropPreload
  BY <1>7 DEF RequestPlay, UIIdle, IdleWorker, UIGoes, Outdated, PollAdvance, StopPlayback,
      BareStop, DropPreload
<1>8. CASE TogglePause \/ NativeSeek \/ BeginPreload \/ CancelSeekYTDL \/ StartSeek \/ ReconnectYTDL
  BY <1>8 DEF TogglePause, UIIdle, NativeSeek, SetNext, BeginPreload, IdleWorker, Preloading,
      CancelSeekYTDL, Outdated, StartSeek, ReconnectYTDL
<1>9. CASE SetPlaybackGeneration \/ ClearNext \/ CloseNext
  BY <1>9 DEF SetPlaybackGeneration, Outdated, ClearNext, PreloadsRejected, SetNext, CloseNext,
      Close, IdleWorker, Preloading
<1>10. CASE StopLock \/ StopUnarm \/ StopCommit \/ StopSuspend \/ FollowPause
  <2>1. CASE StopLock
    BY <2>1 DEF StopLock, PreloadsRejected, Outdated
  <2>2. CASE StopUnarm
    BY <2>2 DEF StopUnarm, UnarmAndInterrupt, SetNext, Interrupt
  <2>3. CASE StopCommit
    BY <2>3 DEF StopCommit, Replace, Close
  <2>4. CASE StopSuspend
    BY <2>4 DEF StopSuspend, UIGoes
  <2>5. CASE FollowPause
    BY <2>5 DEF FollowPause
  <2> QED BY <1>10, <2>1, <2>2, <2>3, <2>4, <2>5
<1>11. CASE UNCHANGED vars
  BY <1>11 DEF vars
<1> QED BY <1>1, <1>2, <1>3, <1>4, <1>5, <1>6, <1>7, <1>8, <1>9, <1>10, <1>11 DEF Next, Audio,
    AudioReturns, Work, Handle, UIRequest, UIContinues

(* Nothing arms a preload, and no start gets past its check, between the   *)
(* newer request and the end of what it has to clear.                      *)
LEMMA WantedStep == ASSUME PlayerInv, [Next]_vars PROVE WantedInv'
<1> USE DEF PlayerInv, Types, LocalTypes, ValidTypes, FlagTypes, LocalInv, WorkerSteps, UISteps,
    Building, Sought, Committing, AudioInv, WantedInv, Rejecting, NoStaleStart, Starting, Preloads,
    YTDLSeeks
<1>1. ASSUME NEW w \in Workers, PlayBuild(w) \/ PlayLock(w) \/ PlayUnarm(w) \/ PlayCommit(w) PROVE
      WantedInv'
  BY <1>1 DEF PlayBuild, Unused, Build, PlayLock, Resumed, StartStillWanted, Close, PlayUnarm,
      UnarmAndInterrupt, SetNext, Interrupt, PlayCommit, SpeakerGranted, Replace, Unpaused
<1>2. ASSUME NEW w \in Workers, PreloadBuild(w) \/ PreloadArm(w) PROVE WantedInv'
  BY <1>2 DEF PreloadBuild, Unused, Build, PreloadArm, PreloadStillWanted, SetNext, Close
<1>3. ASSUME NEW w \in Workers, SeekSnapshot(w) \/ SeekInterrupt(w) \/ SeekCommit(w) PROVE
      WantedInv'
  BY <1>3 DEF SeekSnapshot, SeekDone, SeekInterrupt, SeekStillWanted, SetNext, Interrupt,
      SeekCommit, Renewed, Replace
<1>4. ASSUME NEW w \in Workers, YTDLMute(w) \/ YTDLRebuild(w) \/ YTDLCommit(w) \/ YTDLRestore(w)
      PROVE WantedInv'
  BY <1>4 DEF YTDLMute, SeekStillWanted, Replace, SeekDone, YTDLRebuild, Unused, Build, YTDLCommit,
      Close, YTDLRestore
<1>5. ASSUME NEW w \in Workers, HandleStreamPlayed(w) \/ HandleStreamPreloaded(w) \/ HandleSeek(w)
      PROVE WantedInv'
  BY <1>5 DEF HandleStreamPlayed, UIIdle, Preloading, HandleStreamPreloaded, HandleSeek
<1>6. CASE AudioRead \/ AudioFull \/ AudioShort \/ AudioSwap
  <2>1. CASE AudioRead
    BY <2>1 DEF AudioRead
  <2>2. CASE AudioFull
    BY <2>2 DEF AudioFull
  <2>3. CASE AudioShort
    BY <2>3 DEF AudioShort
  <2>4. CASE AudioSwap
    BY <2>4 DEF AudioSwap, Adopted, Close
  <2> QED BY <1>6, <2>1, <2>2, <2>3, <2>4
<1>7. CASE RequestPlay \/ PollAdvance \/ StopPlayback \/ BareStop \/ DropPreload
  BY <1>7 DEF RequestPlay, UIIdle, IdleWorker, UIGoes, Outdated, PollAdvance, StopPlayback,
      BareStop, DropPreload
<1>8. CASE TogglePause \/ NativeSeek \/ BeginPreload \/ CancelSeekYTDL \/ StartSeek \/ ReconnectYTDL
  BY <1>8 DEF TogglePause, UIIdle, NativeSeek, SetNext, BeginPreload, IdleWorker, Preloading,
      CancelSeekYTDL, Outdated, StartSeek, ReconnectYTDL
<1>9. CASE SetPlaybackGeneration \/ ClearNext \/ CloseNext
  BY <1>9 DEF SetPlaybackGeneration, Outdated, ClearNext, PreloadsRejected, SetNext, CloseNext,
      Close, IdleWorker, Preloading
<1>10. CASE StopLock \/ StopUnarm \/ StopCommit \/ StopSuspend \/ FollowPause
  BY <1>10 DEF StopLock, PreloadsRejected, Outdated, StopUnarm, UnarmAndInterrupt, SetNext,
      Interrupt, StopCommit, Replace, Close, StopSuspend, UIGoes, FollowPause
<1>11. CASE UNCHANGED vars
  BY <1>11 DEF vars
<1> QED BY <1>1, <1>2, <1>3, <1>4, <1>5, <1>6, <1>7, <1>8, <1>9, <1>10, <1>11 DEF Next, Audio,
    AudioReturns, Work, Handle, UIRequest, UIContinues

(* Every path to a source ends in a check that the pipeline is the current *)
(* one, and a stopped Player has none.                                     *)
LEMMA SilenceStep == ASSUME PlayerInv, [Next]_vars PROVE SilenceInv'
<1> USE DEF PlayerInv, Types, LocalTypes, LocalInv, WorkerSteps, UISteps, Building, Sought,
    Committing, AudioInv, SilenceInv, Starting, Preloads, YTDLSeeks
<1>1. ASSUME NEW w \in Workers, PlayBuild(w) \/ PlayLock(w) \/ PlayUnarm(w) \/ PlayCommit(w) PROVE
      SilenceInv'
  BY <1>1 DEF PlayBuild, Unused, Build, PlayLock, Resumed, StartStillWanted, Close, PlayUnarm,
      UnarmAndInterrupt, SetNext, Interrupt, PlayCommit, SpeakerGranted, Replace, Unpaused
<1>2. ASSUME NEW w \in Workers, PreloadBuild(w) \/ PreloadArm(w) PROVE SilenceInv'
  BY <1>2 DEF PreloadBuild, Unused, Build, PreloadArm, PreloadStillWanted, SetNext, Close
<1>3. ASSUME NEW w \in Workers, SeekSnapshot(w) \/ SeekInterrupt(w) \/ SeekCommit(w) PROVE
      SilenceInv'
  BY <1>3 DEF SeekSnapshot, SeekDone, SeekInterrupt, SeekStillWanted, SetNext, Interrupt,
      SeekCommit, Renewed, Replace
<1>4. ASSUME NEW w \in Workers, YTDLMute(w) \/ YTDLRebuild(w) \/ YTDLCommit(w) \/ YTDLRestore(w)
      PROVE SilenceInv'
  BY <1>4 DEF YTDLMute, SeekStillWanted, Replace, SeekDone, YTDLRebuild, Unused, Build, YTDLCommit,
      Close, YTDLRestore
<1>5. ASSUME NEW w \in Workers, HandleStreamPlayed(w) \/ HandleStreamPreloaded(w) \/ HandleSeek(w)
      PROVE SilenceInv'
  BY <1>5 DEF HandleStreamPlayed, UIIdle, Preloading, HandleStreamPreloaded, HandleSeek
<1>6. CASE AudioRead \/ AudioFull \/ AudioShort \/ AudioSwap
  BY <1>6 DEF AudioRead, AudioFull, AudioShort, AudioSwap, Adopted, Close
<1>7. CASE RequestPlay \/ PollAdvance \/ StopPlayback \/ BareStop \/ DropPreload
  BY <1>7 DEF RequestPlay, UIIdle, IdleWorker, UIGoes, Outdated, PollAdvance, StopPlayback,
      BareStop, DropPreload
<1>8. CASE TogglePause \/ NativeSeek \/ BeginPreload \/ CancelSeekYTDL \/ StartSeek \/ ReconnectYTDL
  BY <1>8 DEF TogglePause, UIIdle, NativeSeek, SetNext, BeginPreload, IdleWorker, Preloading,
      CancelSeekYTDL, Outdated, StartSeek, ReconnectYTDL
<1>9. CASE SetPlaybackGeneration \/ ClearNext \/ CloseNext
  BY <1>9 DEF SetPlaybackGeneration, Outdated, ClearNext, PreloadsRejected, SetNext, CloseNext,
      Close, IdleWorker, Preloading
<1>10. CASE StopLock \/ StopUnarm \/ StopCommit \/ StopSuspend \/ FollowPause
  BY <1>10 DEF StopLock, PreloadsRejected, Outdated, StopUnarm, UnarmAndInterrupt, SetNext,
      Interrupt, StopCommit, Replace, Close, StopSuspend, UIGoes, FollowPause
<1>11. CASE UNCHANGED vars
  BY <1>11 DEF vars
<1> QED BY <1>1, <1>2, <1>3, <1>4, <1>5, <1>6, <1>7, <1>8, <1>9, <1>10, <1>11 DEF Next, Audio,
    AudioReturns, Work, Handle, UIRequest, UIContinues

(* Pause, the callback's flag and the suspension move together: a start    *)
(* ends with all three off, because nothing the UI may do before it has    *)
(* the answer sets one of them.                                            *)
LEMMA PauseStep == ASSUME PlayerInv, [Next]_vars, PauseInv PROVE PauseInv'
<1> USE DEF PlayerInv, Types, LocalTypes, ValidTypes, FlagTypes, UITypes, LocalInv, WorkerSteps,
    UISteps, Building, Sought, Committing, WantedInv, Rejecting, NoStaleStart, SilenceInv, PauseInv,
    UnderWay, Committed, Starting, Preloads, YTDLSeeks
<1>1. ASSUME NEW w \in Workers, PlayBuild(w) \/ PlayLock(w) \/ PlayUnarm(w) \/ PlayCommit(w) PROVE
      PauseInv'
  <2>1. CASE PlayBuild(w)
    BY <2>1 DEF PlayBuild, Unused, Build
  <2>2. CASE PlayLock(w)
    BY <2>2 DEF PlayLock, Resumed, StartStillWanted, Close
  <2>3. CASE PlayUnarm(w)
    BY <2>3 DEF PlayUnarm, UnarmAndInterrupt, SetNext, Interrupt
  <2>4. CASE PlayCommit(w)
    BY <2>4, ZenonT(40) DEF PlayCommit, SpeakerGranted, Replace, Close, Unpaused
  <2> QED BY <1>1, <2>1, <2>2, <2>3, <2>4
<1>2. ASSUME NEW w \in Workers, PreloadBuild(w) \/ PreloadArm(w) PROVE PauseInv'
  BY <1>2 DEF PreloadBuild, Unused, Build, PreloadArm, PreloadStillWanted, SetNext, Close
<1>3. ASSUME NEW w \in Workers, SeekSnapshot(w) \/ SeekInterrupt(w) \/ SeekCommit(w) PROVE PauseInv'
  BY <1>3 DEF SeekSnapshot, SeekDone, SeekInterrupt, SeekStillWanted, SetNext, Interrupt,
      SeekCommit, Renewed, Replace
<1>4. ASSUME NEW w \in Workers, YTDLMute(w) \/ YTDLRebuild(w) \/ YTDLCommit(w) \/ YTDLRestore(w)
      PROVE PauseInv'
  BY <1>4 DEF YTDLMute, SeekStillWanted, Replace, SeekDone, YTDLRebuild, Unused, Build, YTDLCommit,
      Close, YTDLRestore
<1>5. ASSUME NEW w \in Workers, HandleStreamPlayed(w) \/ HandleStreamPreloaded(w) \/ HandleSeek(w)
      PROVE PauseInv'
  BY <1>5 DEF HandleStreamPlayed, UIIdle, Preloading, HandleStreamPreloaded, HandleSeek
<1>6. CASE AudioRead \/ AudioFull \/ AudioShort \/ AudioSwap
  <2>1. CASE AudioRead
    BY <2>1 DEF AudioRead
  <2>2. CASE AudioFull
    BY <2>2 DEF AudioFull
  <2>3. CASE AudioShort
    BY <2>3 DEF AudioShort
  <2>4. CASE AudioSwap
    BY <2>4 DEF AudioSwap, Adopted, Close
  <2> QED BY <1>6, <2>1, <2>2, <2>3, <2>4
<1>7. CASE RequestPlay \/ PollAdvance \/ StopPlayback \/ BareStop \/ DropPreload
  BY <1>7 DEF RequestPlay, UIIdle, IdleWorker, UIGoes, Outdated, PollAdvance, StopPlayback,
      BareStop, DropPreload
<1>8. CASE TogglePause \/ NativeSeek \/ BeginPreload \/ CancelSeekYTDL \/ StartSeek \/ ReconnectYTDL
  BY <1>8 DEF TogglePause, UIIdle, NativeSeek, SetNext, BeginPreload, IdleWorker, Preloading,
      CancelSeekYTDL, Outdated, StartSeek, ReconnectYTDL
<1>9. CASE SetPlaybackGeneration \/ ClearNext \/ CloseNext
  <2>1. CASE SetPlaybackGeneration
    BY <2>1 DEF SetPlaybackGeneration, Outdated
  <2>2. CASE ClearNext
    BY <2>2 DEF ClearNext, PreloadsRejected, Outdated, SetNext
  <2>3. CASE CloseNext
    BY <2>3 DEF CloseNext, Close, IdleWorker, Preloading
  <2> QED BY <1>9, <2>1, <2>2, <2>3
<1>10. CASE StopLock \/ StopUnarm \/ StopCommit \/ StopSuspend \/ FollowPause
  BY <1>10 DEF StopLock, PreloadsRejected, Outdated, StopUnarm, UnarmAndInterrupt, SetNext,
      Interrupt, StopCommit, Replace, Close, StopSuspend, UIGoes, FollowPause
<1>11. CASE UNCHANGED vars
  BY <1>11 DEF vars
<1> QED BY <1>1, <1>2, <1>3, <1>4, <1>5, <1>6, <1>7, <1>8, <1>9, <1>10, <1>11 DEF Next, Audio,
    AudioReturns, Work, Handle, UIRequest, UIContinues

-----------------------------------------------------------------------------
(* The theorems *)

(* The invariant is one: it holds at first, and each part is preserved by  *)
(* every step from the whole.                                              *)
THEOREM PlayerInvHolds == Spec => []PlayerInv
<1>1. PlayerInv /\ [Next]_vars => PlayerInv'
  BY PipeTypesStep, FlagTypesStep, DecoderTypesStep, LocalTypesStep, ValidTypesStep,
     UITypesStep, LocalStep, OwnerStep, AudioStep, WantedStep, SilenceStep DEF PlayerInv, Types
<1> QED BY InitInv, <1>1, PTL DEF Spec

(* Every variable keeps its type. *)
THEOREM PlayerTypeCorrect == Spec => []TypeOK
<1>1. PlayerInv => TypeOK
  BY DEF PlayerInv, Types, PipeTypes, FlagTypes, DecoderTypes, LocalTypes, ValidTypes, UITypes,
         Steps, WorkerSteps, UISteps, TypeOK
<1> QED BY PlayerInvHolds, <1>1, PTL

(* SetPlaybackGeneration, ClearPreload: once a start has passed its check  *)
(* no newer request exists, and after the armed pipeline is dropped none   *)
(* is armed before one is asked for.                                       *)
THEOREM OvertakenNeverLandsHolds == Spec => []OvertakenNeverLands
<1>1. PlayerInv => OvertakenNeverLands
  BY DEF PlayerInv, WantedInv, AudioInv, OvertakenNeverLands, ClearedStaysCleared
<1> QED BY PlayerInvHolds, <1>1, PTL

(* The audio goroutine and the Player agree on what plays and comes next.  *)
THEOREM AudioMatchesPlayerHolds == Spec => []AudioMatchesPlayer
<1>1. PlayerInv => AudioMatchesPlayer
  BY DEF PlayerInv, Types, UITypes, AudioInv, AudioMatchesPlayer
<1> QED BY PlayerInvHolds, <1>1, PTL

(* closePipelines and its callers: a pipeline is closed once nobody plays  *)
(* or holds it, and not before.                                            *)
THEOREM PipelinesSoundHolds == Spec => []PipelinesSound
<1>1. PlayerInv => PipelinesSound
  BY DEF PlayerInv, Types, UITypes, OwnerInv, AudioInv, PipelinesSound, NoUseAfterClose
<1> QED BY PlayerInvHolds, <1>1, PTL

(* Stop: whatever was under way, a stopped Player has no source.           *)
THEOREM SilentAfterStopHolds == Spec => []SilentAfterStop
<1>1. PlayerInv => SilentAfterStop
  BY DEF PlayerInv, Types, UITypes, AudioInv, SilenceInv, SilentAfterStop
<1> QED BY PlayerInvHolds, <1>1, PTL

(* TogglePause, Stop, Resume: between calls what the UI shows, what the    *)
(* callback does and the speaker's suspension agree, unless a bare Stop    *)
(* suspended what a start under way had resumed (PlayingIsAudible).        *)
THEOREM PauseInSyncHolds == Spec => []PauseInSync
<1>1. PlayerInv /\ PauseInv /\ [Next]_vars => PauseInv'
  BY PauseStep
<1>2. PlayerInv /\ PauseInv => PauseInSync
  BY DEF PlayerInv, LocalInv, Committing, PauseInv, Committed, PauseInSync, UIIdle
<1> QED BY InitInv, PlayerInvHolds, <1>1, <1>2, PTL DEF Spec

-----------------------------------------------------------------------------
(***************************************************************************)
(* What the TUI makes of the engine, see Playback.tla.                     *)
(***************************************************************************)
(* The fields that say which track is announced, played, started and       *)
(* preloaded, and those that say which one follows.                        *)
PlayFields ==
  {"track", "active", "started", "buffering", "starts", "preloading", "preloadFor", "preloads",
   "cur", "next", "playing", "advanced", "missed", "quitting"}
ListFields == {"rows", "idx", "detached"}

Kept(S, m, n) == \A f \in S : n[f] = m[f]

(* A state, of the Model or on the way through a handler, and its commands *)
(* have the fields they are asked for.                                     *)
Shape(m) ==
  /\ PlayFields \cup ListFields \subseteq DOMAIN m
  /\ \A c \in m.starts : {"track", "current", "at"} \subseteq DOMAIN c
  /\ \A c \in m.preloads : {"track", "current", "valid", "at"} \subseteq DOMAIN c

(* At most one preload and at most one start are the current ones. *)
OnePreload(m) == \A c, d \in m.preloads : c.current /\ d.current => c = d
OneStart(m) == \A c, d \in m.starts : c.current /\ d.current => c = d

Base(m) == Shape(m) /\ OnePreload(m)

(* Whatever may be armed, or is, is what preloadFor names. *)
ArmInv(m) ==
  /\ \A c \in m.preloads : c.valid => c.current /\ m.preloading /\ c.track = m.preloadFor
  /\ m.next # NoTrack => m.next = m.preloadFor

(* Nothing is armed. *)
Unarmed(m) == m.next = NoTrack /\ \A c \in m.preloads : ~c.valid

(* While a start is awaited nothing is armed, and the engine that has      *)
(* played it plays it still.                                               *)
StartInv(m) ==
  ~m.quitting => \A c \in m.starts : c.current =>
    /\ m.buffering /\ m.active /\ ~m.started /\ m.track = c.track /\ c.track # NoTrack
    /\ Unarmed(m)
    /\ c.at = "played" => m.cur = c.track /\ m.playing /\ ~m.advanced

NoStart(m) == \A c \in m.starts : ~c.current

(* What is announced is a track, and what the engine plays. *)
AnnouncedInv(m) ==
  /\ m.started => m.active
  /\ m.quitting => ~m.started
  /\ m.started /\ m.playing /\ ~m.buffering /\ ~m.advanced /\ ~m.missed => m.cur = m.track

Sound(m) == Base(m) /\ ArmInv(m) /\ OneStart(m) /\ StartInv(m) /\ AnnouncedInv(m)

(* What may be armed is what the list goes on to. *)
UpcomingInv(m) ==
  /\ m.next # NoTrack => m.next = Tui!UpcomingTrack(m)
  /\ \A c \in m.preloads : c.valid => c.track = Tui!UpcomingTrack(m)

(* A switch the tick has yet to hear of is to what the list goes on to.    *)
SwitchInv(m) == m.advanced /\ ~m.missed => m.cur = Tui!UpcomingTrack(m)

PlaybackInv(m) == Sound(m) /\ UpcomingInv(m) /\ SwitchInv(m)

-----------------------------------------------------------------------------
(* What preloadNext asks for is the track advanceToNext picks. *)
LEMMA TargetIsUpcoming ==
  ASSUME NEW m
  PROVE  Tui!PreloadTarget(m) # NoTrack => Tui!PreloadTarget(m) = Tui!UpcomingTrack(m)
BY DEF Tui!PreloadTarget

(* The same list goes on to the same track. *)
LEMMA SameUpcoming ==
  ASSUME NEW m, NEW n, Kept(ListFields, m, n)
  PROVE  Tui!UpcomingTrack(n) = Tui!UpcomingTrack(m)
<1>1. n.rows = m.rows /\ n.idx = m.idx /\ n.detached = m.detached
  BY DEF Kept, ListFields
<1> QED BY <1>1 DEF Tui!UpcomingTrack, Tui!Upcoming, Tui!RowAt

(* A state that is the same where it matters is as sound.                  *)
LEMMA KeptFields ==
  ASSUME NEW m, NEW n, Kept(PlayFields, m, n)
  PROVE  /\ n.track = m.track /\ n.active = m.active /\ n.started = m.started
         /\ n.buffering = m.buffering /\ n.starts = m.starts /\ n.preloading = m.preloading
         /\ n.preloadFor = m.preloadFor /\ n.preloads = m.preloads /\ n.cur = m.cur
         /\ n.next = m.next /\ n.playing = m.playing /\ n.advanced = m.advanced
         /\ n.missed = m.missed /\ n.quitting = m.quitting
BY DEF Kept, PlayFields

(* A state that is the same where it matters is as well formed. *)
LEMMA KeptBase ==
  ASSUME NEW m, NEW n, Base(m), DOMAIN n = DOMAIN m, Kept(PlayFields, m, n)
  PROVE  Base(n)
BY KeptFields DEF Base, Shape, OnePreload

(* And as sound. *)
LEMMA KeptSound ==
  ASSUME NEW m, NEW n, Sound(m), DOMAIN n = DOMAIN m, Kept(PlayFields, m, n)
  PROVE  Sound(n)
<1>1. Base(n)
  BY KeptBase DEF Sound
<1> QED BY <1>1, KeptFields DEF Sound, ArmInv, OneStart, StartInv, Unarmed, AnnouncedInv

Disarmed(c) == [c EXCEPT !.valid = FALSE]

(* The commands of a preload that was cleared. *)
LEMMA InvalidFact ==
  ASSUME NEW C, \A c \in C : {"track", "current", "valid", "at"} \subseteq DOMAIN c,
         NEW d \in Tui!Invalid(C)
  PROVE  /\ {"track", "current", "valid", "at"} \subseteq DOMAIN d
         /\ ~d.valid
         /\ \E c \in C : d = Disarmed(c) /\ (d.current => c.current)
BY DEF Tui!Invalid, Disarmed

(* The commands of a request that has moved on. *)
LEMMA OutdatedFact ==
  ASSUME NEW C, NEW F, \A c \in C : F \cup {"current"} \subseteq DOMAIN c,
         NEW d \in Tui!Outdated(C)
  PROVE  /\ F \cup {"current"} \subseteq DOMAIN d
         /\ ~d.current
         /\ \E c \in C : d = [c EXCEPT !.current = FALSE] 
BY DEF Tui!Outdated

(* leaveTrack only reports. *)
LEMMA LeaveKept ==
  ASSUME NEW m, NEW half, Base(m)
  PROVE  /\ DOMAIN Tui!LeaveTrack(m, half) = DOMAIN m 
         /\ Kept(PlayFields \cup ListFields, m, Tui!LeaveTrack(m, half))
BY DEF Tui!LeaveTrack, Tui!Add, Kept, Base, Shape, PlayFields, ListFields

(* ClearPreload: nothing is armed, and nothing else changes. *)
LEMMA ClearSound ==
  ASSUME NEW m, Base(m)
  PROVE  LET n == Tui!ClearPreload(m)
         IN  /\ Base(n) /\ Unarmed(n) /\ DOMAIN n = DOMAIN m
             /\ Kept((PlayFields \cup ListFields) \ {"next", "preloads"}, m, n)
<1> DEFINE n == Tui!ClearPreload(m)
<1>1. DOMAIN n = DOMAIN m /\ n.next = NoTrack /\ n.preloads = Tui!Invalid(m.preloads)
  BY DEF Tui!ClearPreload, Base, Shape, PlayFields, ListFields
<1>2. Kept((PlayFields \cup ListFields) \ {"next", "preloads"}, m, n)
  BY DEF Tui!ClearPreload, Kept, Base, Shape, PlayFields, ListFields
<1>3. n.starts = m.starts
  BY <1>2 DEF Kept, PlayFields, ListFields
<1> HIDE DEF n
<1>4. Unarmed(n)
  BY <1>1, InvalidFact DEF Unarmed, Base, Shape
<1>5. Shape(n)
  BY <1>1, <1>3, InvalidFact DEF Base, Shape
<1>6. OnePreload(n)
  <2> SUFFICES ASSUME NEW c \in n.preloads, NEW d \in n.preloads, c.current, d.current
               PROVE  c = d
    BY DEF OnePreload
  <2>0. \A e \in m.preloads : {"track", "current", "valid", "at"} \subseteq DOMAIN e
    BY DEF Base, Shape
  <2>1. PICK c1 \in m.preloads : c = Disarmed(c1) /\ (c.current => c1.current)
    BY <1>1, <2>0, InvalidFact
  <2>2. PICK d1 \in m.preloads : d = Disarmed(d1) /\ (d.current => d1.current)
    BY <1>1, <2>0, InvalidFact
  <2> QED BY <2>1, <2>2 DEF Base, OnePreload
<1> QED BY <1>1, <1>2, <1>4, <1>5, <1>6 DEF Base, n

(* Dropping what is armed does no harm. *)
LEMMA UnarmedSound ==
  ASSUME NEW m, NEW n, Sound(m), Base(n), Unarmed(n),
         Kept(PlayFields \ {"next", "preloads", "preloading"}, m, n)
  PROVE  Sound(n)
<1>1. /\ n.track = m.track /\ n.active = m.active /\ n.started = m.started
      /\ n.buffering = m.buffering /\ n.starts = m.starts 
      /\ n.cur = m.cur /\ n.playing = m.playing /\ n.advanced = m.advanced
      /\ n.missed = m.missed /\ n.quitting = m.quitting
  BY DEF Kept, PlayFields
<1>2. ArmInv(n)
  BY DEF ArmInv, Unarmed
<1>3. StartInv(n) /\ OneStart(n)
  BY <1>1 DEF Sound, StartInv, OneStart
<1>4. AnnouncedInv(n)
  BY <1>1 DEF Sound, AnnouncedInv
<1> QED BY <1>2, <1>3, <1>4 DEF Sound

(* dropStalePreload: what stays armed is what the list goes on to.         *)
LEMMA DropSound ==
  ASSUME NEW m, Sound(m)
  PROVE  LET n == Tui!DropStalePreload(m)
         IN  /\ Sound(n) /\ UpcomingInv(n)
             /\ Kept((PlayFields \cup ListFields) \ {"next", "preloads", "preloading"}, m, n)
<1> DEFINE n == Tui!DropStalePreload(m)
<1>1. CASE ~m.preloading /\ m.next = NoTrack
  <2>1. n = m
    BY <1>1 DEF Tui!DropStalePreload
  <2>2. UpcomingInv(m)
    BY <1>1 DEF Sound, ArmInv, UpcomingInv
  <2> QED BY <2>1, <2>2 DEF Kept
<1>2. CASE Tui!PreloadTarget(m) # NoTrack /\ Tui!PreloadTarget(m) = m.preloadFor
  <2>1. n = m
    BY <1>2 DEF Tui!DropStalePreload
  <2>2. UpcomingInv(m)
    BY <1>2, TargetIsUpcoming DEF Sound, ArmInv, UpcomingInv
  <2> QED BY <2>1, <2>2 DEF Kept
<1>3. CASE /\ ~(~m.preloading /\ m.next = NoTrack)
           /\ ~(Tui!PreloadTarget(m) # NoTrack /\ Tui!PreloadTarget(m) = m.preloadFor)
  <2> DEFINE d == Tui!ClearPreload(m)
  <2>1. n = [d EXCEPT !.preloading = FALSE]
    BY <1>3 DEF Tui!DropStalePreload
  <2>2. /\ Base(d) /\ Unarmed(d) /\ DOMAIN d = DOMAIN m
        /\ Kept((PlayFields \cup ListFields) \ {"next", "preloads"}, m, d)
    BY ClearSound DEF Sound
  <2> HIDE DEF d, n
  <2>3. /\ DOMAIN n = DOMAIN d /\ Kept((PlayFields \cup ListFields) \ {"preloading"}, d, n)
    BY <2>1, <2>2 DEF Kept, Base, Shape, PlayFields, ListFields
  <2>4. n.next = d.next /\ n.preloads = d.preloads /\ n.starts = d.starts
    BY <2>3 DEF Kept, PlayFields, ListFields
  <2>5. Base(n) /\ Unarmed(n)
    BY <2>2, <2>3, <2>4 DEF Base, Shape, OnePreload, Unarmed
  <2>6. Kept((PlayFields \cup ListFields) \ {"next", "preloads", "preloading"}, m, n)
    BY <2>2, <2>3 DEF Kept
  <2>7. Kept(PlayFields \ {"next", "preloads", "preloading"}, m, n)
    BY <2>6 DEF Kept
  <2>8. Sound(n) /\ UpcomingInv(n)
    BY <2>5, <2>7, UnarmedSound DEF UpcomingInv, Unarmed
  <2> QED BY <2>6, <2>8 DEF n
<1> QED BY <1>1, <1>2, <1>3

(* Update brings everything in line after any message.                     *)
LEMMA HandledSound ==
  ASSUME NEW m, Sound(m)
  PROVE  PlaybackInv(Tui!Handled(m))
<1> DEFINE d == Tui!DropStalePreload(m)
           x == d.missed \/ (d.advanced /\ Tui!UpcomingTrack(d) # d.cur)
           n == [d EXCEPT !.missed = x]
<1>1. Tui!Handled(m) = n
  BY DEF Tui!Handled
<1>2. Sound(d) /\ UpcomingInv(d)
  BY DropSound
<1> HIDE DEF d
<1>3. DOMAIN n = DOMAIN d /\ Kept((PlayFields \cup ListFields) \ {"missed"}, d, n)
  BY <1>2 DEF Kept, Sound, Base, Shape
<1>4. n.missed = x
  BY <1>2 DEF Sound, Base, Shape, PlayFields
<1> HIDE DEF n
<1>5. /\ n.track = d.track /\ n.active = d.active /\ n.started = d.started
      /\ n.buffering = d.buffering /\ n.starts = d.starts /\ n.preloading = d.preloading
      /\ n.preloadFor = d.preloadFor /\ n.preloads = d.preloads /\ n.cur = d.cur
      /\ n.next = d.next /\ n.playing = d.playing /\ n.advanced = d.advanced
      /\ n.quitting = d.quitting /\ Kept(ListFields, d, n)
  BY <1>3 DEF Kept, PlayFields, ListFields
<1>6. Tui!UpcomingTrack(n) = Tui!UpcomingTrack(d)
  BY <1>5, SameUpcoming
<1>7. Base(n) /\ ArmInv(n) /\ OneStart(n) /\ StartInv(n)
  BY <1>2, <1>3, <1>5 DEF Sound, Base, Shape, OnePreload, ArmInv, OneStart, StartInv, Unarmed
<1>8. AnnouncedInv(n)
  BY <1>2, <1>4, <1>5 DEF Sound, AnnouncedInv
<1>9. UpcomingInv(n) /\ SwitchInv(n)
  BY <1>2, <1>4, <1>5, <1>6 DEF UpcomingInv, SwitchInv
<1> QED BY <1>1, <1>7, <1>8, <1>9 DEF PlaybackInv, Sound

(* Stop of the engine: silence, and nothing is armed. *)
LEMMA StopEngineSound ==
  ASSUME NEW m, Base(m)
  PROVE  LET n == Tui!EngineStop(m)
         IN  /\ Base(n) /\ Unarmed(n) /\ DOMAIN n = DOMAIN m
             /\ ~n.playing /\ ~n.advanced
             /\ Kept((PlayFields \cup ListFields) 
                       \ {"next", "preloads", "cur", "playing", "advanced", "missed"}, m, n)
<1> DEFINE d == Tui!ClearPreload(m)
           n == Tui!EngineStop(m)
<1>1. /\ Base(d) /\ Unarmed(d) /\ DOMAIN d = DOMAIN m
      /\ Kept((PlayFields \cup ListFields) \ {"next", "preloads"}, m, d)
  BY ClearSound
<1>2. n = [d EXCEPT !.cur = NoTrack, !.playing = FALSE, !.paused = FALSE, !.drained = FALSE,
                    !.failed = FALSE, !.advanced = FALSE, !.missed = FALSE]
  BY DEF Tui!EngineStop
<1> HIDE DEF d, n
<1>3. DOMAIN n = DOMAIN d /\ ~n.playing /\ ~n.advanced
  BY <1>1, <1>2 DEF Base, Shape, PlayFields
<1>4. Kept((PlayFields \cup ListFields) \ {"cur", "playing", "advanced", "missed"}, d, n)
  BY <1>1, <1>2 DEF Base, Shape, Kept, PlayFields, ListFields
<1>5. n.next = d.next /\ n.preloads = d.preloads /\ n.starts = d.starts
  BY <1>4 DEF Kept, PlayFields
<1>6. Base(n) /\ Unarmed(n)
  BY <1>1, <1>3, <1>5 DEF Base, Shape, OnePreload, Unarmed
<1>7. Kept((PlayFields \cup ListFields) 
             \ {"next", "preloads", "cur", "playing", "advanced", "missed"}, m, n)
  BY <1>1, <1>4 DEF Kept
<1> QED BY <1>1, <1>3, <1>6, <1>7 DEF n

(* A stop leaves nothing announced, awaited or armed.                      *)
LEMMA StopSound ==
  ASSUME NEW m, Base(m), NEW half
  PROVE  LET n == Tui!StopPlayback(m, half) IN Sound(n) /\ n.quitting = m.quitting
<1> DEFINE l == Tui!LeaveTrack(m, half)
           e == Tui!EngineStop(l)
           n == Tui!StopPlayback(m, half)
<1>1. Base(l) /\ l.quitting = m.quitting
  BY LeaveKept, KeptBase DEF Kept, PlayFields
<1>2. Base(e) /\ Unarmed(e) /\ e.quitting = m.quitting
  BY <1>1, StopEngineSound DEF Kept, PlayFields
<1>3. n = Tui!ClearPlaybackTrack(
            [e EXCEPT !.starts = Tui!Outdated(@), !.buffering = FALSE,
                      !.due = FALSE, !.attempts = 0, !.liveDrain = FALSE, !.refusedSkips = 0])
  BY DEF Tui!StopPlayback
<1> HIDE DEF l, e, n
<1>4. /\ DOMAIN n = DOMAIN e /\ n.next = e.next /\ n.preloads = e.preloads
      /\ n.starts = Tui!Outdated(e.starts) /\ ~n.started /\ n.quitting = e.quitting
  BY <1>2, <1>3 DEF Base, Shape, PlayFields, Tui!ClearPlaybackTrack
<1>5. \A c \in n.starts : {"track", "current", "at"} \subseteq DOMAIN c /\ ~c.current
  BY <1>2, <1>4 DEF Tui!Outdated, Base, Shape
<1>6. Base(n) /\ Unarmed(n)
  BY <1>2, <1>4, <1>5 DEF Base, Shape, OnePreload, Unarmed
<1>7. ArmInv(n) /\ OneStart(n) /\ StartInv(n) /\ AnnouncedInv(n)
  BY <1>4, <1>5, <1>6 DEF ArmInv, Unarmed, OneStart, StartInv, AnnouncedInv
<1> QED BY <1>2, <1>4, <1>6, <1>7 DEF Sound, n

(* Nothing is awaited or armed as a track begins, and it is the one that   *)
(* is on.                                                                  *)
LEMMA BeginSound ==
  ASSUME NEW m, NEW t, Base(m)
  PROVE  LET n == Tui!BeginPlaybackTrack(m, t)
         IN  /\ Base(n) /\ Unarmed(n) /\ NoStart(n) /\ DOMAIN n = DOMAIN m
             /\ n.track = t /\ n.active /\ ~n.started 
             /\ Kept({"buffering", "cur", "playing", "advanced", "missed", "quitting"}, m, n)
<1> DEFINE d == Tui!ClearPreload(m)
           n == Tui!BeginPlaybackTrack(m, t)
<1>1. /\ Base(d) /\ Unarmed(d) /\ DOMAIN d = DOMAIN m
      /\ Kept((PlayFields \cup ListFields) \ {"next", "preloads"}, m, d)
  BY ClearSound
<1>2. n = Tui!SetPlaybackTrack(
            [d EXCEPT !.starts = Tui!Outdated(@), !.preloads = Tui!Outdated(@),
                      !.preloading = FALSE, !.preloadFailed = NoTrack, !.attempts = 0,
                      !.due = FALSE, !.liveDrain = FALSE], t)
  BY DEF Tui!BeginPlaybackTrack
<1> HIDE DEF d, n
<1>3. /\ DOMAIN n = DOMAIN d /\ n.next = d.next /\ n.preloads = Tui!Outdated(d.preloads)
      /\ n.starts = Tui!Outdated(d.starts) /\ n.track = t /\ n.active /\ ~n.started
  BY <1>1, <1>2 DEF Base, Shape, PlayFields, Tui!SetPlaybackTrack
<1>4. Kept({"buffering", "cur", "playing", "advanced", "missed", "quitting"}, d, n)
  BY <1>1, <1>2 DEF Base, Shape, PlayFields, Kept, Tui!SetPlaybackTrack
<1>5. \A c \in n.starts : {"track", "current", "at"} \subseteq DOMAIN c /\ ~c.current
  BY <1>1, <1>3 DEF Tui!Outdated, Base, Shape
<1>6. \A c \in n.preloads : /\ {"track", "current", "valid", "at"} \subseteq DOMAIN c
                            /\ ~c.current /\ ~c.valid
  BY <1>1, <1>3 DEF Tui!Outdated, Base, Shape, Unarmed
<1>7. Base(n) /\ Unarmed(n) /\ NoStart(n)
  BY <1>1, <1>3, <1>5, <1>6 DEF Base, Shape, OnePreload, Unarmed, NoStart
<1>8. Kept({"buffering", "cur", "playing", "advanced", "missed", "quitting"}, m, n)
  BY <1>1, <1>4 DEF Kept, PlayFields
<1> QED BY <1>1, <1>3, <1>7, <1>8 DEF n

(* A preload begins only when nothing is armed or awaited.                 *)
LEMMA PreloadSound ==
  ASSUME NEW m, Sound(m), m.next = NoTrack, NoStart(m), NEW near
  PROVE  LET n == Tui!PreloadNext(m, near) IN Sound(n) /\ n.quitting = m.quitting
<1> DEFINE t == Tui!PreloadTarget(m)
           old == Tui!Outdated(Tui!Invalid(m.preloads))
           new == [track |-> t, current |-> TRUE, valid |-> TRUE, at |-> "opening"]
           n == [m EXCEPT !.preloading = TRUE, !.preloadFor = t, !.preloads = old \cup {new}]
<1>1. Tui!PreloadNext(m, near) \in {m, n}
  BY DEF Tui!PreloadNext
<1>2. \A c \in old : /\ {"track", "current", "valid", "at"} \subseteq DOMAIN c
                     /\ ~c.current /\ ~c.valid
  BY InvalidFact DEF Tui!Outdated, Sound, Base, Shape
<1>3. /\ {"track", "current", "valid", "at"} \subseteq DOMAIN new
      /\ new.current /\ new.valid /\ new.track = t
  OBVIOUS
<1> HIDE DEF old, new, t
<1>4. /\ DOMAIN n = DOMAIN m /\ n.preloading /\ n.preloadFor = t /\ n.preloads = old \cup {new}
      /\ Kept(PlayFields \ {"preloading", "preloadFor", "preloads"}, m, n)
  BY DEF Sound, Base, Shape, Kept, PlayFields
<1> HIDE DEF n
<1>5. /\ n.track = m.track /\ n.active = m.active /\ n.started = m.started
      /\ n.buffering = m.buffering /\ n.starts = m.starts 
      /\ n.cur = m.cur /\ n.next = m.next /\ n.playing = m.playing /\ n.advanced = m.advanced
      /\ n.missed = m.missed /\ n.quitting = m.quitting
  BY <1>4 DEF Kept, PlayFields
<1>6. Base(n)
  BY <1>2, <1>3, <1>4, <1>5 DEF Sound, Base, Shape, OnePreload
<1>7. ArmInv(n)
  BY <1>2, <1>3, <1>4, <1>5 DEF ArmInv
<1>8. OneStart(n) /\ StartInv(n) /\ AnnouncedInv(n)
  BY <1>5 DEF Sound, OneStart, StartInv, NoStart, AnnouncedInv
<1> QED BY <1>1, <1>5, <1>6, <1>7, <1>8 DEF Sound

(* playTrack: a start is awaited, or the engine plays what is announced.   *)
LEMMA PlayTrackSound ==
  ASSUME NEW m, Base(m), ~m.quitting, NEW t, t # NoTrack, NEW c
  PROVE  LET n == Tui!PlayTrack(m, t, c) IN Sound(n) /\ ~n.quitting
<1> DEFINE l == Tui!LeaveTrack(m, c.half)
           b == Tui!BeginPlaybackTrack(l, t)
<1>1. Base(l) /\ l.quitting = m.quitting
  BY LeaveKept, KeptBase DEF Kept, PlayFields
<1>2. /\ Base(b) /\ Unarmed(b) /\ NoStart(b) /\ b.track = t /\ b.active /\ ~b.started
      /\ b.quitting = m.quitting
  BY <1>1, BeginSound DEF Kept
<1>3. CASE Kind[t] # "direct"
  <2> DEFINE new == [track |-> t, current |-> TRUE, at |-> "opening"]
             n == [b EXCEPT !.buffering = TRUE, !.starts = @ \cup {new}]
  <2>1. Tui!PlayTrack(m, t, c) = n
    BY <1>3 DEF Tui!PlayTrack
  <2>2. /\ {"track", "current", "at"} \subseteq DOMAIN new
        /\ new.current /\ new.track = t /\ new.at # "played"
    OBVIOUS
  <2> HIDE DEF b, new
  <2>3. /\ DOMAIN n = DOMAIN b /\ n.buffering /\ n.starts = b.starts \cup {new}
        /\ n.next = b.next /\ n.preloads = b.preloads /\ n.track = b.track
        /\ n.active = b.active /\ n.started = b.started /\ n.quitting = b.quitting
    BY <1>2 DEF Base, Shape, PlayFields
  <2> HIDE DEF n
  <2>4. Base(n) /\ Unarmed(n)
    BY <1>2, <2>2, <2>3 DEF Base, Shape, OnePreload, Unarmed
  <2>5. ArmInv(n) /\ OneStart(n) /\ StartInv(n) /\ AnnouncedInv(n)
    BY <1>2, <2>2, <2>3, <2>4 DEF ArmInv, OneStart, StartInv, NoStart, AnnouncedInv, Unarmed
  <2> QED BY <1>2, <2>1, <2>3, <2>4, <2>5 DEF Sound
<1>4. CASE Kind[t] = "direct"
  <2> DEFINE e == Tui!EngineStarts(b, t)
             p == Tui!NowPlaying(e, t)
             n == IF c.opens THEN p ELSE b
  <2>1. Tui!PlayTrack(m, t, c) = Tui!PreloadNext(n, c.near)
    BY <1>4 DEF Tui!PlayTrack
  <2> HIDE DEF b
  <2>2. /\ DOMAIN p = DOMAIN b /\ p.cur = t /\ p.next = NoTrack /\ p.track = b.track
        /\ p.active = b.active /\ p.started /\ p.quitting = b.quitting
        /\ p.starts = b.starts /\ p.preloads = b.preloads
    BY <1>2 DEF Base, Shape, PlayFields, Tui!EngineStarts, Tui!NowPlaying, Tui!Add
  <2> HIDE DEF p
  <2>3. Sound(p) /\ p.next = NoTrack /\ NoStart(p)
    BY <1>2, <2>2 DEF Sound, Base, Shape, OnePreload, ArmInv, OneStart, StartInv, NoStart, 
                      AnnouncedInv, Unarmed
  <2>4. Sound(b) /\ b.next = NoTrack 
    BY <1>2 DEF Sound, ArmInv, OneStart, StartInv, NoStart, AnnouncedInv, Unarmed
  <2>5. Sound(n) /\ n.next = NoTrack /\ NoStart(n) /\ ~n.quitting
    BY <1>2, <2>2, <2>3, <2>4
  <2> HIDE DEF n
  <2> QED BY <2>1, <2>5, PreloadSound
<1> QED BY <1>3, <1>4

(* nextTrack: the next row plays, or playback stops. *)
LEMMA NextTrackSound ==
  ASSUME NEW m, Base(m), ~m.quitting, NEW c
  PROVE  LET n == Tui!NextTrack(m, c) IN Sound(n) /\ ~n.quitting
<1>1. CASE Tui!UpcomingTrack(m) = NoTrack
  <2> DEFINE d == [m EXCEPT !.detached = FALSE]
  <2>1. Tui!NextTrack(m, c) = Tui!StopPlayback(d, c.half)
    BY <1>1 DEF Tui!NextTrack, Tui!EndQueue
  <2>2. DOMAIN d = DOMAIN m /\ Kept(PlayFields, m, d) /\ d.quitting = m.quitting
    BY DEF Kept, PlayFields, Base, Shape
  <2> HIDE DEF d
  <2>3. Base(d)
    BY <2>2, KeptBase
  <2> QED BY <2>1, <2>2, <2>3, StopSound
<1>2. CASE Tui!UpcomingTrack(m) # NoTrack
  <2> DEFINE d == Tui!Advanced(m)
  <2>1. Tui!NextTrack(m, c) = Tui!PlayTrack(d, Tui!UpcomingTrack(m), c)
    BY <1>2 DEF Tui!NextTrack
  <2>2. DOMAIN d = DOMAIN m /\ Kept(PlayFields, m, d) /\ d.quitting = m.quitting
    BY DEF Kept, PlayFields, Base, Shape, Tui!Advanced
  <2> QED BY <1>2, <2>1, <2>2, KeptBase, PlayTrackSound
<1> QED BY <1>1, <1>2

(* playCurrentTrack: the row plays, or playback stops. *)
LEMMA PlayCurrentSound ==
  ASSUME NEW m, Sound(m), ~m.quitting, NEW c
  PROVE  Sound(Tui!PlayCurrentTrack(m, c))
BY PlayTrackSound, StopSound DEF Tui!PlayCurrentTrack, Sound

-----------------------------------------------------------------------------
(* The messages of the user.                                               *)

(* Fields that do not matter.                                              *)
LEMMA OthersKept ==
  ASSUME NEW m, Sound(m), NEW x
  PROVE  /\ LET n == [m EXCEPT !.calls = x] IN Sound(n) /\ n.quitting = m.quitting
         /\ LET n == [m EXCEPT !.paused = x] IN Sound(n) /\ n.quitting = m.quitting
         /\ LET n == [m EXCEPT !.rows = x] IN Sound(n) /\ n.quitting = m.quitting
         /\ LET n == [m EXCEPT !.idx = x] IN Sound(n) /\ n.quitting = m.quitting
<1> DEFINE n1 == [m EXCEPT !.calls = x]
           n2 == [m EXCEPT !.paused = x]
           n3 == [m EXCEPT !.rows = x]
           n4 == [m EXCEPT !.idx = x]
<1>1. /\ DOMAIN n1 = DOMAIN m /\ Kept(PlayFields, m, n1) /\ n1.quitting = m.quitting
      /\ DOMAIN n2 = DOMAIN m /\ Kept(PlayFields, m, n2) /\ n2.quitting = m.quitting
      /\ DOMAIN n3 = DOMAIN m /\ Kept(PlayFields, m, n3) /\ n3.quitting = m.quitting
      /\ DOMAIN n4 = DOMAIN m /\ Kept(PlayFields, m, n4) /\ n4.quitting = m.quitting
  BY DEF Kept, PlayFields, Sound, Base, Shape
<1> HIDE DEF n1, n2, n3, n4
<1>2. Sound(n1) /\ Sound(n2) /\ Sound(n3) /\ Sound(n4)
  BY <1>1, KeptSound
<1> QED BY <1>1, <1>2 DEF n1, n2, n3, n4

(* Enter on a row. *)
LEMMA JumpSound ==
  ASSUME Sound(model), NEW i, Tui!PlayIndex(i)
  PROVE  PlaybackInv(model')
<1> DEFINE m == [model EXCEPT !.calls = @ + 1]
           n == [m EXCEPT !.idx = i]
<1>1. ~model.quitting /\ \E c : model' = Tui!Handled(Tui!PlayCurrentTrack(n, c))
  BY DEF Tui!PlayIndex, Tui!Command
<1>2. Sound(m) /\ ~m.quitting
  BY <1>1, OthersKept
<1> HIDE DEF m
<1>3. Sound(n) /\ ~n.quitting
  BY <1>2, OthersKept
<1> HIDE DEF n
<1> QED BY <1>1, <1>3, PlayCurrentSound, HandledSound

(* Next, and stop. *)
LEMMA SkipSound ==
  ASSUME Sound(model), Tui!SkipNext \/ Tui!StopByUser
  PROVE  PlaybackInv(model')
<1> DEFINE m == [model EXCEPT !.calls = @ + 1]
<1>1. ~model.quitting /\ \E c : \/ model' = Tui!Handled(Tui!NextTrack(m, c))
                                \/ model' = Tui!Handled(Tui!StopPlayback(m, c.half))
  BY DEF Tui!SkipNext, Tui!StopByUser, Tui!Command
<1>2. Sound(m) /\ ~m.quitting
  BY <1>1, OthersKept
<1> HIDE DEF m
<1> QED BY <1>1, <1>2, NextTrackSound, StopSound, HandledSound DEF Sound

(* Without a start under way the engine may be stopped, and what is armed  *)
(* dropped at any time.                                                    *)
LEMMA ClearedSound ==
  ASSUME NEW m, Sound(m)
  PROVE  LET n == Tui!ClearPreload(m) IN Sound(n) /\ n.quitting = m.quitting
<1> DEFINE n == Tui!ClearPreload(m)
<1>1. /\ Base(n) /\ Unarmed(n)
      /\ Kept((PlayFields \cup ListFields) \ {"next", "preloads"}, m, n)
  BY ClearSound DEF Sound
<1> HIDE DEF n
<1>2. Kept(PlayFields \ {"next", "preloads", "preloading"}, m, n) /\ n.quitting = m.quitting
  BY <1>1 DEF Kept, PlayFields
<1> QED BY <1>1, <1>2, UnarmedSound DEF n

(* Without a start under way the engine may be stopped at any time.        *)
LEMMA StoppedSound ==
  ASSUME NEW m, Sound(m), NoStart(m)
  PROVE  LET n == Tui!EngineStop(m)
         IN  Sound(n) /\ NoStart(n) /\ n.quitting = m.quitting /\ ~n.advanced
<1> DEFINE n == Tui!EngineStop(m)
<1>1. /\ Base(n) /\ Unarmed(n) /\ ~n.playing /\ ~n.advanced
      /\ Kept((PlayFields \cup ListFields) 
                \ {"next", "preloads", "cur", "playing", "advanced", "missed"}, m, n)
  BY StopEngineSound DEF Sound
<1> HIDE DEF n
<1>2. /\ n.active = m.active /\ n.started = m.started /\ n.starts = m.starts
      /\ n.quitting = m.quitting
  BY <1>1 DEF Kept, PlayFields
<1>3. NoStart(n)
  BY <1>2 DEF NoStart
<1>4. ArmInv(n) /\ OneStart(n) /\ StartInv(n) /\ AnnouncedInv(n)
  BY <1>1, <1>2, <1>3 DEF Sound, ArmInv, Unarmed, OneStart, StartInv, NoStart, AnnouncedInv
<1> QED BY <1>1, <1>2, <1>3, <1>4 DEF Sound, n

(* No start is awaited unless the UI is buffering. *)
LEMMA NoStartUnlessBuffering ==
  ASSUME NEW m, Sound(m), ~m.quitting, ~m.buffering
  PROVE  NoStart(m)
BY DEF Sound, StartInv, NoStart

(* togglePlayPause. *)
LEMMA PauseSound ==
  ASSUME Sound(model), Tui!TogglePlayPause
  PROVE  PlaybackInv(model')
<1> DEFINE m == [model EXCEPT !.calls = @ + 1]
           t == Tui!CurrentPlaybackTrack(m)
<1>1. ~model.quitting /\ \E c : model' = Tui!Handled(
        IF ~m.playing THEN Tui!PlayCurrentTrack(m, c)
        ELSE IF m.paused /\ t # NoTrack /\ Tui!PlaysLive(m, t)
             THEN Tui!PlayTrack(Tui!EngineStop(m), t, c)
             ELSE [m EXCEPT !.paused = ~@])
  BY DEF Tui!TogglePlayPause, Tui!Command
<1>2. Sound(m) /\ ~m.quitting
  BY <1>1, OthersKept
<1> HIDE DEF m, t
<1>3. Base(Tui!EngineStop(m)) /\ ~Tui!EngineStop(m).quitting
  BY <1>2, StopEngineSound DEF Sound, Kept, PlayFields
<1>4. \A c : t # NoTrack => Sound(Tui!PlayTrack(Tui!EngineStop(m), t, c))
  BY <1>3, PlayTrackSound
<1> QED BY <1>1, <1>2, <1>4, PlayCurrentSound, OthersKept, HandledSound

(* Removing a row, the one that plays among them. *)
LEMMA RemoveSound ==
  ASSUME Sound(model), NEW i, Tui!RemoveSelected(i)
  PROVE  PlaybackInv(model')
<1> DEFINE m == [model EXCEPT !.calls = @ + 1]
           rest == Tui!RemoveAt(m.rows, i)
           pos == IF i < m.idx THEN m.idx - 1 ELSE m.idx
           p == IF pos > Len(rest) /\ rest # <<>> THEN Len(rest) ELSE pos
           gone == [m EXCEPT !.rows = rest, !.idx = p]
<1>1. ~model.quitting /\ \E c : model' = Tui!Handled(
        IF i = m.idx THEN Tui!ClearPreload(Tui!StopPlayback(gone, c.half)) ELSE gone)
  BY DEF Tui!RemoveSelected, Tui!Command
<1>2. Sound(m)
  BY OthersKept
<1> HIDE DEF m
<1>3. DOMAIN gone = DOMAIN m /\ Kept(PlayFields, m, gone)
  BY <1>2 DEF Kept, PlayFields, Sound, Base, Shape
<1> HIDE DEF gone
<1>4. Sound(gone)
  BY <1>2, <1>3, KeptSound
<1>5. \A c : Sound(Tui!ClearPreload(Tui!StopPlayback(gone, c.half)))
  BY <1>4, StopSound, ClearedSound DEF Sound
<1> QED BY <1>1, <1>4, <1>5, HandledSound

(* Adding a track, which plays if nothing does. *)
LEMMA AppendSound ==
  ASSUME Sound(model), NEW t, Tui!AppendTrack(t)
  PROVE  PlaybackInv(model')
<1> DEFINE m == [model EXCEPT !.calls = @ + 1]
           added == [m EXCEPT !.rows = Append(@, t)]
           there == [added EXCEPT !.idx = Len(added.rows)]
<1>1. ~model.quitting /\ \E c : model' = Tui!Handled(
        IF m.rows = <<>> \/ ~m.playing THEN Tui!PlayCurrentTrack(there, c) ELSE added)
  BY DEF Tui!AppendTrack, Tui!Command
<1>2. Sound(m) /\ ~m.quitting
  BY <1>1, OthersKept
<1> HIDE DEF m
<1>3. Sound(added) /\ ~added.quitting
  BY <1>2, OthersKept
<1> HIDE DEF added
<1>4. Sound(there) /\ ~there.quitting
  BY <1>3, OthersKept
<1> HIDE DEF there
<1> QED BY <1>1, <1>3, <1>4, PlayCurrentSound, HandledSound

(* Moving a row: what is armed is dropped, and armed anew. *)
LEMMA MoveSound ==
  ASSUME Sound(model), NEW i, NEW j, Tui!MoveTrack(i, j)
  PROVE  PlaybackInv(model')
<1> DEFINE m == [model EXCEPT !.calls = @ + 1]
           n == [m EXCEPT !.rows = [@ EXCEPT ![i] = m.rows[j], ![j] = m.rows[i]],
                          !.idx = IF @ = i THEN j ELSE IF @ = j THEN i ELSE @]
           d == Tui!DropStalePreload(n)
<1>1. ~model.quitting /\ \E c : model' = Tui!Handled(Tui!RearmStalePreload(n, c.near))
  BY DEF Tui!MoveTrack, Tui!Command
<1>2. Sound(m) /\ ~m.quitting
  BY <1>1, OthersKept
<1> HIDE DEF m
<1>3. DOMAIN n = DOMAIN m /\ Kept(PlayFields, m, n)
  BY <1>2 DEF Kept, PlayFields, Sound, Base, Shape
<1> HIDE DEF n
<1>4. Sound(n) /\ ~n.quitting
  BY <1>2, <1>3, KeptSound, KeptFields
<1>5. Sound(d) /\ ~d.quitting
  BY <1>4, DropSound DEF Kept, PlayFields
<1>6. ASSUME NEW near PROVE Sound(Tui!RearmStalePreload(n, near))
  <2>1. \/ Tui!RearmStalePreload(n, near) = d
        \/ /\ ~d.buffering /\ d.next = NoTrack
           /\ Tui!RearmStalePreload(n, near) = Tui!PreloadNext(d, near)
    BY DEF Tui!RearmStalePreload
  <2> HIDE DEF d
  <2> QED BY <1>5, <2>1, NoStartUnlessBuffering, PreloadSound
<1> QED BY <1>1, <1>6, HandledSound

(* Another list: what plays goes on, detached. *)
LEMMA ReplacePlayingSound ==
  ASSUME Sound(model), NEW rows, Tui!ReplacePlayerPlaylist(rows)
  PROVE  PlaybackInv(model')
<1> DEFINE m == [model EXCEPT !.calls = @ + 1]
           d == Tui!DetachPlaybackTrack(m)
           p == Tui!ClearPreload(d)
           e == Tui!EngineStop(m)
           kept == IF m.playing \/ m.buffering
                   THEN [p EXCEPT !.preloading = FALSE]
                   ELSE Tui!ClearPlaybackTrack(e)
           n == [kept EXCEPT !.rows = rows, !.idx = 1]
<1>1. ~model.quitting /\ model' = Tui!Handled(n)
  BY DEF Tui!ReplacePlayerPlaylist, Tui!Command
<1>2. Sound(m) /\ ~m.quitting
  BY <1>1, OthersKept
<1> HIDE DEF m
<1>3. CASE m.playing \/ m.buffering
  <2> DEFINE t == Tui!CurrentPlaybackTrack(m)
             g == [m EXCEPT !.track = t, !.active = TRUE, !.detached = TRUE]
             q == [p EXCEPT !.preloading = FALSE]
  <2>1. d = m \/ (t # NoTrack /\ d = g)
    BY DEF Tui!DetachPlaybackTrack
  <2>2. m.active => t = m.track
    BY <1>3 DEF Tui!CurrentPlaybackTrack
  <2>3. /\ DOMAIN g = DOMAIN m /\ Kept(PlayFields \ {"track", "active"}, m, g) 
        /\ g.track = t /\ g.active
    BY <1>2 DEF Kept, PlayFields, Sound, Base, Shape
  <2> HIDE DEF d, t, g
  <2>4. /\ g.started = m.started
        /\ g.buffering = m.buffering /\ g.starts = m.starts /\ g.preloading = m.preloading
        /\ g.preloadFor = m.preloadFor /\ g.preloads = m.preloads /\ g.cur = m.cur
        /\ g.next = m.next /\ g.playing = m.playing /\ g.advanced = m.advanced
        /\ g.missed = m.missed /\ g.quitting = m.quitting
    BY <2>3 DEF Kept, PlayFields
  <2>5. Base(g) /\ ArmInv(g) /\ OneStart(g)
    BY <1>2, <2>3, <2>4 DEF Sound, Base, Shape, OnePreload, ArmInv, OneStart
  <2>6. StartInv(g)
    BY <1>2, <2>2, <2>3, <2>4 DEF Sound, StartInv, Unarmed
  <2>7. AnnouncedInv(g)
    BY <1>2, <2>2, <2>3, <2>4 DEF Sound, AnnouncedInv
  <2>8. Sound(d)
    BY <1>2, <2>1, <2>5, <2>6, <2>7 DEF Sound
  <2>9. Base(p) /\ Unarmed(p) /\ Kept((PlayFields \cup ListFields) \ {"next", "preloads"}, d, p)
    BY <2>8, ClearSound DEF Sound
  <2> HIDE DEF p
  <2>10. n = [q EXCEPT !.rows = rows, !.idx = 1]
    BY <1>3
  <2>11. DOMAIN n = DOMAIN p /\ Kept(PlayFields \ {"preloading"}, p, n)
    BY <2>9, <2>10 DEF Kept, PlayFields, Base, Shape
  <2> HIDE DEF n, kept
  <2>12. n.next = p.next /\ n.preloads = p.preloads /\ n.starts = p.starts
    BY <2>11 DEF Kept, PlayFields
  <2>13. Base(n) /\ Unarmed(n)
    BY <2>9, <2>11, <2>12 DEF Base, Shape, OnePreload, Unarmed
  <2>14. Kept(PlayFields \ {"next", "preloads", "preloading"}, d, n)
    BY <2>9, <2>11 DEF Kept
  <2> QED BY <1>1, <2>8, <2>13, <2>14, UnarmedSound, HandledSound
<1>4. CASE ~(m.playing \/ m.buffering)
  <2> DEFINE q == Tui!ClearPlaybackTrack(e)
  <2>1. n = [q EXCEPT !.rows = rows, !.idx = 1]
    BY <1>4
  <2>2. Sound(e) /\ NoStart(e)
    BY <1>2, <1>4, NoStartUnlessBuffering, StoppedSound
  <2>3. Unarmed(e)
    BY <1>2, StopEngineSound DEF Sound
  <2> HIDE DEF e
  <2>4. /\ DOMAIN n = DOMAIN e /\ n.starts = e.starts /\ n.preloads = e.preloads
        /\ n.next = e.next /\ ~n.started
    BY <2>1, <2>2 DEF Tui!ClearPlaybackTrack, PlayFields, Sound, Base, Shape
  <2> HIDE DEF n
  <2>5. Base(n) /\ ArmInv(n) /\ OneStart(n) /\ StartInv(n) /\ AnnouncedInv(n)
    BY <2>2, <2>3, <2>4 DEF Sound, Base, Shape, OnePreload, ArmInv, Unarmed, OneStart,
                            StartInv, NoStart, AnnouncedInv
  <2> QED BY <1>1, <2>5, HandledSound DEF Sound
<1> QED BY <1>3, <1>4

(* shutdown. *)
LEMMA QuitSound ==
  ASSUME PlaybackInv(model), Tui!Quit
  PROVE  PlaybackInv(model')
<1>1. PICK half : model' = [Tui!ClearPlaybackTrack(Tui!EngineStop(Tui!LeaveTrack(model, half)))
                              EXCEPT !.quitting = TRUE]
  BY DEF Tui!Quit
<1> DEFINE l == Tui!LeaveTrack(model, half)
           e == Tui!EngineStop(l)
<1>2. Base(l) /\ l.starts = model.starts
  BY LeaveKept, KeptBase DEF Kept, PlayFields, PlaybackInv, Sound
<1>3. Base(e) /\ Unarmed(e) /\ e.starts = model.starts /\ ~e.advanced
  BY <1>2, StopEngineSound DEF Kept, PlayFields
<1>4. model' = [Tui!ClearPlaybackTrack(e) EXCEPT !.quitting = TRUE]
  BY <1>1
<1> HIDE DEF e
<1>5. /\ DOMAIN model' = DOMAIN e /\ (model').starts = e.starts /\ (model').preloads = e.preloads
      /\ (model').next = e.next /\ ~(model').started /\ (model').quitting
      /\ (model').advanced = e.advanced
  BY <1>3, <1>4 DEF Tui!ClearPlaybackTrack, PlayFields, Base, Shape
<1>6. Base(model')
  BY <1>3, <1>5 DEF Base, Shape, OnePreload
<1>7. Unarmed(model') /\ OneStart(model') /\ StartInv(model') /\ AnnouncedInv(model')
  BY <1>3, <1>5 DEF PlaybackInv, Sound, Unarmed, OneStart, StartInv, AnnouncedInv
<1>8. ArmInv(model') /\ UpcomingInv(model') /\ SwitchInv(model')
  BY <1>3, <1>5, <1>7 DEF ArmInv, UpcomingInv, SwitchInv, Unarmed
<1> QED BY <1>6, <1>7, <1>8 DEF PlaybackInv, Sound

-----------------------------------------------------------------------------
(* The tick.                                                               *)

(* scheduleReconnect. *)
LEMMA ReconnectKept ==
  ASSUME NEW m, Shape(m), NEW live
  PROVE  /\ LET n == Tui!ScheduleReconnect(m)
            IN  DOMAIN n = DOMAIN m /\ Kept(PlayFields \cup ListFields, m, n)
         /\ LET n == [Tui!ScheduleReconnect(m) EXCEPT !.liveDrain = live]
            IN  DOMAIN n = DOMAIN m /\ Kept(PlayFields \cup ListFields, m, n)
BY DEF Tui!ScheduleReconnect, Kept, Shape, PlayFields, ListFields

(* tickStreamHealth and the progress report. *)
LEMMA HealthKept ==
  ASSUME NEW m, Shape(m), NEW report
  PROVE  LET n == Tui!TickStreamHealth(Tui!TickProgressReport(m, report))
         IN  DOMAIN n = DOMAIN m /\ Kept(PlayFields \cup ListFields, m, n)
<1> DEFINE p == Tui!TickProgressReport(m, report)
           n == Tui!TickStreamHealth(p)
<1>1. DOMAIN p = DOMAIN m /\ Kept(PlayFields \cup ListFields, m, p)
  BY DEF Tui!TickProgressReport, Tui!Add, Kept, Shape, PlayFields, ListFields
<1> HIDE DEF p
<1>2. DOMAIN n = DOMAIN p /\ Kept(PlayFields \cup ListFields, p, n)
  BY <1>1 DEF Tui!TickStreamHealth, Tui!ScheduleReconnect, Kept, Shape, PlayFields, ListFields
<1> HIDE DEF n
<1>3. DOMAIN n = DOMAIN m /\ Kept(PlayFields \cup ListFields, m, n)
  BY <1>1, <1>2 DEF Kept
<1> QED BY <1>3 DEF n, p

(* tickPreloadRetry. *)
LEMMA RetrySound ==
  ASSUME NEW m, Sound(m), ~m.quitting, NEW near
  PROVE  Sound(Tui!TickPreloadRetry(m, near))
<1>1. \/ Tui!TickPreloadRetry(m, near) = m
      \/ /\ ~m.buffering /\ m.next = NoTrack
         /\ Tui!TickPreloadRetry(m, near) = Tui!PreloadNext(m, near)
  BY DEF Tui!TickPreloadRetry
<1> QED BY <1>1, NoStartUnlessBuffering, PreloadSound

(* tickDrain. *)
LEMMA DrainSound ==
  ASSUME NEW m, Sound(m), ~m.quitting, NEW c
  PROVE  LET n == Tui!TickDrain(m, c) IN Sound(n) /\ ~n.quitting
<1> DEFINE t == Tui!CurrentPlaybackTrack(m)
           l == Tui!LeaveTrack(m, TRUE)
           e == Tui!EngineStop(l)
           r == [Tui!ScheduleReconnect(m) EXCEPT !.liveDrain = Tui!Ytdl(t)]
           n == Tui!TickDrain(m, c)
<1>1. n \in {m, r, Tui!NextTrack(e, c)}
  BY DEF Tui!TickDrain
<1>2. DOMAIN r = DOMAIN m /\ Kept(PlayFields \cup ListFields, m, r)
  BY ReconnectKept DEF Sound, Base
<1>3. Base(l) /\ ~l.quitting
  BY LeaveKept, KeptBase DEF Kept, PlayFields, Sound
<1> HIDE DEF l, r, n
<1>4. Base(e) /\ ~e.quitting
  BY <1>3, StopEngineSound DEF Kept, PlayFields
<1>5. Sound(r) /\ ~r.quitting
  BY <1>2, KeptSound, KeptFields DEF Kept
<1> HIDE DEF e
<1> QED BY <1>1, <1>4, <1>5, NextTrackSound DEF n

(* The track the engine has switched to is the one announced next.         *)
LEMMA GaplessSound ==
  ASSUME NEW m, Sound(m), SwitchInv(m), m.advanced, ~m.quitting, NEW c
  PROVE  LET n == Tui!TickGapless(m, c) IN Sound(n) /\ ~n.quitting
<1> DEFINE f == [m EXCEPT !.advanced = FALSE]
           l == Tui!LeaveTrack(f, TRUE)
           t == Tui!UpcomingTrack(l)
           a == Tui!Advanced(l)
           b == Tui!BeginPlaybackTrack(a, t)
           p == [b EXCEPT !.preloading = FALSE]
           n == Tui!NowPlaying(p, t)
           z == [l EXCEPT !.detached = FALSE]
<1>1. Tui!TickGapless(m, c) = IF t = NoTrack THEN Tui!StopPlayback(z, FALSE)
                              ELSE Tui!PreloadNext(n, c.near)
  BY DEF Tui!TickGapless, Tui!EndQueue
<1>2. /\ DOMAIN f = DOMAIN m /\ ~f.advanced
      /\ Kept((PlayFields \cup ListFields) \ {"advanced"}, m, f)
  BY DEF Kept, PlayFields, ListFields, Sound, Base, Shape
<1> HIDE DEF f
<1>3. f.preloads = m.preloads /\ f.starts = m.starts
  BY <1>2 DEF Kept, PlayFields
<1>4. Base(f)
  BY <1>2, <1>3 DEF Sound, Base, Shape, OnePreload
<1>5. DOMAIN l = DOMAIN f /\ Kept(PlayFields \cup ListFields, f, l)
  BY <1>4, LeaveKept
<1> HIDE DEF l
<1>6. /\ Base(l) /\ ~l.advanced /\ l.cur = m.cur /\ l.missed = m.missed /\ ~l.quitting
      /\ Kept(ListFields, m, l)
  BY <1>2, <1>4, <1>5, KeptBase DEF Kept, PlayFields, ListFields
<1>7. ~m.missed => m.cur = t
  BY <1>6, SameUpcoming DEF SwitchInv
<1>8. DOMAIN a = DOMAIN l /\ Kept(PlayFields, l, a)
  BY <1>6 DEF Kept, PlayFields, Base, Shape, Tui!Advanced
<1>9. DOMAIN z = DOMAIN l /\ Kept(PlayFields, l, z) /\ ~z.quitting
  BY <1>6 DEF Kept, PlayFields, Base, Shape
<1> HIDE DEF t, a, z
<1>10. Base(a) /\ ~a.advanced /\ a.cur = m.cur /\ a.missed = m.missed /\ ~a.quitting
  BY <1>6, <1>8, KeptBase DEF Kept, PlayFields
<1>11. /\ Base(b) /\ Unarmed(b) /\ NoStart(b) /\ b.track = t /\ b.active
       /\ ~b.advanced /\ b.cur = m.cur /\ b.missed = m.missed /\ ~b.quitting
  BY <1>10, BeginSound DEF Kept
<1> HIDE DEF b
<1>12. /\ DOMAIN n = DOMAIN b /\ n.next = b.next /\ n.preloads = b.preloads
       /\ n.starts = b.starts /\ n.track = b.track /\ n.active = b.active
       /\ n.cur = b.cur /\ n.missed = b.missed /\ n.quitting = b.quitting
  BY <1>11 DEF Base, Shape, PlayFields, Tui!NowPlaying, Tui!Add
<1> HIDE DEF n
<1>13. Base(n) /\ Unarmed(n) /\ NoStart(n)
  BY <1>11, <1>12 DEF Base, Shape, OnePreload, Unarmed, NoStart
<1>14. Sound(n) /\ ~n.quitting /\ n.next = NoTrack
  BY <1>7, <1>11, <1>12, <1>13 DEF Sound, ArmInv, OneStart, StartInv, NoStart, AnnouncedInv, Unarmed
<1>15. Sound(Tui!StopPlayback(z, FALSE)) /\ ~Tui!StopPlayback(z, FALSE).quitting
  BY <1>6, <1>9, KeptBase, StopSound
<1> QED BY <1>1, <1>13, <1>14, <1>15, PreloadSound

(* tickReconnect. *)
LEMMA RestartSound ==
  ASSUME NEW m, Sound(m), ~m.quitting, NEW t, t # NoTrack, NEW c
  PROVE  Sound(Tui!Restart(m, t, c))
<1> DEFINE d == [m EXCEPT !.due = FALSE]
           e == Tui!EngineStop(d)
           p == Tui!PlayTrack(e, t, c)
           q == [p EXCEPT !.liveDrain = TRUE, !.attempts = m.attempts]
<1>1. Tui!Restart(m, t, c) \in {p, q}
  BY DEF Tui!Restart
<1>2. DOMAIN d = DOMAIN m /\ Kept(PlayFields, m, d) 
  BY DEF Kept, PlayFields, Sound, Base, Shape
<1> HIDE DEF d
<1>3. Base(d) /\ ~d.quitting
  BY <1>2, KeptBase, KeptFields DEF Sound
<1>4. Base(e) /\ ~e.quitting
  BY <1>3, StopEngineSound DEF Kept, PlayFields
<1> HIDE DEF e
<1>5. Sound(p)
  BY <1>4, PlayTrackSound
<1> HIDE DEF p
<1>6. DOMAIN q = DOMAIN p /\ Kept(PlayFields, p, q)
  BY <1>5 DEF Kept, PlayFields, Sound, Base, Shape
<1> HIDE DEF q
<1> QED BY <1>1, <1>5, <1>6, KeptSound

(* The tick, in its order. *)
LEMMA TickSound ==
  ASSUME PlaybackInv(model), Tui!Tick
  PROVE  PlaybackInv(model')
<1>1. ~model.quitting /\ \E c \in Tui!Chances : model' = Tui!Handled(Tui!HandleTick(model, c))
  BY DEF Tui!Tick
<1>2. PICK c \in Tui!Chances : model' = Tui!Handled(Tui!HandleTick(model, c))
  BY <1>1
<1> DEFINE h == Tui!TickStreamHealth(Tui!TickProgressReport(model, c.report))
           t == Tui!CurrentPlaybackTrack(h)
           d == [h EXCEPT !.due = FALSE]
           e == Tui!EngineStop(d)
           r == IF h.due /\ c.over THEN e ELSE h
           g == Tui!TickGapless(r, c)
           w == Tui!TickDrain(r, c)
<1>3. Tui!HandleTick(model, c) =
        IF h.due /\ c.over /\ t # NoTrack THEN Tui!Restart(h, t, c)
        ELSE IF r.advanced THEN IF g.active THEN Tui!TickPreloadRetry(g, c.near) ELSE g
        ELSE Tui!TickPreloadRetry(w, c.near)
  BY DEF Tui!HandleTick
<1>4. DOMAIN h = DOMAIN model /\ Kept(PlayFields \cup ListFields, model, h)
  BY HealthKept DEF PlaybackInv, Sound, Base
<1> HIDE DEF h
<1>5. Sound(h) /\ ~h.quitting
  BY <1>1, <1>4, KeptSound, KeptFields DEF Kept, PlaybackInv
<1>6. SwitchInv(h)
  <2>1. Tui!UpcomingTrack(h) = Tui!UpcomingTrack(model)
    BY <1>4, SameUpcoming DEF Kept
  <2>2. h.advanced = model.advanced /\ h.missed = model.missed /\ h.cur = model.cur
    BY <1>4 DEF Kept, PlayFields
  <2> QED BY <2>1, <2>2 DEF SwitchInv, PlaybackInv
<1>7. CASE h.due /\ c.over /\ t # NoTrack
  <2>1. Sound(Tui!Restart(h, t, c))
    BY <1>5, <1>7, RestartSound
  <2> QED BY <1>2, <1>3, <1>7, <2>1, HandledSound
<1>8. CASE ~(h.due /\ c.over /\ t # NoTrack)
  <2>1. ASSUME t = NoTrack PROVE NoStart(h)
    BY <1>5, <2>1 DEF Sound, StartInv, NoStart, Tui!CurrentPlaybackTrack
  <2>2. DOMAIN d = DOMAIN h /\ Kept(PlayFields, h, d)
    BY <1>5 DEF Kept, PlayFields, Sound, Base, Shape
  <2> HIDE DEF d, t
  <2>3. Sound(d) /\ d.quitting = h.quitting /\ d.starts = h.starts
    BY <1>5, <2>2, KeptSound, KeptFields
  <2>4. ASSUME t = NoTrack PROVE Sound(e) /\ ~e.quitting /\ ~e.advanced
    BY <1>5, <2>1, <2>3, <2>4, StoppedSound DEF NoStart
  <2> HIDE DEF e
  <2>5. Sound(r) /\ ~r.quitting /\ SwitchInv(r)
    BY <1>5, <1>6, <1>8, <2>4 DEF SwitchInv
  <2> HIDE DEF r
  <2>6. r.advanced => Sound(g) /\ ~g.quitting
    BY <2>5, GaplessSound
  <2>7. Sound(w) /\ ~w.quitting
    BY <2>5, DrainSound
  <2> HIDE DEF g, w
  <2>8. Sound(Tui!HandleTick(model, c))
    BY <1>3, <1>8, <2>6, <2>7, RetrySound
  <2> QED BY <1>2, <2>8, HandledSound
<1> QED BY <1>7, <1>8

-----------------------------------------------------------------------------
(* The commands under way.                                                 *)

(* A command is at its next step, and otherwise the same.                  *)
LEMMA CommandMoves ==
  ASSUME NEW c, NEW F, F \subseteq DOMAIN c, NEW x
  PROVE  LET d == [c EXCEPT !.at = x]
         IN  DOMAIN d = DOMAIN c /\ \A f \in F \ {"at"} : d[f] = c[f]
OBVIOUS

(* A start that opens: if it is still the current one, the engine plays it. *)
LEMMA OpensSound ==
  ASSUME PlaybackInv(model), NEW cmd \in model.starts, Tui!Opens(cmd)
  PROVE  PlaybackInv(model')
<1> DEFINE d == [cmd EXCEPT !.at = "played"]
           e == IF Tui!Owns(cmd) THEN Tui!EngineStarts(model, cmd.track) ELSE model
<1>1. model' = [e EXCEPT !.starts = (@ \ {cmd}) \cup {d}] /\ cmd.at = "opening"
  BY DEF Tui!Opens
<1>2. /\ {"track", "current", "at"} \subseteq DOMAIN d
      /\ d.track = cmd.track /\ (d.current <=> cmd.current)
  BY DEF PlaybackInv, Sound, Base, Shape
<1> HIDE DEF d
<1>3. /\ DOMAIN e = DOMAIN model
      /\ Kept((PlayFields \cup ListFields) \ {"cur", "next", "playing", "advanced", "missed"},
              model, e)
      /\ cmd.current => e.cur = cmd.track /\ e.next = NoTrack /\ e.playing /\ ~e.advanced
      /\ ~cmd.current => e = model
  BY DEF Tui!Owns, Tui!EngineStarts, Kept, PlayFields, ListFields, PlaybackInv, Sound, Base, Shape
<1> HIDE DEF e
<1>4. /\ DOMAIN model' = DOMAIN e /\ (model').starts = (e.starts \ {cmd}) \cup {d}
      /\ Kept((PlayFields \cup ListFields) \ {"starts"}, e, model')
  BY <1>1, <1>3 DEF Kept, PlayFields, ListFields, PlaybackInv, Sound, Base, Shape
<1>5. /\ (model').track = model.track /\ (model').active = model.active
      /\ (model').started = model.started /\ (model').buffering = model.buffering
      /\ (model').preloading = model.preloading /\ (model').preloadFor = model.preloadFor
      /\ (model').preloads = model.preloads /\ (model').quitting = model.quitting
      /\ (model').starts = (model.starts \ {cmd}) \cup {d}
      /\ Kept(ListFields, model, model')
  BY <1>3, <1>4 DEF Kept, PlayFields, ListFields
<1>6. Tui!UpcomingTrack(model') = Tui!UpcomingTrack(model)
  BY <1>5, SameUpcoming
<1>7. Base(model') /\ OneStart(model')
  BY <1>2, <1>3, <1>4, <1>5 DEF PlaybackInv, Sound, Base, Shape, OnePreload, OneStart
<1>8. CASE cmd.current
  <2>1. /\ (model').cur = cmd.track /\ (model').next = NoTrack /\ (model').playing
        /\ ~(model').advanced
    BY <1>3, <1>4, <1>8 DEF Kept, PlayFields, ListFields
  <2>2. ArmInv(model') /\ UpcomingInv(model') /\ SwitchInv(model')
    BY <1>5, <1>6, <2>1 DEF PlaybackInv, Sound, ArmInv, UpcomingInv, SwitchInv
  <2>3. StartInv(model')
    BY <1>2, <1>5, <1>8, <2>1 DEF PlaybackInv, Sound, OneStart, StartInv, Unarmed
  <2>4. AnnouncedInv(model')
    BY <1>5, <1>8 DEF PlaybackInv, Sound, StartInv, AnnouncedInv
  <2> QED BY <1>7, <2>2, <2>3, <2>4 DEF PlaybackInv, Sound
<1>9. CASE ~cmd.current
  <2>1. /\ (model').cur = model.cur /\ (model').next = model.next
        /\ (model').playing = model.playing /\ (model').advanced = model.advanced
        /\ (model').missed = model.missed
    BY <1>3, <1>4, <1>9 DEF Kept, PlayFields, ListFields
  <2>2. ArmInv(model') /\ UpcomingInv(model') /\ SwitchInv(model')
    BY <1>5, <1>6, <2>1 DEF PlaybackInv, Sound, ArmInv, UpcomingInv, SwitchInv
  <2>3. StartInv(model') /\ AnnouncedInv(model')
    BY <1>2, <1>5, <1>9, <2>1 DEF PlaybackInv, Sound, OneStart, StartInv, Unarmed, AnnouncedInv
  <2> QED BY <1>7, <2>2, <2>3 DEF PlaybackInv, Sound
<1> QED BY <1>8, <1>9

(* A start that fails. *)
LEMMA FailsSound ==
  ASSUME PlaybackInv(model), NEW cmd \in model.starts, Tui!FailsToOpen(cmd)
  PROVE  PlaybackInv(model')
<1>1. PICK how \in {"failed", "refused", "unavailable"} :
        model' = [model EXCEPT !.starts = (@ \ {cmd}) \cup {[cmd EXCEPT !.at = how]}]
  BY DEF Tui!FailsToOpen
<1> DEFINE d == [cmd EXCEPT !.at = how]
<1>2. /\ {"track", "current", "at"} \subseteq DOMAIN d
      /\ d.track = cmd.track /\ (d.current <=> cmd.current) /\ d.at # "played"
  BY DEF PlaybackInv, Sound, Base, Shape
<1>3. model' = [model EXCEPT !.starts = (@ \ {cmd}) \cup {d}]
  BY <1>1
<1> HIDE DEF d
<1>4. /\ DOMAIN model' = DOMAIN model /\ (model').starts = (model.starts \ {cmd}) \cup {d}
      /\ Kept((PlayFields \cup ListFields) \ {"starts"}, model, model')
  BY <1>3 DEF Kept, PlayFields, ListFields, PlaybackInv, Sound, Base, Shape
<1>5. /\ (model').track = model.track /\ (model').active = model.active
      /\ (model').started = model.started /\ (model').buffering = model.buffering
      /\ (model').preloading = model.preloading /\ (model').preloadFor = model.preloadFor
      /\ (model').preloads = model.preloads /\ (model').quitting = model.quitting
      /\ (model').cur = model.cur /\ (model').next = model.next
      /\ (model').playing = model.playing /\ (model').advanced = model.advanced
      /\ (model').missed = model.missed /\ Kept(ListFields, model, model')
  BY <1>4 DEF Kept, PlayFields, ListFields
<1>6. Tui!UpcomingTrack(model') = Tui!UpcomingTrack(model)
  BY <1>5, SameUpcoming
<1>7. Base(model') /\ OneStart(model')
  BY <1>2, <1>4, <1>5 DEF PlaybackInv, Sound, Base, Shape, OnePreload, OneStart
<1>8. ArmInv(model') /\ UpcomingInv(model') /\ SwitchInv(model')
  BY <1>5, <1>6 DEF PlaybackInv, Sound, ArmInv, UpcomingInv, SwitchInv
<1>9. StartInv(model') /\ AnnouncedInv(model')
  BY <1>2, <1>4, <1>5 DEF PlaybackInv, Sound, OneStart, StartInv, Unarmed, AnnouncedInv
<1> QED BY <1>7, <1>8, <1>9 DEF PlaybackInv, Sound

(* The answer to the start that is awaited, and to one that was overtaken. *)
LEMMA AnswerSound ==
  ASSUME PlaybackInv(model), NEW cmd \in model.starts, Tui!StreamPlayed(cmd)
  PROVE  PlaybackInv(model')
<1> DEFINE m == [model EXCEPT !.starts = @ \ {cmd}]
<1>1. /\ ~model.quitting
      /\ \/ ~Tui!Heeded(m, cmd) /\ model' = Tui!Handled(m)
         \/ /\ cmd.current
            /\ \E c : model' = Tui!Handled(Tui!HandleStreamPlayed(m, cmd, c))
  BY DEF Tui!StreamPlayed, Tui!Heeded
<1>2. /\ DOMAIN m = DOMAIN model /\ m.starts = model.starts \ {cmd}
      /\ Kept(PlayFields \ {"starts"}, model, m)
  BY DEF Kept, PlayFields, PlaybackInv, Sound, Base, Shape
<1> HIDE DEF m
<1>3. /\ m.track = model.track /\ m.active = model.active
      /\ m.started = model.started /\ m.buffering = model.buffering
      /\ m.preloading = model.preloading /\ m.preloadFor = model.preloadFor
      /\ m.preloads = model.preloads /\ m.quitting = model.quitting
      /\ m.cur = model.cur /\ m.next = model.next
      /\ m.playing = model.playing /\ m.advanced = model.advanced /\ m.missed = model.missed
  BY <1>2 DEF Kept, PlayFields
<1>4. Base(m) /\ ArmInv(m) /\ OneStart(m)
  BY <1>2, <1>3 DEF PlaybackInv, Sound, Base, Shape, OnePreload, ArmInv, OneStart
<1>5. StartInv(m) /\ AnnouncedInv(m)
  BY <1>2, <1>3 DEF PlaybackInv, Sound, StartInv, Unarmed, AnnouncedInv
<1>6. CASE ~Tui!Heeded(m, cmd) /\ model' = Tui!Handled(m)
  BY <1>4, <1>5, <1>6, HandledSound DEF Sound
<1>7. ASSUME cmd.current, NEW c, model' = Tui!Handled(Tui!HandleStreamPlayed(m, cmd, c))
      PROVE  PlaybackInv(model')
  <2>1. /\ m.active /\ ~m.started /\ m.track = cmd.track /\ Unarmed(m)
        /\ cmd.at = "played" => m.cur = cmd.track /\ m.playing
    BY <1>1, <1>3, <1>7 DEF PlaybackInv, Sound, StartInv, Unarmed
  <2>2. NoStart(m)
    BY <1>2, <1>7 DEF PlaybackInv, Sound, OneStart, NoStart
  <2> DEFINE d == [m EXCEPT !.buffering = FALSE, !.liveDrain = FALSE]
             k == [d EXCEPT !.attempts = 0, !.due = FALSE, !.refusedSkips = 0]
             p == Tui!NowPlaying(k, cmd.track)
             s1 == [d EXCEPT !.refusedSkips = @ + 1]
             s0 == [d EXCEPT !.refusedSkips = 0]
             e == Tui!EngineStop(d)
             w == [Tui!ScheduleReconnect(e) EXCEPT !.liveDrain = TRUE]
             z == [e EXCEPT !.attempts = 0]
  <2>3. /\ DOMAIN d = DOMAIN m /\ ~d.buffering /\ Kept(PlayFields \ {"buffering"}, m, d)
    BY <1>4 DEF Kept, PlayFields, Base, Shape
  <2>4. \/ Tui!HandleStreamPlayed(m, cmd, c) \in
             {w, Tui!NextTrack(z, c), Tui!NextTrack(s1, c), Tui!NextTrack(d, c),
              Tui!PreloadNext(s0, c.near), Tui!PreloadNext(d, c.near)}
        \/ /\ cmd.at = "played"
           /\ Tui!HandleStreamPlayed(m, cmd, c) = Tui!PreloadNext(p, c.near)
    BY DEF Tui!HandleStreamPlayed, Tui!LiveDrainFailed
  <2> HIDE DEF d
  <2>5. /\ d.track = m.track /\ d.active = m.active
        /\ d.started = m.started /\ d.starts = m.starts
        /\ d.preloading = m.preloading /\ d.preloadFor = m.preloadFor
        /\ d.preloads = m.preloads /\ d.quitting = m.quitting
        /\ d.cur = m.cur /\ d.next = m.next
        /\ d.playing = m.playing /\ d.advanced = m.advanced /\ d.missed = m.missed
    BY <2>3 DEF Kept, PlayFields
  <2>6. /\ Base(d) /\ ArmInv(d) /\ OneStart(d) /\ NoStart(d) /\ StartInv(d)
        /\ AnnouncedInv(d) /\ Unarmed(d) /\ ~d.quitting
    BY <1>1, <1>3, <1>4, <1>5, <2>1, <2>2, <2>3, <2>5
       DEF Base, Shape, OnePreload, ArmInv, OneStart, NoStart, StartInv, AnnouncedInv, Unarmed
  <2>7. Sound(d) /\ d.next = NoTrack
    BY <2>6 DEF Sound, Unarmed
  <2>8. /\ DOMAIN s0 = DOMAIN d /\ Kept(PlayFields, d, s0)
        /\ DOMAIN s1 = DOMAIN d /\ Kept(PlayFields, d, s1)
        /\ DOMAIN k = DOMAIN d /\ Kept(PlayFields, d, k)
    BY <2>6 DEF Kept, PlayFields, Base, Shape
  <2> HIDE DEF s0, s1, k
  <2>9. /\ Sound(s0) /\ NoStart(s0) /\ s0.next = NoTrack
        /\ Sound(s1) /\ ~s1.quitting
    BY <2>6, <2>7, <2>8, KeptSound, KeptFields DEF NoStart
  <2>10. /\ DOMAIN p = DOMAIN k /\ p.started /\ Kept(PlayFields \ {"started"}, k, p)
    BY <2>6, <2>8 DEF Tui!NowPlaying, Tui!Add, Kept, PlayFields, Base, Shape
  <2> HIDE DEF p
  <2>11. /\ p.track = m.track /\ p.active = m.active /\ p.starts = m.starts
         /\ p.preloading = m.preloading /\ p.preloadFor = m.preloadFor
         /\ p.preloads = m.preloads /\ p.quitting = m.quitting
         /\ p.cur = m.cur /\ p.next = m.next /\ p.playing = m.playing
         /\ p.advanced = m.advanced /\ p.missed = m.missed /\ p.buffering = d.buffering
    BY <2>5, <2>8, <2>10 DEF Kept, PlayFields
  <2>12. Base(p) /\ ArmInv(p) /\ OneStart(p) /\ NoStart(p) /\ StartInv(p) /\ p.next = NoTrack
    BY <1>4, <2>1, <2>2, <2>3, <2>8, <2>10, <2>11
       DEF Base, Shape, OnePreload, ArmInv, OneStart, NoStart, StartInv, Unarmed
  <2>13. cmd.at = "played" => AnnouncedInv(p)
    BY <1>1, <1>3, <2>1, <2>11 DEF AnnouncedInv
  <2>14. Sound(e) /\ ~e.quitting
    BY <2>6, <2>7, StoppedSound
  <2> HIDE DEF e
  <2>15. /\ DOMAIN z = DOMAIN e /\ Kept(PlayFields, e, z)
    BY <2>14 DEF Kept, PlayFields, Sound, Base, Shape
  <2> HIDE DEF z
  <2>16. Sound(z) /\ ~z.quitting
    BY <2>14, <2>15, KeptSound, KeptFields
  <2>17. Sound(w)
    BY <2>14, ReconnectKept, KeptSound DEF Kept, Sound, Base
  <2> HIDE DEF w
  <2>18. Sound(Tui!HandleStreamPlayed(m, cmd, c))
    BY <2>4, <2>6, <2>7, <2>9, <2>12, <2>13, <2>16, <2>17, NextTrackSound, PreloadSound DEF Sound
  <2> QED BY <1>7, <2>18, HandledSound
<1> QED BY <1>1, <1>6, <1>7

(* What is armed is what the list goes on to, and only what is still       *)
(* wanted is armed.                                                        *)
LEMMA PreloadEndsSound ==
  ASSUME PlaybackInv(model), NEW cmd \in model.preloads, Tui!PreloadEnds(cmd)
  PROVE  PlaybackInv(model')
<1>1. PICK how \in {"armed", "failed"}, x \in {model.next, cmd.track} :
        /\ model' = [model EXCEPT !.preloads = (@ \ {cmd}) \cup {[cmd EXCEPT !.at = how]},
                                  !.next = x]
        /\ ~cmd.valid => x = model.next
  <2>1. ASSUME model' = [model EXCEPT !.preloads = (@ \ {cmd}) \cup {[cmd EXCEPT !.at = "failed"]}]
        PROVE  model' = [model EXCEPT !.preloads = (@ \ {cmd}) \cup {[cmd EXCEPT !.at = "failed"]},
                                      !.next = model.next]
    BY <2>1 DEF PlaybackInv, Sound, Base, Shape, PlayFields
  <2> QED BY <2>1 DEF Tui!PreloadEnds
<1> DEFINE d == [cmd EXCEPT !.at = how]
<1>2. /\ {"track", "current", "valid", "at"} \subseteq DOMAIN d
      /\ d.track = cmd.track /\ (d.current <=> cmd.current) /\ (d.valid <=> cmd.valid)
  BY DEF PlaybackInv, Sound, Base, Shape
<1>3. model' = [model EXCEPT !.preloads = (@ \ {cmd}) \cup {d}, !.next = x]
  BY <1>1
<1> HIDE DEF d
<1>4. /\ DOMAIN model' = DOMAIN model /\ (model').preloads = (model.preloads \ {cmd}) \cup {d}
      /\ (model').next = x
      /\ Kept((PlayFields \cup ListFields) \ {"preloads", "next"}, model, model')
  BY <1>3 DEF Kept, PlayFields, ListFields, PlaybackInv, Sound, Base, Shape
<1>5. /\ (model').track = model.track /\ (model').active = model.active
      /\ (model').started = model.started /\ (model').buffering = model.buffering
      /\ (model').preloading = model.preloading /\ (model').preloadFor = model.preloadFor
      /\ (model').starts = model.starts /\ (model').quitting = model.quitting
      /\ (model').cur = model.cur
      /\ (model').playing = model.playing /\ (model').advanced = model.advanced
      /\ (model').missed = model.missed /\ Kept(ListFields, model, model')
  BY <1>4 DEF Kept, PlayFields, ListFields
<1>6. Tui!UpcomingTrack(model') = Tui!UpcomingTrack(model)
  BY <1>5, SameUpcoming
<1>7. Base(model') /\ OneStart(model')
  BY <1>2, <1>4, <1>5 DEF PlaybackInv, Sound, Base, Shape, OnePreload, OneStart
<1>8. ArmInv(model') /\ UpcomingInv(model') /\ SwitchInv(model')
  BY <1>1, <1>2, <1>4, <1>5, <1>6 DEF PlaybackInv, Sound, ArmInv, UpcomingInv, SwitchInv
<1>9. StartInv(model') /\ AnnouncedInv(model')
  BY <1>1, <1>2, <1>4, <1>5 DEF PlaybackInv, Sound, StartInv, Unarmed, AnnouncedInv
<1> QED BY <1>7, <1>8, <1>9 DEF PlaybackInv, Sound

(* The answer of a preload. *)
LEMMA PreloadedSound ==
  ASSUME PlaybackInv(model), NEW cmd \in model.preloads, Tui!StreamPreloaded(cmd)
  PROVE  PlaybackInv(model')
<1> DEFINE m == [model EXCEPT !.preloads = @ \ {cmd}]
           f == IF cmd.at = "failed" THEN cmd.track ELSE m.preloadFailed
           n == [m EXCEPT !.preloading = FALSE, !.preloadFailed = f]
<1>1. \/ model' = Tui!Handled(m)
      \/ cmd.current /\ model' = Tui!Handled(n)
  BY DEF Tui!StreamPreloaded
<1>2. /\ DOMAIN m = DOMAIN model /\ m.preloads = model.preloads \ {cmd}
      /\ Kept(PlayFields \ {"preloads"}, model, m)
  BY DEF Kept, PlayFields, PlaybackInv, Sound, Base, Shape
<1> HIDE DEF m
<1>3. /\ m.track = model.track /\ m.active = model.active
      /\ m.started = model.started /\ m.buffering = model.buffering
      /\ m.preloading = model.preloading /\ m.preloadFor = model.preloadFor
      /\ m.starts = model.starts /\ m.quitting = model.quitting
      /\ m.cur = model.cur /\ m.next = model.next
      /\ m.playing = model.playing /\ m.advanced = model.advanced /\ m.missed = model.missed
  BY <1>2 DEF Kept, PlayFields
<1>4. Base(m) /\ ArmInv(m) /\ OneStart(m) /\ StartInv(m) /\ AnnouncedInv(m)
  BY <1>2, <1>3 DEF PlaybackInv, Sound, Base, Shape, OnePreload, ArmInv, OneStart, StartInv,
                    Unarmed, AnnouncedInv
<1>5. /\ DOMAIN n = DOMAIN m /\ Kept(PlayFields \ {"preloading"}, m, n)
  BY <1>4 DEF Kept, PlayFields, Base, Shape
<1> HIDE DEF n
<1>6. /\ n.track = m.track /\ n.active = m.active
      /\ n.started = m.started /\ n.buffering = m.buffering
      /\ n.preloads = m.preloads /\ n.preloadFor = m.preloadFor
      /\ n.starts = m.starts /\ n.quitting = m.quitting
      /\ n.cur = m.cur /\ n.next = m.next
      /\ n.playing = m.playing /\ n.advanced = m.advanced /\ n.missed = m.missed
  BY <1>5 DEF Kept, PlayFields
<1>7. ASSUME cmd.current PROVE \A c \in m.preloads : ~c.valid
  BY <1>2, <1>7 DEF PlaybackInv, Sound, Base, OnePreload, ArmInv
<1>8. Base(n) /\ OneStart(n) /\ StartInv(n) /\ AnnouncedInv(n)
  BY <1>4, <1>5, <1>6 DEF Base, Shape, OnePreload, OneStart, StartInv, Unarmed, AnnouncedInv
<1>9. cmd.current => ArmInv(n)
  BY <1>4, <1>6, <1>7 DEF ArmInv
<1> QED BY <1>1, <1>4, <1>8, <1>9, HandledSound DEF Sound

-----------------------------------------------------------------------------
(* The audio goroutine, and what plays no part.                            *)

(* A track ends: the armed one follows, which is what the list goes on to. *)
LEMMA EndSound ==
  ASSUME PlaybackInv(model), Tui!TrackEnds
  PROVE  PlaybackInv(model')
<1> DEFINE m == IF Tui!Endless(model.cur) THEN [model EXCEPT !.breaks = @ + 1] ELSE model
<1>1. model' = IF m.next = NoTrack THEN [m EXCEPT !.drained = TRUE]
               ELSE [m EXCEPT !.cur = m.next, !.next = NoTrack, !.failed = FALSE, !.advanced = TRUE]
  BY DEF Tui!TrackEnds
<1>2. DOMAIN m = DOMAIN model /\ Kept(PlayFields \cup ListFields, model, m)
  BY DEF Kept, PlayFields, ListFields, PlaybackInv, Sound, Base, Shape
<1> HIDE DEF m
<1>3. Sound(m) /\ m.next = model.next
  BY <1>2, KeptSound, KeptFields DEF Kept, PlaybackInv
<1>4. /\ DOMAIN model' = DOMAIN m
      /\ Kept((PlayFields \cup ListFields) \ {"cur", "next", "advanced"}, m, model')
      /\ m.next = NoTrack => /\ (model').cur = m.cur /\ (model').next = m.next
                          /\ (model').advanced = m.advanced
      /\ m.next # NoTrack => /\ (model').cur = m.next /\ (model').next = NoTrack
                          /\ (model').advanced
  BY <1>1, <1>3 DEF Kept, PlayFields, ListFields, Sound, Base, Shape
<1>5. /\ (model').track = model.track /\ (model').active = model.active
      /\ (model').started = model.started /\ (model').buffering = model.buffering
      /\ (model').preloading = model.preloading /\ (model').preloadFor = model.preloadFor
      /\ (model').starts = model.starts /\ (model').quitting = model.quitting
      /\ (model').playing = model.playing /\ (model').preloads = model.preloads
      /\ (model').missed = model.missed /\ Kept(ListFields, model, model')
  BY <1>2, <1>4 DEF Kept, PlayFields, ListFields
<1>6. Tui!UpcomingTrack(model') = Tui!UpcomingTrack(model)
  BY <1>5, SameUpcoming
<1>7. /\ model.next = NoTrack => /\ (model').cur = model.cur /\ (model').next = model.next
                              /\ (model').advanced = model.advanced
      /\ model.next # NoTrack => /\ (model').cur = model.next /\ (model').next = NoTrack
                              /\ (model').advanced
  BY <1>2, <1>4 DEF Kept, PlayFields
<1>8. Base(model') /\ OneStart(model') /\ ArmInv(model')
  BY <1>2, <1>4, <1>5, <1>7 DEF PlaybackInv, Sound, Base, Shape, OnePreload, OneStart, ArmInv
<1>9. UpcomingInv(model') /\ SwitchInv(model')
  BY <1>5, <1>6, <1>7 DEF PlaybackInv, UpcomingInv, SwitchInv
<1>10. StartInv(model') /\ AnnouncedInv(model')
  BY <1>5, <1>7 DEF PlaybackInv, Sound, StartInv, Unarmed, AnnouncedInv
<1> QED BY <1>8, <1>9, <1>10 DEF PlaybackInv, Sound

(* What changes none of this keeps the invariant. *)
LEMMA KeptPlayback ==
  ASSUME NEW m, NEW n, PlaybackInv(m), DOMAIN n = DOMAIN m, Kept(PlayFields \cup ListFields, m, n)
  PROVE  PlaybackInv(n)
<1>1. Tui!UpcomingTrack(n) = Tui!UpcomingTrack(m)
  BY SameUpcoming DEF Kept
<1>2. Sound(n)
  BY KeptSound DEF Kept, PlaybackInv
<1>3. UpcomingInv(n) /\ SwitchInv(n)
  BY <1>1, KeptFields DEF Kept, PlaybackInv, UpcomingInv, SwitchInv
<1> QED BY <1>2, <1>3 DEF PlaybackInv

(* The stream that breaks and the reports change none of this. *)
LEMMA AsideSound ==
  ASSUME PlaybackInv(model),
         Tui!StreamBreaks \/ Tui!Drain \/ Tui!ReportDone \/ Tui!WaitReports
  PROVE  PlaybackInv(model')
<1>1. DOMAIN model' = DOMAIN model /\ Kept(PlayFields \cup ListFields, model, model')
  BY DEF Tui!StreamBreaks, Tui!Drain, Tui!ReportDone, Tui!WaitReports, Kept, PlayFields, ListFields,
         PlaybackInv, Sound, Base, Shape
<1> QED BY <1>1, KeptPlayback

-----------------------------------------------------------------------------
PlaybackSound == PlaybackInv(model)

(* The invariant holds at first. *)
LEMMA PlaybackInits == Tui!Init => PlaybackSound
<1> SUFFICES ASSUME Tui!Init PROVE PlaybackInv(model)
  BY DEF PlaybackSound
<1>1. /\ PlayFields \cup ListFields \subseteq DOMAIN model
      /\ model.starts = {} /\ model.preloads = {} /\ model.next = NoTrack
      /\ ~model.started /\ ~model.advanced /\ ~model.quitting
  BY DEF Tui!Init, PlayFields, ListFields
<1> QED BY <1>1 DEF PlaybackInv, Sound, Base, Shape, OnePreload, OneStart, ArmInv, StartInv,
                    AnnouncedInv, UpcomingInv, SwitchInv

(* Every step preserves it. *)
LEMMA PlaybackSteps == PlaybackSound /\ [Tui!Next]_model => PlaybackSound'
<1> SUFFICES ASSUME PlaybackInv(model), Tui!Next PROVE PlaybackInv(model')
  BY DEF PlaybackSound
<1>1. Sound(model)
  BY DEF PlaybackInv
<1> QED BY <1>1, JumpSound, RemoveSound, MoveSound, AppendSound, ReplacePlayingSound, SkipSound,
           PauseSound, QuitSound, TickSound, OpensSound, FailsSound, AnswerSound,
           PreloadEndsSound, PreloadedSound, EndSound, AsideSound DEF Tui!Next

(* So it always holds. *)
LEMMA PlaybackHolds == Tui!Spec => []PlaybackSound
BY PlaybackInits, PlaybackSteps, PTL DEF Tui!Spec

(* playTrack, handleStreamPlayed, tickGapless: the track the UI announced  *)
(* is the one the engine plays, once the tick has heard of the switch and  *)
(* unless it missed one.  Whatever the lists and kinds of tracks.          *)
THEOREM AnnouncedPlays == TuiSpec => []AnnouncedIsPlaying
<1>1. PlaybackSound => AnnouncedIsPlaying
  BY DEF PlaybackSound, PlaybackInv, Sound, AnnouncedInv, AnnouncedIsPlaying, Tui!AnnouncedIsPlaying
<1> QED BY <1>1, PlaybackHolds, PTL DEF TuiSpec

(* dropStalePreload after every message: what a gapless switch would play, *)
(* and what a preload under way may still arm, is the track advanceToNext  *)
(* picks.                                                                  *)
THEOREM ArmedIsNext == TuiSpec => []PreloadIsNext
<1>1. PlaybackSound => PreloadIsNext
  BY DEF PlaybackSound, PlaybackInv, UpcomingInv, PreloadIsNext, Tui!PreloadIsNext
<1> QED BY <1>1, PlaybackHolds, PTL DEF TuiSpec

-----------------------------------------------------------------------------
(* The queue does not stall.                                               *)

RetryFields ==
  {"track", "active", "buffering", "playing", "due", "attempts", "liveDrain", "quitting", "drained"}

RetryShape(m) == RetryFields \cup {"paused", "cur", "advanced", "failed"} \subseteq DOMAIN m

(* A remote track that may yet drain has its reconnects before it: none is *)
(* counted unless it is due.  A broadcast that is tried again after it     *)
(* drained counts on.                                                      *)
Fresh(m) == m.attempts \in {0, 1} /\ (~m.due => m.attempts = 0)

RetryInv(m) ==
  ~m.quitting =>
    /\ m.buffering \/ m.playing => m.active
    /\ m.active => m.track # NoTrack
    /\ m.active /\ Tui!Remote(m.track) /\ (IF m.buffering THEN ~m.liveDrain ELSE m.playing)
         => Fresh(m)

Retries(m) == RetryShape(m) /\ RetryInv(m)

(* A state that is the same in these fields. *)
LEMMA KeptRetry ==
  ASSUME NEW m, NEW n, Kept(RetryFields, m, n)
  PROVE  /\ n.track = m.track /\ n.active = m.active /\ n.buffering = m.buffering
         /\ n.playing = m.playing /\ n.due = m.due /\ n.attempts = m.attempts
         /\ n.liveDrain = m.liveDrain /\ n.quitting = m.quitting /\ n.drained = m.drained
BY DEF Kept, RetryFields

(* What leaves these fields alone.                                         *)
Aside(m, n) == DOMAIN n = DOMAIN m /\ Kept(RetryFields, m, n)

(* Then its retries are the same. *)
LEMMA AsideKeeps ==
  ASSUME NEW m, NEW n, Aside(m, n), Retries(m)
  PROVE  Retries(n)
<1>1. RetryShape(n)
  BY DEF Aside, Retries, RetryShape
<1> QED BY <1>1, KeptRetry DEF Aside, Retries, RetryInv, Fresh

(* The helpers that leave these fields alone. *)
LEMMA AsideHelpers ==
  ASSUME NEW m, RetryShape(m), NEW x
  PROVE  /\ Aside(m, Tui!ClearPreload(m))
         /\ Aside(m, Tui!LeaveTrack(m, x))
         /\ Aside(m, Tui!PreloadNext(m, x))
         /\ Aside(m, Tui!TickPreloadRetry(m, x))
         /\ Aside(m, Tui!TickProgressReport(m, x))
         /\ Aside(m, Tui!Advanced(m))
         /\ Aside(m, Tui!DropStalePreload(m))
         /\ Aside(m, Tui!Handled(m))
<1>1. Aside(m, Tui!ClearPreload(m))
  BY DEF Aside, Tui!ClearPreload, Kept, RetryShape, RetryFields
<1>2. Aside(m, Tui!LeaveTrack(m, x))
  BY DEF Aside, Tui!LeaveTrack, Tui!Add, Kept, RetryShape, RetryFields
<1>3. Aside(m, Tui!PreloadNext(m, x))
  BY DEF Aside, Tui!PreloadNext, Kept, RetryShape, RetryFields
<1>4. Aside(m, Tui!TickPreloadRetry(m, x))
  BY <1>3 DEF Aside, Tui!TickPreloadRetry, Kept
<1>5. Aside(m, Tui!TickProgressReport(m, x))
  BY DEF Aside, Tui!TickProgressReport, Tui!Add, Kept, RetryShape, RetryFields
<1>6. Aside(m, Tui!Advanced(m))
  BY DEF Aside, Tui!Advanced, Kept, RetryShape, RetryFields
<1>7. Aside(m, Tui!DropStalePreload(m))
  BY DEF Aside, Tui!DropStalePreload, Tui!ClearPreload, Kept, RetryShape, RetryFields
<1>8. Aside(m, Tui!Handled(m))
  <2> DEFINE d == Tui!DropStalePreload(m)
  <2>1. Aside(d, Tui!Handled(m))
    BY <1>7 DEF Aside, Tui!Handled, Kept, RetryShape, RetryFields
  <2> QED BY <1>7, <2>1 DEF Aside, Kept
<1> QED BY <1>1, <1>2, <1>3, <1>4, <1>5, <1>6, <1>7, <1>8

(* Stop of the engine: it plays nothing that could drain. *)
LEMMA EngineStopRetry ==
  ASSUME NEW m, RetryShape(m)
  PROVE  LET n == Tui!EngineStop(m)
         IN  /\ DOMAIN n = DOMAIN m /\ ~n.playing /\ ~n.drained
             /\ Kept(RetryFields \ {"playing", "drained"}, m, n)
             /\ Retries(m) => Retries(n)
<1> DEFINE n == Tui!EngineStop(m)
<1>1. /\ DOMAIN n = DOMAIN m /\ ~n.playing /\ ~n.drained
      /\ Kept(RetryFields \ {"playing", "drained"}, m, n)
  BY DEF Tui!EngineStop, Tui!ClearPreload, Kept, RetryShape, RetryFields
<1> HIDE DEF n
<1>2. /\ n.track = m.track /\ n.active = m.active /\ n.buffering = m.buffering
      /\ n.due = m.due /\ n.attempts = m.attempts
      /\ n.liveDrain = m.liveDrain /\ n.quitting = m.quitting
  BY <1>1 DEF Kept, RetryFields
<1>3. Retries(m) => Retries(n)
  BY <1>1, <1>2 DEF Retries, RetryShape, RetryInv, Fresh
<1> QED BY <1>1, <1>3 DEF n

(* stopPlayback: no track is on. *)
LEMMA StopRetry ==
  ASSUME NEW m, RetryShape(m), NEW half
  PROVE  LET n == Tui!StopPlayback(m, half)
         IN  Retries(n) /\ ~n.drained /\ n.quitting = m.quitting
<1> DEFINE l == Tui!LeaveTrack(m, half)
           e == Tui!EngineStop(l)
           n == Tui!StopPlayback(m, half)
<1>1. RetryShape(l) /\ l.quitting = m.quitting
  BY AsideHelpers, KeptRetry DEF Aside, RetryShape
<1>2. RetryShape(e) /\ ~e.playing /\ ~e.drained /\ e.quitting = m.quitting
  BY <1>1, EngineStopRetry DEF Kept, RetryShape, RetryFields
<1>3. n = Tui!ClearPlaybackTrack(
            [e EXCEPT !.starts = Tui!Outdated(@), !.buffering = FALSE,
                      !.due = FALSE, !.attempts = 0, !.liveDrain = FALSE, !.refusedSkips = 0])
  BY DEF Tui!StopPlayback
<1> HIDE DEF l, e, n
<1>4. /\ DOMAIN n = DOMAIN e /\ n.playing = e.playing /\ n.drained = e.drained
      /\ ~n.buffering /\ ~n.active /\ n.quitting = e.quitting
  BY <1>2, <1>3 DEF Tui!ClearPlaybackTrack, RetryShape, RetryFields
<1> QED BY <1>2, <1>4 DEF Retries, RetryShape, RetryInv, n

(* beginPlaybackTrack: a track begins with no reconnect counted.           *)
LEMMA BeginRetry ==
  ASSUME NEW m, RetryShape(m), NEW t
  PROVE  LET n == Tui!BeginPlaybackTrack(m, t)
         IN  /\ DOMAIN n = DOMAIN m /\ n.track = t /\ n.active /\ ~n.due /\ n.attempts = 0
             /\ ~n.liveDrain
             /\ n.quitting = m.quitting /\ n.buffering = m.buffering
             /\ n.playing = m.playing /\ n.drained = m.drained
<1> DEFINE d == Tui!ClearPreload(m)
<1>1. DOMAIN d = DOMAIN m /\ Kept(RetryFields, m, d)
  BY AsideHelpers DEF Aside
<1> HIDE DEF d
<1>2. /\ RetryShape(d)
      /\ d.quitting = m.quitting /\ d.buffering = m.buffering
      /\ d.playing = m.playing /\ d.drained = m.drained
  BY <1>1, KeptRetry DEF RetryShape
<1> DEFINE n == Tui!SetPlaybackTrack(
            [d EXCEPT !.starts = Tui!Outdated(@), !.preloads = Tui!Outdated(@),
                      !.preloading = FALSE, !.preloadFailed = NoTrack, !.attempts = 0,
                      !.due = FALSE, !.liveDrain = FALSE], t)
<1>3. /\ DOMAIN n = DOMAIN d /\ n.track = t /\ n.active /\ ~n.due /\ n.attempts = 0
      /\ ~n.liveDrain
      /\ n.quitting = d.quitting /\ n.buffering = d.buffering
      /\ n.playing = d.playing /\ n.drained = d.drained
  BY <1>2 DEF Tui!SetPlaybackTrack, RetryShape, RetryFields
<1> HIDE DEF n
<1> QED BY <1>1, <1>2, <1>3 DEF Tui!BeginPlaybackTrack, n, d

(* playTrack: a remote track is awaited, and nothing that has drained plays on. *)
LEMMA PlayTrackRetry ==
  ASSUME NEW m, RetryShape(m), NEW t, t # NoTrack, NEW c
  PROVE  LET n == Tui!PlayTrack(m, t, c)
         IN  /\ Retries(n) /\ n.track = t /\ (Tui!Remote(t) => n.buffering)
             /\ (~m.drained => ~n.drained) /\ n.quitting = m.quitting
<1> DEFINE l == Tui!LeaveTrack(m, c.half)
           b == Tui!BeginPlaybackTrack(l, t)
           n == Tui!PlayTrack(m, t, c)
<1>1. RetryShape(l) /\ l.quitting = m.quitting /\ l.drained = m.drained
  BY AsideHelpers, KeptRetry DEF Aside, RetryShape
<1> HIDE DEF l
<1>2. /\ RetryShape(b) /\ b.track = t /\ b.active /\ ~b.due /\ b.attempts = 0 /\ ~b.liveDrain
      /\ b.quitting = m.quitting /\ b.drained = m.drained
  BY <1>1, BeginRetry DEF RetryShape
<1> HIDE DEF b
<1>3. CASE Kind[t] # "direct"
  <2> DEFINE new == [track |-> t, current |-> TRUE, at |-> "opening"]
             k == [b EXCEPT !.buffering = TRUE, !.starts = @ \cup {new}]
  <2>1. n = k
    BY <1>3 DEF Tui!PlayTrack, b, l
  <2> HIDE DEF n
  <2>2. /\ DOMAIN k = DOMAIN b /\ k.buffering /\ k.track = b.track /\ k.active = b.active
        /\ k.due = b.due /\ k.attempts = b.attempts /\ k.liveDrain = b.liveDrain
        /\ k.quitting = b.quitting /\ k.drained = b.drained
    BY <1>2 DEF RetryShape, RetryFields
  <2> HIDE DEF k
  <2> QED BY <1>2, <2>1, <2>2 DEF Retries, RetryShape, RetryInv, Fresh, n
<1>4. CASE Kind[t] = "direct"
  <2> DEFINE e == Tui!EngineStarts(b, t)
             p == Tui!NowPlaying(e, t)
             k == IF c.opens THEN p ELSE b
  <2>0. ~Tui!Remote(t)
    BY <1>4 DEF Tui!Remote
  <2>1. n = Tui!PreloadNext(k, c.near)
    BY <1>4 DEF Tui!PlayTrack, b, l
  <2> HIDE DEF n
  <2>2. /\ DOMAIN p = DOMAIN b /\ p.track = b.track /\ p.active = b.active
        /\ p.quitting = b.quitting /\ ~p.drained
    BY <1>2 DEF RetryShape, RetryFields, Tui!EngineStarts, Tui!NowPlaying, Tui!Add
  <2> HIDE DEF p
  <2>3. /\ RetryShape(k) /\ k.track = t /\ k.active /\ k.quitting = m.quitting
        /\ (~m.drained => ~k.drained)
    BY <1>2, <2>2 DEF RetryShape
  <2>4. Retries(k)
    BY <2>0, <2>3 DEF Retries, RetryInv
  <2> HIDE DEF k
  <2>5. Aside(k, n)
    BY <2>1, <2>3, AsideHelpers
  <2> QED BY <2>0, <2>3, <2>4, <2>5, AsideKeeps, KeptRetry DEF Aside, n
<1> QED BY <1>3, <1>4 DEF Tui!Remote

(* nextTrack: the same, or playback stops. *)
LEMMA NextTrackRetry ==
  ASSUME NEW m, RetryShape(m), NEW c
  PROVE  LET n == Tui!NextTrack(m, c)
         IN  Retries(n) /\ (~m.drained => ~n.drained) /\ n.quitting = m.quitting
<1>1. CASE Tui!UpcomingTrack(m) = NoTrack
  <2> DEFINE d == [m EXCEPT !.detached = FALSE]
  <2>1. Tui!NextTrack(m, c) = Tui!StopPlayback(d, c.half)
    BY <1>1 DEF Tui!NextTrack, Tui!EndQueue
  <2>2. RetryShape(d) /\ d.quitting = m.quitting
    BY DEF RetryShape, RetryFields
  <2> HIDE DEF d
  <2> QED BY <2>1, <2>2, StopRetry
<1>2. CASE Tui!UpcomingTrack(m) # NoTrack
  <2> DEFINE d == Tui!Advanced(m)
  <2>1. Tui!NextTrack(m, c) = Tui!PlayTrack(d, Tui!UpcomingTrack(m), c)
    BY <1>2 DEF Tui!NextTrack
  <2>2. RetryShape(d) /\ d.quitting = m.quitting /\ d.drained = m.drained
    BY AsideHelpers, KeptRetry DEF Aside, RetryShape
  <2> HIDE DEF d
  <2> QED BY <1>2, <2>1, <2>2, PlayTrackRetry
<1> QED BY <1>1, <1>2

(* playCurrentTrack. *)
LEMMA PlayCurrentRetry ==
  ASSUME NEW m, Retries(m), NEW c
  PROVE  Retries(Tui!PlayCurrentTrack(m, c))
BY PlayTrackRetry, StopRetry DEF Tui!PlayCurrentTrack, Retries

(* The messages of the user.                                               *)
LEMMA OtherFieldsAside ==
  ASSUME NEW m, RetryShape(m), NEW x
  PROVE  /\ Aside(m, [m EXCEPT !.calls = x])
         /\ Aside(m, [m EXCEPT !.paused = x])
         /\ Aside(m, [m EXCEPT !.rows = x])
         /\ Aside(m, [m EXCEPT !.idx = x])
         /\ Aside(m, [m EXCEPT !.starts = x])
         /\ Aside(m, [m EXCEPT !.preloads = x])
BY DEF Aside, Kept, RetryShape, RetryFields

(* The end of every message. *)
LEMMA HandledRetry ==
  ASSUME NEW m, Retries(m)
  PROVE  Retries(Tui!Handled(m))
BY AsideHelpers, AsideKeeps DEF Retries

(* Enter, next, stop, pause and adding a track. *)
LEMMA CommandsRetry ==
  ASSUME Retries(model),
         \/ \E i \in DOMAIN model.rows : Tui!PlayIndex(i)
         \/ Tui!SkipNext \/ Tui!StopByUser \/ Tui!TogglePlayPause
         \/ \E t \in Tracks : Tui!AppendTrack(t)
  PROVE  Retries(model')
<1> DEFINE m == [model EXCEPT !.calls = @ + 1]
<1>1. Retries(m)
  <2>1. Aside(model, m)
    BY DEF Aside, Kept, Retries, RetryShape, RetryFields
  <2> HIDE DEF m
  <2> QED BY <2>1, AsideKeeps
<1>2. ASSUME NEW i, Tui!PlayIndex(i) PROVE Retries(model')
  <2> DEFINE n == [m EXCEPT !.idx = i]
  <2>1. \E c : model' = Tui!Handled(Tui!PlayCurrentTrack(n, c))
    BY <1>2 DEF Tui!PlayIndex, Tui!Command
  <2> HIDE DEF m
  <2>2. Retries(n)
    BY <1>1, OtherFieldsAside, AsideKeeps DEF Retries
  <2> HIDE DEF n
  <2> QED BY <2>1, <2>2, PlayCurrentRetry, HandledRetry
<1>3. CASE Tui!SkipNext \/ Tui!StopByUser
  <2>1. \E c : \/ model' = Tui!Handled(Tui!NextTrack(m, c))
               \/ model' = Tui!Handled(Tui!StopPlayback(m, c.half))
    BY <1>3 DEF Tui!SkipNext, Tui!StopByUser, Tui!Command
  <2> HIDE DEF m
  <2> QED BY <1>1, <2>1, NextTrackRetry, StopRetry, HandledRetry DEF Retries
<1>4. CASE Tui!TogglePlayPause
  <2> DEFINE t == Tui!CurrentPlaybackTrack(m)
             e == Tui!EngineStop(m)
  <2>1. \E c : model' = Tui!Handled(
          IF ~m.playing THEN Tui!PlayCurrentTrack(m, c)
          ELSE IF m.paused /\ t # NoTrack /\ Tui!PlaysLive(m, t)
               THEN Tui!PlayTrack(e, t, c)
               ELSE [m EXCEPT !.paused = ~@])
    BY <1>4 DEF Tui!TogglePlayPause, Tui!Command
  <2> HIDE DEF m, t
  <2>2. Retries([m EXCEPT !.paused = ~@])
    BY <1>1, OtherFieldsAside, AsideKeeps DEF Retries
  <2>3. RetryShape(e)
    BY <1>1, EngineStopRetry DEF Retries
  <2> HIDE DEF e
  <2>4. \A c : t # NoTrack => Retries(Tui!PlayTrack(e, t, c))
    BY <2>3, PlayTrackRetry
  <2> QED BY <1>1, <2>1, <2>2, <2>4, PlayCurrentRetry, HandledRetry
<1>5. ASSUME NEW t, Tui!AppendTrack(t) PROVE Retries(model')
  <2> DEFINE added == [m EXCEPT !.rows = Append(@, t)]
             there == [added EXCEPT !.idx = Len(added.rows)]
  <2>1. \E c : model' = Tui!Handled(
          IF m.rows = <<>> \/ ~m.playing THEN Tui!PlayCurrentTrack(there, c) ELSE added)
    BY <1>5 DEF Tui!AppendTrack, Tui!Command
  <2> HIDE DEF m
  <2>2. Retries(added)
    BY <1>1, OtherFieldsAside, AsideKeeps DEF Retries
  <2> HIDE DEF added
  <2>3. Retries(there)
    BY <2>2, OtherFieldsAside, AsideKeeps DEF Retries
  <2> HIDE DEF there
  <2> QED BY <2>1, <2>2, <2>3, PlayCurrentRetry, HandledRetry
<1> QED BY <1>2, <1>3, <1>4, <1>5

(* Removing and moving a row, and another list. *)
LEMMA EditsRetry ==
  ASSUME Retries(model),
         \/ \E i \in DOMAIN model.rows : Tui!RemoveSelected(i)
         \/ \E i, j \in DOMAIN model.rows : Tui!MoveTrack(i, j)
         \/ \E rows \in Lists : Tui!ReplacePlayerPlaylist(rows)
  PROVE  Retries(model')
<1> DEFINE m == [model EXCEPT !.calls = @ + 1]
<1>1. Retries(m)
  <2>1. Aside(model, m)
    BY DEF Aside, Kept, Retries, RetryShape, RetryFields
  <2> HIDE DEF m
  <2> QED BY <2>1, AsideKeeps
<1>2. ASSUME NEW i, Tui!RemoveSelected(i) PROVE Retries(model')
  <2> DEFINE rest == Tui!RemoveAt(m.rows, i)
             pos == IF i < m.idx THEN m.idx - 1 ELSE m.idx
             p == IF pos > Len(rest) /\ rest # <<>> THEN Len(rest) ELSE pos
             gone == [m EXCEPT !.rows = rest, !.idx = p]
  <2>1. \E c : model' = Tui!Handled(
          IF i = m.idx THEN Tui!ClearPreload(Tui!StopPlayback(gone, c.half)) ELSE gone)
    BY <1>2 DEF Tui!RemoveSelected, Tui!Command
  <2> HIDE DEF m
  <2>2. Aside(m, gone)
    BY <1>1 DEF Aside, Kept, Retries, RetryShape, RetryFields
  <2> HIDE DEF gone
  <2>3. Retries(gone)
    BY <1>1, <2>2, AsideKeeps
  <2>4. ASSUME NEW c PROVE Retries(Tui!ClearPreload(Tui!StopPlayback(gone, c.half)))
    <3> DEFINE q == Tui!StopPlayback(gone, c.half)
    <3>1. Retries(q)
      BY <2>3, StopRetry DEF Retries
    <3> HIDE DEF q
    <3>2. Retries(Tui!ClearPreload(q))
      BY <3>1, AsideHelpers, AsideKeeps DEF Retries
    <3> QED BY <3>2 DEF q
  <2> QED BY <2>1, <2>3, <2>4, HandledRetry
<1>3. ASSUME NEW i, NEW j, Tui!MoveTrack(i, j) PROVE Retries(model')
  <2> DEFINE n == [m EXCEPT !.rows = [@ EXCEPT ![i] = m.rows[j], ![j] = m.rows[i]],
                            !.idx = IF @ = i THEN j ELSE IF @ = j THEN i ELSE @]
             d == Tui!DropStalePreload(n)
  <2>1. \E c : model' = Tui!Handled(Tui!RearmStalePreload(n, c.near))
    BY <1>3 DEF Tui!MoveTrack, Tui!Command
  <2> HIDE DEF m
  <2>2. Aside(m, n)
    BY <1>1 DEF Aside, Kept, Retries, RetryShape, RetryFields
  <2> HIDE DEF n
  <2>3. Retries(n)
    BY <1>1, <2>2, AsideKeeps
  <2>4. Retries(d)
    BY <2>3, AsideHelpers, AsideKeeps DEF Retries
  <2>5. \A near : Tui!RearmStalePreload(n, near) \in {d, Tui!PreloadNext(d, near)}
    BY DEF Tui!RearmStalePreload
  <2> HIDE DEF d
  <2>6. \A near : Retries(Tui!PreloadNext(d, near))
    BY <2>4, AsideHelpers, AsideKeeps DEF Retries
  <2> QED BY <2>1, <2>4, <2>5, <2>6, HandledRetry
<1>4. ASSUME NEW rows, Tui!ReplacePlayerPlaylist(rows) PROVE Retries(model')
  <2> DEFINE d == Tui!DetachPlaybackTrack(m)
             p == Tui!ClearPreload(d)
             e == Tui!EngineStop(m)
             q == Tui!ClearPlaybackTrack(e)
             n1 == [[p EXCEPT !.preloading = FALSE] EXCEPT !.rows = rows, !.idx = 1]
             n2 == [q EXCEPT !.rows = rows, !.idx = 1]
  <2>1. ~model.quitting
        /\ model' = Tui!Handled(IF m.playing \/ m.buffering THEN n1 ELSE n2)
    BY <1>4 DEF Tui!ReplacePlayerPlaylist, Tui!Command
  <2>2. m.quitting = model.quitting
    BY DEF Retries, RetryShape, RetryFields
  <2> HIDE DEF m
  <2>3. ASSUME m.playing \/ m.buffering PROVE Retries(n1)
    <3>1. Tui!CurrentPlaybackTrack(m) = m.track /\ m.active /\ m.track # NoTrack
      BY <1>1, <2>1, <2>2, <2>3 DEF Retries, RetryInv, Tui!CurrentPlaybackTrack
    <3>2. Aside(m, d)
      BY <1>1, <3>1 DEF Tui!DetachPlaybackTrack, Aside, Kept, Retries, RetryShape, RetryFields
    <3> HIDE DEF d
    <3>3. Retries(d)
      BY <1>1, <3>2, AsideKeeps
    <3>4. Retries(p)
      BY <3>3, AsideHelpers, AsideKeeps DEF Retries
    <3> HIDE DEF p
    <3>5. Aside(p, n1)
      BY <3>4 DEF Aside, Kept, Retries, RetryShape, RetryFields
    <3> QED BY <3>4, <3>5, AsideKeeps
  <2>4. ASSUME ~(m.playing \/ m.buffering) PROVE Retries(n2)
    <3>1. RetryShape(e) /\ ~e.playing /\ e.buffering = m.buffering
      BY <1>1, EngineStopRetry DEF Retries, RetryShape, Kept, RetryFields
    <3> HIDE DEF e
    <3>2. /\ DOMAIN n2 = DOMAIN e /\ n2.playing = e.playing /\ n2.buffering = e.buffering
          /\ ~n2.active
      BY <3>1 DEF Tui!ClearPlaybackTrack, RetryShape, RetryFields
    <3> HIDE DEF n2
    <3> QED BY <2>4, <3>1, <3>2 DEF Retries, RetryShape, RetryInv
  <2> QED BY <2>1, <2>3, <2>4, HandledRetry
<1> QED BY <1>2, <1>3, <1>4

(* shutdown. *)
LEMMA QuitRetry ==
  ASSUME Retries(model), Tui!Quit
  PROVE  Retries(model')
<1>1. PICK half : model' = [Tui!ClearPlaybackTrack(Tui!EngineStop(Tui!LeaveTrack(model, half)))
                              EXCEPT !.quitting = TRUE]
  BY DEF Tui!Quit
<1> DEFINE l == Tui!LeaveTrack(model, half)
           e == Tui!EngineStop(l)
<1>2. RetryShape(l)
  BY AsideHelpers DEF Aside, Retries, RetryShape
<1>3. RetryShape(e)
  BY <1>2, EngineStopRetry DEF RetryShape
<1>4. model' = [Tui!ClearPlaybackTrack(e) EXCEPT !.quitting = TRUE]
  BY <1>1
<1> HIDE DEF e
<1>5. DOMAIN model' = DOMAIN e /\ (model').quitting
  BY <1>3, <1>4 DEF Tui!ClearPlaybackTrack, RetryShape, RetryFields
<1> QED BY <1>3, <1>5 DEF Retries, RetryShape, RetryInv

(* The tick.                                                               *)

(* tickStreamHealth: a remote track that breaks gets its reconnect.        *)
LEMMA HealthRetry ==
  ASSUME NEW m, Retries(m), ~m.quitting, NEW report
  PROVE  LET n == Tui!TickStreamHealth(Tui!TickProgressReport(m, report))
         IN  /\ Retries(n) /\ DOMAIN n = DOMAIN m /\ Kept(RetryFields \ {"due", "attempts"}, m, n)
             /\ n.paused = m.paused /\ n.cur = m.cur /\ n.advanced = m.advanced
<1> DEFINE p == Tui!TickProgressReport(m, report)
           t == Tui!CurrentPlaybackTrack(p)
           n == Tui!TickStreamHealth(p)
<1>1. Aside(m, p) /\ p.paused = m.paused /\ p.cur = m.cur /\ p.advanced = m.advanced
  BY DEF Aside, Kept, Tui!TickProgressReport, Tui!Add, Retries, RetryShape, RetryFields
<1> HIDE DEF p
<1>2. Retries(p) /\ ~p.quitting
  BY <1>1, AsideKeeps, KeptRetry DEF Aside
<1>3. /\ DOMAIN n = DOMAIN p /\ Kept(RetryFields \ {"due", "attempts"}, p, n)
      /\ n.paused = p.paused /\ n.cur = p.cur /\ n.advanced = p.advanced
  BY <1>2 DEF Tui!TickStreamHealth, Tui!ScheduleReconnect, Kept, Retries, RetryShape, RetryFields
<1>4. \/ n.due = p.due /\ n.attempts = p.attempts
      \/ ~p.due /\ n.due /\ n.attempts = p.attempts + 1
      \/ ~(t # NoTrack /\ Tui!Remote(t) /\ p.attempts < 5)
  BY <1>2 DEF Tui!TickStreamHealth, Tui!ScheduleReconnect, Retries, RetryShape, RetryFields
<1>5. p.active /\ (p.buffering \/ p.playing) => t = p.track /\ t # NoTrack
  BY <1>2 DEF Retries, RetryInv, Tui!CurrentPlaybackTrack
<1> HIDE DEF n, t
<1>6. /\ n.track = p.track /\ n.active = p.active /\ n.buffering = p.buffering
      /\ n.playing = p.playing /\ n.liveDrain = p.liveDrain /\ n.quitting = p.quitting
  BY <1>3 DEF Kept, RetryFields
<1>7. RetryInv(n)
  BY <1>2, <1>4, <1>5, <1>6 DEF Retries, RetryInv, Fresh
<1>8. Retries(n)
  BY <1>2, <1>3, <1>7 DEF Retries, RetryShape
<1>9. DOMAIN n = DOMAIN m /\ Kept(RetryFields \ {"due", "attempts"}, m, n)
  BY <1>1, <1>3 DEF Aside, Kept
<1> QED BY <1>1, <1>3, <1>8, <1>9 DEF n, p

(* tickReconnect: the track starts anew. *)
LEMMA RestartRetry ==
  ASSUME NEW m, Retries(m), NEW t, t # NoTrack, NEW c
  PROVE  LET n == Tui!Restart(m, t, c) IN Retries(n) /\ ~n.drained
<1> DEFINE d == [m EXCEPT !.due = FALSE]
           e == Tui!EngineStop(d)
           p == Tui!PlayTrack(e, t, c)
           q == [p EXCEPT !.liveDrain = TRUE, !.attempts = m.attempts]
<1>1. Tui!Restart(m, t, c) \in {p, q}
  BY DEF Tui!Restart
<1>2. RetryShape(d)
  BY DEF Retries, RetryShape
<1> HIDE DEF d
<1>3. RetryShape(e) /\ ~e.drained
  BY <1>2, EngineStopRetry DEF RetryShape
<1> HIDE DEF e
<1>4. Retries(p) /\ p.track = t /\ (Tui!Remote(t) => p.buffering) /\ ~p.drained
  BY <1>3, PlayTrackRetry
<1> HIDE DEF p
<1>5. /\ DOMAIN q = DOMAIN p /\ q.liveDrain /\ q.track = p.track /\ q.active = p.active
      /\ q.buffering = p.buffering /\ q.playing = p.playing /\ q.quitting = p.quitting
      /\ q.drained = p.drained
  BY <1>4 DEF Retries, RetryShape, RetryFields
<1> HIDE DEF q
<1>6. Retries(q)
  BY <1>4, <1>5 DEF Retries, RetryShape, RetryInv
<1> QED BY <1>1, <1>4, <1>5, <1>6

(* tickDrain: a live stream gets its first reconnect, any other is followed. *)
LEMMA DrainRetry ==
  ASSUME NEW m, Retries(m), ~m.quitting, NEW c
  PROVE  Retries(Tui!TickDrain(m, c))
<1> DEFINE t == Tui!CurrentPlaybackTrack(m)
           l == Tui!LeaveTrack(m, TRUE)
           e == Tui!EngineStop(l)
           r == [Tui!ScheduleReconnect(m) EXCEPT !.liveDrain = Tui!Ytdl(t)]
           n == Tui!TickDrain(m, c)
<1>1. n = m \/ n = Tui!NextTrack(e, c) \/ (~m.buffering /\ ~m.due /\ n = r)
  BY DEF Tui!TickDrain
<1>2. RetryShape(l)
  BY AsideHelpers DEF Aside, Retries, RetryShape
<1> HIDE DEF l
<1>3. RetryShape(e)
  BY <1>2, EngineStopRetry DEF RetryShape
<1> HIDE DEF e
<1>4. /\ DOMAIN r = DOMAIN m /\ r.track = m.track /\ r.active = m.active
      /\ r.buffering = m.buffering /\ r.playing = m.playing /\ r.quitting = m.quitting
      /\ ~m.due => \/ r.due /\ r.attempts = m.attempts + 1
                   \/ m.attempts >= 5
  BY DEF Tui!ScheduleReconnect, Retries, RetryShape, RetryFields
<1> HIDE DEF r
<1>5. ~m.buffering /\ ~m.due => Retries(r)
  BY <1>4 DEF Retries, RetryShape, RetryInv, Fresh
<1> HIDE DEF n
<1> QED BY <1>1, <1>3, <1>5, NextTrackRetry DEF n

(* tickGapless: the track that follows begins with no reconnect counted.   *)
LEMMA GaplessRetry ==
  ASSUME NEW m, RetryShape(m), NEW c
  PROVE  Retries(Tui!TickGapless(m, c))
<1> DEFINE f == [m EXCEPT !.advanced = FALSE]
           l == Tui!LeaveTrack(f, TRUE)
           t == Tui!UpcomingTrack(l)
           a == Tui!Advanced(l)
           b == Tui!BeginPlaybackTrack(a, t)
           p == [b EXCEPT !.preloading = FALSE]
           n == Tui!NowPlaying(p, t)
           z == [l EXCEPT !.detached = FALSE]
<1>1. Tui!TickGapless(m, c) = IF t = NoTrack THEN Tui!StopPlayback(z, FALSE)
                              ELSE Tui!PreloadNext(n, c.near)
  BY DEF Tui!TickGapless, Tui!EndQueue
<1>2. RetryShape(f)
  BY DEF RetryShape
<1> HIDE DEF f
<1>3. RetryShape(l)
  BY <1>2, AsideHelpers DEF Aside, RetryShape
<1> HIDE DEF l
<1>4. RetryShape(z) /\ RetryShape(a)
  BY <1>3 DEF RetryShape, Tui!Advanced
<1> HIDE DEF z, a, t
<1>5. RetryShape(b) /\ b.track = t /\ b.active /\ ~b.due /\ b.attempts = 0
  BY <1>4, BeginRetry DEF RetryShape
<1> HIDE DEF b
<1>6. /\ DOMAIN n = DOMAIN b /\ n.track = b.track /\ n.active = b.active /\ n.due = b.due
      /\ n.attempts = b.attempts
  BY <1>5 DEF RetryShape, RetryFields, Tui!NowPlaying, Tui!Add
<1> HIDE DEF n
<1>7. t # NoTrack => Retries(n)
  BY <1>5, <1>6 DEF Retries, RetryShape, RetryInv, Fresh
<1>8. t # NoTrack => Retries(Tui!PreloadNext(n, c.near))
  BY <1>7, AsideHelpers, AsideKeeps DEF Retries
<1> QED BY <1>1, <1>4, <1>8, StopRetry

(* tickPreloadRetry. *)
LEMMA PreloadRetryRetry ==
  ASSUME NEW m, Retries(m), NEW near
  PROVE  Retries(Tui!TickPreloadRetry(m, near))
BY AsideHelpers, AsideKeeps DEF Retries

(* The tick, in its order. *)
LEMMA TickRetry ==
  ASSUME Retries(model), Tui!Tick
  PROVE  Retries(model')
<1>1. ~model.quitting /\ \E c \in Tui!Chances : model' = Tui!Handled(Tui!HandleTick(model, c))
  BY DEF Tui!Tick
<1>2. PICK c \in Tui!Chances : model' = Tui!Handled(Tui!HandleTick(model, c))
  BY <1>1
<1> DEFINE h == Tui!TickStreamHealth(Tui!TickProgressReport(model, c.report))
           t == Tui!CurrentPlaybackTrack(h)
           d == [h EXCEPT !.due = FALSE]
           e == Tui!EngineStop(d)
           r == IF h.due /\ c.over THEN e ELSE h
           g == Tui!TickGapless(r, c)
           w == Tui!TickDrain(r, c)
<1>3. Tui!HandleTick(model, c) =
        IF h.due /\ c.over /\ t # NoTrack THEN Tui!Restart(h, t, c)
        ELSE IF r.advanced THEN IF g.active THEN Tui!TickPreloadRetry(g, c.near) ELSE g
        ELSE Tui!TickPreloadRetry(w, c.near)
  BY DEF Tui!HandleTick
<1>4. Retries(h) /\ ~h.quitting
  BY <1>1, HealthRetry DEF Kept, RetryFields
<1> HIDE DEF h
<1>5. t = NoTrack => ~h.buffering /\ ~h.playing
  BY <1>4 DEF Retries, RetryInv, Tui!CurrentPlaybackTrack
<1>6. /\ DOMAIN d = DOMAIN h /\ d.track = h.track /\ d.active = h.active
      /\ d.buffering = h.buffering /\ d.playing = h.playing /\ d.quitting = h.quitting
  BY <1>4 DEF Retries, RetryShape, RetryFields
<1> HIDE DEF d, t
<1>7. t = NoTrack => Retries(d)
  BY <1>4, <1>5, <1>6 DEF Retries, RetryShape, RetryInv
<1>8. t = NoTrack => Retries(e) /\ ~e.quitting
  BY <1>4, <1>6, <1>7, EngineStopRetry DEF Retries, Kept, RetryFields
<1> HIDE DEF e
<1>9. ~(h.due /\ c.over /\ t # NoTrack) => Retries(r) /\ ~r.quitting
  BY <1>4, <1>8
<1> HIDE DEF r
<1>10. Retries(r) => Retries(g)
  BY GaplessRetry DEF Retries
<1>11. Retries(r) /\ ~r.quitting => Retries(w)
  BY DrainRetry
<1> HIDE DEF g, w
<1>12. Retries(Tui!HandleTick(model, c))
  BY <1>3, <1>4, <1>9, <1>10, <1>11, RestartRetry, PreloadRetryRetry
<1> QED BY <1>2, <1>12, HandledRetry

(* The commands under way.                                                 *)

(* A start that opens plays only while it is awaited. *)
LEMMA OpensRetry ==
  ASSUME Retries(model), StartInv(model), NEW cmd \in model.starts, Tui!Opens(cmd)
  PROVE  Retries(model')
<1> DEFINE e == IF Tui!Owns(cmd) THEN Tui!EngineStarts(model, cmd.track) ELSE model
<1>1. model' = [e EXCEPT !.starts = (@ \ {cmd}) \cup {[cmd EXCEPT !.at = "played"]}]
  BY DEF Tui!Opens
<1>2. /\ DOMAIN e = DOMAIN model /\ Kept(RetryFields \ {"playing", "drained"}, model, e)
      /\ ~cmd.current => e.playing = model.playing
  BY DEF Tui!Owns, Tui!EngineStarts, Kept, Retries, RetryShape, RetryFields
<1> HIDE DEF e
<1>3. /\ e.track = model.track /\ e.active = model.active /\ e.buffering = model.buffering
      /\ e.due = model.due /\ e.attempts = model.attempts
      /\ e.liveDrain = model.liveDrain /\ e.quitting = model.quitting
  BY <1>2 DEF Kept, RetryFields
<1>4. cmd.current /\ ~model.quitting => model.active /\ model.buffering
  BY DEF StartInv
<1>5. Retries(e)
  BY <1>2, <1>3, <1>4 DEF Retries, RetryShape, RetryInv, Fresh
<1>6. Aside(e, model')
  BY <1>1, <1>5 DEF Aside, Kept, Retries, RetryShape, RetryFields
<1> QED BY <1>5, <1>6, AsideKeeps

(* The answer of a start: one that played starts the count anew.           *)
LEMMA AnswerRetry ==
  ASSUME Retries(model), StartInv(model), NEW cmd \in model.starts, Tui!StreamPlayed(cmd)
  PROVE  Retries(model')
<1> DEFINE m == [model EXCEPT !.starts = @ \ {cmd}]
<1>1. /\ ~model.quitting
      /\ \/ model' = Tui!Handled(m)
         \/ /\ cmd.current
            /\ \E c : model' = Tui!Handled(Tui!HandleStreamPlayed(m, cmd, c))
  BY DEF Tui!StreamPlayed, Tui!Heeded
<1>2. Aside(model, m)
  BY DEF Aside, Kept, Retries, RetryShape, RetryFields
<1> HIDE DEF m
<1>3. Retries(m) /\ ~m.quitting /\ (cmd.current => m.active /\ m.buffering)
  BY <1>1, <1>2, AsideKeeps, KeptRetry DEF Aside, StartInv
<1>4. CASE model' = Tui!Handled(m)
  BY <1>3, <1>4, HandledRetry
<1>5. ASSUME cmd.current, NEW c, model' = Tui!Handled(Tui!HandleStreamPlayed(m, cmd, c))
      PROVE  Retries(model')
  <2> DEFINE d == [m EXCEPT !.buffering = FALSE, !.liveDrain = FALSE]
             k == [d EXCEPT !.attempts = 0, !.due = FALSE, !.refusedSkips = 0]
             p == Tui!NowPlaying(k, cmd.track)
             s1 == [d EXCEPT !.refusedSkips = @ + 1]
             s0 == [d EXCEPT !.refusedSkips = 0]
             e == Tui!EngineStop(d)
             w == [Tui!ScheduleReconnect(e) EXCEPT !.liveDrain = TRUE]
             z == [e EXCEPT !.attempts = 0]
             n == Tui!HandleStreamPlayed(m, cmd, c)
  <2>1. \/ n \in {w, Tui!NextTrack(z, c), Tui!NextTrack(s1, c), Tui!NextTrack(d, c),
                  Tui!PreloadNext(p, c.near)}
        \/ /\ ~m.liveDrain
           /\ n \in {Tui!PreloadNext(s0, c.near), Tui!PreloadNext(d, c.near)}
    BY DEF Tui!HandleStreamPlayed, Tui!LiveDrainFailed
  <2>2. /\ DOMAIN d = DOMAIN m /\ ~d.buffering /\ ~d.liveDrain
        /\ d.track = m.track /\ d.active = m.active /\ d.playing = m.playing
        /\ d.due = m.due /\ d.attempts = m.attempts /\ d.quitting = m.quitting
    BY <1>3 DEF Retries, RetryShape, RetryFields
  <2> HIDE DEF d, n
  <2>3. RetryShape(d) /\ RetryShape(s1)
    BY <1>3, <2>2 DEF Retries, RetryShape
  <2>4. ~m.liveDrain => Retries(d)
    BY <1>3, <1>5, <2>2, <2>3 DEF Retries, RetryInv, Fresh
  <2>5. /\ DOMAIN p = DOMAIN d /\ p.track = d.track /\ p.active = d.active
        /\ ~p.due /\ p.attempts = 0
    BY <2>3 DEF Tui!NowPlaying, Tui!Add, RetryShape, RetryFields
  <2> HIDE DEF p
  <2>6. Retries(p)
    BY <1>3, <1>5, <2>2, <2>3, <2>5 DEF Retries, RetryShape, RetryInv, Fresh
  <2>7. Aside(d, s0)
    BY <2>3 DEF Aside, Kept, RetryShape, RetryFields
  <2> HIDE DEF s0, s1
  <2>8. ~m.liveDrain => Retries(s0)
    BY <2>4, <2>7, AsideKeeps
  <2>9. RetryShape(e) /\ ~e.playing /\ Kept({"track", "active", "buffering", "quitting"}, d, e)
    BY <2>3, EngineStopRetry DEF RetryShape, Kept, RetryFields
  <2>10. ~e.buffering /\ e.active /\ e.track = m.track
    BY <1>3, <1>5, <2>2, <2>9 DEF Kept
  <2> HIDE DEF e
  <2>11. RetryShape(z)
    BY <2>9 DEF RetryShape
  <2>12. /\ DOMAIN w = DOMAIN e /\ w.playing = e.playing /\ w.buffering = e.buffering
         /\ w.active = e.active /\ w.track = e.track
    BY <2>9 DEF Tui!ScheduleReconnect, RetryShape, RetryFields
  <2> HIDE DEF z, w
  <2>13. Retries(w)
    BY <1>3, <1>5, <2>9, <2>10, <2>12 DEF Retries, RetryShape, RetryInv
  <2>14. /\ Retries(Tui!PreloadNext(p, c.near))
         /\ ~m.liveDrain => /\ Retries(Tui!PreloadNext(s0, c.near))
                            /\ Retries(Tui!PreloadNext(d, c.near))
    BY <2>4, <2>6, <2>8, AsideHelpers, AsideKeeps DEF Retries
  <2>15. Retries(n)
    BY <2>1, <2>3, <2>11, <2>13, <2>14, NextTrackRetry
  <2> QED BY <1>5, <2>15, HandledRetry DEF n
<1> QED BY <1>1, <1>4, <1>5

(* The answer of a preload. *)
LEMMA PreloadedRetry ==
  ASSUME Retries(model), NEW cmd \in model.preloads, Tui!StreamPreloaded(cmd)
  PROVE  Retries(model')
<1> DEFINE m == [model EXCEPT !.preloads = @ \ {cmd}]
           f == IF cmd.at = "failed" THEN cmd.track ELSE m.preloadFailed
           n == [m EXCEPT !.preloading = FALSE, !.preloadFailed = f]
<1>1. model' \in {Tui!Handled(m), Tui!Handled(n)}
  BY DEF Tui!StreamPreloaded
<1>2. Aside(model, m) /\ Aside(model, n)
  BY DEF Aside, Kept, Retries, RetryShape, RetryFields
<1> HIDE DEF m, n
<1>3. Retries(m) /\ Retries(n)
  BY <1>2, AsideKeeps
<1> QED BY <1>1, <1>3, HandledRetry

(* Starts that fail, preloads, broken streams and reports. *)
LEMMA OthersRetry ==
  ASSUME Retries(model),
         \/ \E cmd \in model.starts : Tui!FailsToOpen(cmd)
         \/ \E cmd \in model.preloads : Tui!PreloadEnds(cmd)
         \/ Tui!StreamBreaks \/ Tui!Drain \/ Tui!ReportDone \/ Tui!WaitReports
  PROVE  Retries(model')
<1>1. Aside(model, model')
  BY DEF Tui!FailsToOpen, Tui!PreloadEnds, Tui!StreamBreaks, Tui!Drain, Tui!ReportDone,
         Tui!WaitReports, Aside, Kept, Retries, RetryShape, RetryFields
<1> QED BY <1>1, AsideKeeps

(* A track that ends. *)
LEMMA EndRetry ==
  ASSUME Retries(model), Tui!TrackEnds
  PROVE  Retries(model')
<1>1. DOMAIN model' = DOMAIN model /\ Kept(RetryFields \ {"drained"}, model, model')
  BY DEF Tui!TrackEnds, Kept, Retries, RetryShape, RetryFields
<1>2. /\ (model').track = model.track /\ (model').active = model.active
      /\ (model').buffering = model.buffering /\ (model').playing = model.playing
      /\ (model').due = model.due /\ (model').attempts = model.attempts
      /\ (model').liveDrain = model.liveDrain /\ (model').quitting = model.quitting
  BY <1>1 DEF Kept, RetryFields
<1> QED BY <1>1, <1>2 DEF Retries, RetryShape, RetryInv, Fresh

(* This too holds at first, *)
LEMMA RetryInits == Tui!Init => Retries(model)
BY DEF Tui!Init, Retries, RetryShape, RetryFields, RetryInv

(* and every step preserves it. *)
LEMMA RetrySteps == PlaybackSound /\ Retries(model) /\ [Tui!Next]_model => Retries(model')
<1> SUFFICES ASSUME PlaybackSound, Retries(model), Tui!Next PROVE Retries(model')
  OBVIOUS
<1>1. StartInv(model)
  BY DEF PlaybackSound, PlaybackInv, Sound
<1> QED BY <1>1, CommandsRetry, EditsRetry, QuitRetry, TickRetry, OpensRetry, AnswerRetry,
           PreloadedRetry, OthersRetry, EndRetry DEF Tui!Next

(* The tick that sees the end.                                             *)
LEMMA TickMovesOn ==
  ASSUME Retries(model), Tui!Ended, ~Tui!StationBehind, ~model.buffering, ~model.due, NEW c
  PROVE  LET n == Tui!HandleTick(model, c) IN ~n.drained \/ n.due
<1> DEFINE h == Tui!TickStreamHealth(Tui!TickProgressReport(model, c.report))
           t == Tui!CurrentPlaybackTrack(h)
           r == IF h.due /\ c.over THEN Tui!EngineStop([h EXCEPT !.due = FALSE]) ELSE h
           g == Tui!TickGapless(r, c)
           w == Tui!TickDrain(r, c)
           n == Tui!HandleTick(model, c)
<1>1. n = IF h.due /\ c.over /\ t # NoTrack THEN Tui!Restart(h, t, c)
          ELSE IF r.advanced THEN IF g.active THEN Tui!TickPreloadRetry(g, c.near) ELSE g
          ELSE Tui!TickPreloadRetry(w, c.near)
  BY DEF Tui!HandleTick
<1>2. /\ model.playing /\ model.drained /\ ~model.paused /\ ~model.quitting /\ ~model.advanced
  BY DEF Tui!Ended
<1>3. /\ Retries(h) /\ Kept(RetryFields \ {"due", "attempts"}, model, h)
      /\ ~h.paused /\ h.cur = model.cur /\ ~h.advanced
  BY <1>2, HealthRetry
<1> HIDE DEF h, n
<1>4. /\ h.track = model.track /\ h.playing /\ h.drained /\ ~h.buffering /\ ~h.quitting
      /\ h.active = model.active
  BY <1>2, <1>3 DEF Kept, RetryFields
<1>5. h.active /\ t = h.track /\ t # NoTrack
  BY <1>3, <1>4 DEF Retries, RetryInv, Tui!CurrentPlaybackTrack
<1>6. t = Tui!CurrentPlaybackTrack(model)
  BY <1>2, <1>4, <1>5 DEF Tui!CurrentPlaybackTrack
<1>7. CASE h.due /\ c.over
  BY <1>1, <1>3, <1>5, <1>7, RestartRetry DEF n
<1>8. CASE ~(h.due /\ c.over)
  <2>1. r = h /\ n = Tui!TickPreloadRetry(w, c.near)
    BY <1>1, <1>3, <1>8
  <2>2. RetryShape(w) /\ (~w.drained \/ w.due)
    <3>1. CASE h.due
      BY <1>3, <2>1, <3>1 DEF Tui!TickDrain, Retries
    <3>2. CASE ~h.due /\ Tui!PlaysLive(h, t)
      <4>1. Tui!PlaysLive(model, t)
        BY <1>3, <3>2 DEF Tui!PlaysLive, Tui!HasDuration
      <4>2. Tui!Remote(t)
        BY <1>5, <1>6, <4>1 DEF Tui!StationBehind
      <4>3. h.attempts = 0
        BY <1>3, <1>4, <1>5, <3>2, <4>2 DEF Retries, RetryInv, Fresh
      <4>4. w = [Tui!ScheduleReconnect(h) EXCEPT !.liveDrain = Tui!Ytdl(t)]
        BY <1>3, <1>4, <1>5, <2>1, <3>2 DEF Tui!TickDrain
      <4> HIDE DEF w, t
      <4>5. DOMAIN w = DOMAIN h /\ w.due
        BY <1>3, <3>2, <4>3, <4>4 DEF Tui!ScheduleReconnect, Retries, RetryShape, RetryFields
      <4> QED BY <1>3, <4>5 DEF Retries, RetryShape
    <3>3. CASE ~h.due /\ ~Tui!PlaysLive(h, t)
      <4> DEFINE l == Tui!LeaveTrack(h, TRUE)
                 e == Tui!EngineStop(l)
      <4>1. w = Tui!NextTrack(e, c)
        BY <1>3, <1>4, <2>1, <3>3 DEF Tui!TickDrain
      <4>2. RetryShape(l)
        BY <1>3, AsideHelpers DEF Aside, Retries, RetryShape
      <4> HIDE DEF l
      <4>3. RetryShape(e) /\ ~e.drained
        BY <4>2, EngineStopRetry DEF RetryShape
      <4> HIDE DEF e, w
      <4> QED BY <4>1, <4>3, NextTrackRetry DEF Retries
    <3> QED BY <3>1, <3>2, <3>3
  <2> HIDE DEF w
  <2>3. Aside(w, n)
    BY <2>1, <2>2, AsideHelpers
  <2> QED BY <2>2, <2>3, KeptRetry DEF Aside, n
<1> QED BY <1>7, <1>8

RetryHolds == Retries(model)

(* tickDrain, scheduleReconnect: a track that ended is followed at the     *)
(* next tick, by another, a reconnect or the end of the queue, unless a    *)
(* start or a reconnect is under way; but for a station that plays behind  *)
(* a local track, which StationsRetry shows to stall.                      *)
THEOREM QueueMovesOn == TuiSpec => []EndsMoveOn
<1>1. Tui!Init => RetryHolds
  BY RetryInits DEF RetryHolds
<1>2. PlaybackSound /\ RetryHolds /\ [Tui!Next]_model => RetryHolds'
  BY RetrySteps DEF RetryHolds
<1>3. RetryHolds => EndsMoveOn
  BY TickMovesOn DEF RetryHolds, EndsMoveOn, Tui!EndsMoveOn, Tui!MovesOn
<1> QED BY <1>1, <1>2, <1>3, PlaybackHolds, PTL DEF TuiSpec, Tui!Spec

-----------------------------------------------------------------------------
(***************************************************************************)
(* The reports reach the providers in order.                               *)
(***************************************************************************)
IsSeq(p) == \E S : p \in Seq(S)

Now(t) == Tui!Report("now", t, t)

(* What the provider heard last, or hears now, that is no progress report. *)
Heard(m) == IF m.busy # NoTrack /\ m.busy.kind # "progress" THEN m.busy ELSE m.told

(* Before place i of the queue p, and after b, the latest report that is   *)
(* no progress report is r.                                                *)
AllProgress(p, i, j) == \A k \in i..j : p[k].kind = "progress"
Latest(p, b, r, i) ==
  \/ \E j \in 1..(i - 1) : p[j] = r /\ AllProgress(p, j + 1, i - 1)
  \/ b = r /\ AllProgress(p, 1, i - 1)

(* Each scrobble follows the now-playing report of its track, and at most  *)
(* one progress report of a track waits.                                   *)
InOrderAfter(p, b) ==
  /\ IsSeq(p)
  /\ \A i \in 1..Len(p) :
       /\ p[i] # NoTrack
       /\ p[i].kind = "scrobble" => Latest(p, b, Now(p[i].track), i)
       /\ \A j \in 1..Len(p) :
            p[i].kind = "progress" /\ p[j].kind = "progress" /\ p[i].track = p[j].track => i = j

LEMMA AppendFacts ==
  ASSUME NEW p, IsSeq(p), NEW r
  PROVE  LET q == Append(p, r)
         IN  /\ IsSeq(q) /\ Len(p) \in Nat /\ Len(q) = Len(p) + 1
             /\ q[Len(p) + 1] = r /\ \A i \in 1..Len(p) : q[i] = p[i]
<1>1. PICK S : p \in Seq(S)
  BY DEF IsSeq
<1>2. p \in Seq(S \cup {r})
  BY <1>1
<1>3. Append(p, r) \in Seq(S \cup {r})
  BY <1>2
<1> QED BY <1>2, <1>3 DEF IsSeq

LEMMA RemoveFacts ==
  ASSUME NEW p, IsSeq(p), NEW k \in 1..Len(p)
  PROVE  LET q == Tui!RemoveAt(p, k)
         IN  /\ IsSeq(q) /\ Len(p) \in Nat /\ Len(q) = Len(p) - 1
             /\ \A i \in 1..(Len(p) - 1) : q[i] = IF i < k THEN p[i] ELSE p[i + 1]
<1>1. PICK S : p \in Seq(S)
  BY DEF IsSeq
<1> DEFINE a == SubSeq(p, 1, k - 1)
           c == SubSeq(p, k + 1, Len(p))
           q == Tui!RemoveAt(p, k)
<1>2. Len(p) \in Nat
  BY <1>1
<1>3. a \in Seq(S) /\ Len(a) = k - 1 /\ c \in Seq(S) /\ Len(c) = Len(p) - k
  BY <1>1, <1>2
<1>4. /\ \A i \in 1..(k - 1) : a[i] = p[i]
      /\ \A i \in 1..(Len(p) - k) : c[i] = p[k + i]
  BY <1>1, <1>2
<1>5. q = a \o c
  BY DEF Tui!RemoveAt
<1> HIDE DEF a, c, q
<1>6. q \in Seq(S) /\ Len(q) = Len(a) + Len(c)
  BY <1>3, <1>5
<1>7. \A i \in 1..Len(q) : q[i] = IF i <= Len(a) THEN a[i] ELSE c[i - Len(a)]
  BY <1>3, <1>5
<1>8. Len(q) = Len(p) - 1
  BY <1>2, <1>3, <1>6
<1>9. ASSUME NEW i \in 1..(Len(p) - 1) PROVE q[i] = IF i < k THEN p[i] ELSE p[i + 1]
  <2>1. CASE i < k
    <3>1. i \in 1..Len(q) /\ i <= Len(a) /\ i \in 1..(k - 1)
      BY <1>2, <1>3, <1>8, <2>1
    <3>2. q[i] = a[i] /\ a[i] = p[i]
      BY <1>4, <1>7, <3>1
    <3> QED BY <2>1, <3>2
  <2>2. CASE i >= k
    <3> DEFINE o == i - (k - 1)
    <3>1. /\ i \in 1..Len(q) /\ ~(i <= Len(a)) /\ o \in 1..(Len(p) - k) /\ i - Len(a) = o
          /\ k + o = i + 1
      BY <1>2, <1>3, <1>8, <2>2
    <3> HIDE DEF o
    <3>2. q[i] = c[o] /\ c[o] = p[k + o]
      BY <1>4, <1>7, <3>1
    <3> QED BY <2>2, <3>1, <3>2
  <2> QED BY <1>2, <2>1, <2>2
<1> QED BY <1>2, <1>6, <1>8, <1>9 DEF IsSeq, q

LEMMA TailFacts ==
  ASSUME NEW p, IsSeq(p), p # <<>>
  PROVE  LET q == Tail(p)
         IN  /\ IsSeq(q) /\ Len(p) \in Nat /\ Len(p) >= 1 /\ Len(q) = Len(p) - 1
             /\ Head(p) = p[1] /\ \A i \in 1..(Len(p) - 1) : q[i] = p[i + 1]
<1>1. PICK S : p \in Seq(S)
  BY DEF IsSeq
<1>2. /\ Tail(p) \in Seq(S) /\ Len(p) \in Nat /\ Len(p) >= 1 /\ Len(Tail(p)) = Len(p) - 1
      /\ Head(p) = p[1] /\ \A i \in 1..(Len(p) - 1) : Tail(p)[i] = p[i + 1]
  BY <1>1
<1> QED BY <1>2 DEF IsSeq

LEMMA AppendLatest ==
  ASSUME NEW p, NEW q, NEW b, NEW r, NEW x, NEW i, Len(p) \in Nat, i \in 1..(Len(p) + 1),
         \A k \in 1..Len(p) : q[k] = p[k], Latest(p, b, x, i)
  PROVE  Latest(q, b, x, i)
<1>1. ASSUME NEW j \in 1..(i - 1), p[j] = x, AllProgress(p, j + 1, i - 1)
      PROVE  q[j] = x /\ AllProgress(q, j + 1, i - 1)
  BY <1>1 DEF AllProgress
<1>2. AllProgress(p, 1, i - 1) => AllProgress(q, 1, i - 1)
  BY DEF AllProgress
<1> QED BY <1>1, <1>2 DEF Latest

LEMMA AppendOrder ==
  ASSUME NEW p, NEW b, InOrderAfter(p, b), NEW r, r # NoTrack,
         r.kind = "scrobble" => Latest(p, b, Now(r.track), Len(p) + 1),
         r.kind = "progress" =>
           \A i \in 1..Len(p) : p[i].kind = "progress" => p[i].track # r.track
  PROVE  LET q == Append(p, r)
         IN  /\ InOrderAfter(q, b)
             /\ r.kind # "progress" => Latest(q, b, r, Len(q) + 1)
             /\ r.kind = "progress" =>
                  \A x : Latest(p, b, x, Len(p) + 1) => Latest(q, b, x, Len(q) + 1)
<1> DEFINE q == Append(p, r)
<1>1. /\ IsSeq(q) /\ Len(p) \in Nat /\ Len(q) = Len(p) + 1
      /\ q[Len(p) + 1] = r /\ \A i \in 1..Len(p) : q[i] = p[i]
  BY AppendFacts DEF InOrderAfter
<1> HIDE DEF q
<1>2. ASSUME NEW i \in 1..Len(q), q[i].kind = "scrobble"
      PROVE  Latest(q, b, Now(q[i].track), i)
  <2>1. i \in 1..(Len(p) + 1)
    BY <1>1
  <2>2. Latest(p, b, Now(q[i].track), i)
    <3>1. CASE i = Len(p) + 1
      BY <1>1, <1>2, <3>1
    <3>2. CASE i # Len(p) + 1
      <4>1. i \in 1..Len(p) /\ q[i] = p[i]
        BY <1>1, <2>1, <3>2
      <4> QED BY <1>2, <4>1 DEF InOrderAfter
    <3> QED BY <3>1, <3>2
  <2> QED BY <1>1, <2>1, <2>2, AppendLatest
<1>3. ASSUME NEW i \in 1..Len(q) PROVE q[i] # NoTrack
  <2>1. i \in 1..Len(p) \/ i = Len(p) + 1
    BY <1>1
  <2> QED BY <1>1, <2>1 DEF InOrderAfter
<1>4. ASSUME NEW i \in 1..Len(q), NEW j \in 1..Len(q),
             q[i].kind = "progress", q[j].kind = "progress", q[i].track = q[j].track
      PROVE  i = j
  <2>1. (i \in 1..Len(p) \/ i = Len(p) + 1) /\ (j \in 1..Len(p) \/ j = Len(p) + 1)
    BY <1>1
  <2>2. CASE i \in 1..Len(p) /\ j \in 1..Len(p)
    BY <1>1, <1>4, <2>2 DEF InOrderAfter
  <2>3. CASE i \in 1..Len(p) /\ j = Len(p) + 1
    BY <1>1, <1>4, <2>3
  <2>4. CASE i = Len(p) + 1 /\ j \in 1..Len(p)
    BY <1>1, <1>4, <2>4
  <2> QED BY <2>1, <2>2, <2>3, <2>4
<1>5. InOrderAfter(q, b)
  BY <1>1, <1>2, <1>3, <1>4 DEF InOrderAfter
<1>6. ASSUME r.kind # "progress" PROVE Latest(q, b, r, Len(q) + 1)
  <2>1. Len(q) \in 1..((Len(q) + 1) - 1) /\ q[Len(q)] = r
    BY <1>1
  <2>2. AllProgress(q, Len(q) + 1, (Len(q) + 1) - 1)
    BY <1>1 DEF AllProgress
  <2> QED BY <2>1, <2>2 DEF Latest
<1>7. ASSUME r.kind = "progress", NEW x, Latest(p, b, x, Len(p) + 1)
      PROVE  Latest(q, b, x, Len(q) + 1)
  <2>1. ASSUME NEW j \in 1..Len(p), p[j] = x, AllProgress(p, j + 1, Len(p))
        PROVE  j \in 1..Len(q) /\ q[j] = x /\ AllProgress(q, j + 1, Len(q))
    <3>1. ASSUME NEW k \in (j + 1)..Len(q) PROVE q[k].kind = "progress"
      <4>1. k \in (j + 1)..Len(p) \/ k = Len(p) + 1
        BY <1>1
      <4> QED BY <1>1, <1>7, <2>1, <4>1 DEF AllProgress
    <3> QED BY <1>1, <2>1, <3>1 DEF AllProgress
  <2>2. ASSUME AllProgress(p, 1, Len(p)) PROVE AllProgress(q, 1, Len(q))
    <3>1. ASSUME NEW k \in 1..Len(q) PROVE q[k].kind = "progress"
      <4>1. k \in 1..Len(p) \/ k = Len(p) + 1
        BY <1>1
      <4> QED BY <1>1, <1>7, <2>2, <4>1 DEF AllProgress
    <3> QED BY <3>1 DEF AllProgress
  <2>3. (Len(p) + 1) - 1 = Len(p) /\ (Len(q) + 1) - 1 = Len(q)
    BY <1>1
  <2> QED BY <1>7, <2>1, <2>2, <2>3 DEF Latest
<1> QED BY <1>5, <1>6, <1>7 DEF q

(* A progress report that goes is missed by no other report. *)
LEMMA RemoveLatest ==
  ASSUME NEW p, IsSeq(p), NEW b, NEW k \in 1..Len(p), p[k].kind = "progress",
         NEW x, x.kind # "progress", NEW i \in 1..(Len(p) + 1), Latest(p, b, x, i)
  PROVE  LET q == Tui!RemoveAt(p, k) IN Latest(q, b, x, IF i <= k THEN i ELSE i - 1)
<1> DEFINE q == Tui!RemoveAt(p, k)
           n == IF i <= k THEN i ELSE i - 1
<1>1. Len(p) \in Nat
  BY RemoveFacts
<1>2. \A j \in 1..(Len(p) - 1) : (j < k => q[j] = p[j]) /\ (j >= k => q[j] = p[j + 1])
  <2>1. \A j \in 1..(Len(p) - 1) : q[j] = IF j < k THEN p[j] ELSE p[j + 1]
    BY RemoveFacts
  <2> HIDE DEF q
  <2> QED BY <1>1, <2>1
<1> HIDE DEF q
<1>3. n \in 1..Len(p)
  BY <1>1
<1>4. ASSUME NEW j \in 0..(i - 1), j # k, AllProgress(p, j + 1, i - 1)
      PROVE  LET l == IF j < k THEN j ELSE j - 1
             IN  /\ l \in 0..(n - 1) /\ AllProgress(q, l + 1, n - 1)
                 /\ j >= 1 => l >= 1 /\ q[l] = p[j]
  <2> DEFINE l == IF j < k THEN j ELSE j - 1
  <2>1. l \in 0..(n - 1)
    BY <1>1, <1>4
  <2>2. j >= 1 => l >= 1 /\ q[l] = p[j]
    <3>1. CASE j < k
      <4>1. l = j /\ (j >= 1 => j \in 1..(Len(p) - 1))
        BY <1>1, <3>1
      <4> QED BY <1>2, <3>1, <4>1
    <3>2. CASE j > k
      <4>1. l = j - 1 /\ l \in 1..(Len(p) - 1) /\ l >= k /\ l + 1 = j
        BY <1>1, <3>2
      <4> QED BY <1>2, <4>1
    <3> QED BY <1>1, <1>4, <3>1, <3>2
  <2>3. ASSUME NEW h \in (l + 1)..(n - 1) PROVE q[h].kind = "progress"
    <3>1. CASE h < k
      <4>1. h \in (j + 1)..(i - 1) /\ h \in 1..(Len(p) - 1)
        BY <1>1, <1>3, <1>4, <2>1, <3>1
      <4>2. q[h] = p[h]
        BY <1>2, <3>1, <4>1
      <4> QED BY <1>4, <4>1, <4>2 DEF AllProgress
    <3>2. CASE h >= k
      <4>1. h + 1 \in (j + 1)..(i - 1) /\ h \in 1..(Len(p) - 1)
        BY <1>1, <1>3, <1>4, <2>1, <3>2
      <4>2. q[h] = p[h + 1]
        BY <1>2, <3>2, <4>1
      <4> QED BY <1>4, <4>1, <4>2 DEF AllProgress
    <3> QED BY <1>1, <2>1, <3>1, <3>2
  <2> QED BY <2>1, <2>2, <2>3 DEF AllProgress
<1>5. CASE \E j \in 1..(i - 1) : p[j] = x /\ AllProgress(p, j + 1, i - 1)
  <2>1. PICK j \in 1..(i - 1) : p[j] = x /\ AllProgress(p, j + 1, i - 1)
    BY <1>5
  <2>2. j # k /\ j \in 0..(i - 1) /\ j >= 1
    BY <2>1
  <2> DEFINE l == IF j < k THEN j ELSE j - 1
  <2>3. l \in 0..(n - 1) /\ AllProgress(q, l + 1, n - 1) /\ l >= 1 /\ q[l] = x
    BY <1>4, <2>1, <2>2
  <2> HIDE DEF l, n
  <2>4. l \in 1..(n - 1)
    BY <1>1, <1>3, <2>3
  <2> QED BY <2>3, <2>4 DEF Latest, n, q
<1>6. CASE b = x /\ AllProgress(p, 1, i - 1)
  <2>1. 0 \in 0..(i - 1) /\ 0 # k /\ 0 + 1 = 1 /\ 0 < k
    BY <1>1
  <2>2. AllProgress(q, 1, n - 1)
    BY <1>4, <1>6, <2>1
  <2> QED BY <1>6, <2>2 DEF Latest, n, q
<1> QED BY <1>5, <1>6 DEF Latest

LEMMA NowIsNoProgress ==
  ASSUME NEW t
  PROVE  Now(t).kind = "now" /\ Now(t).track = t
BY DEF Now, Tui!Report

LEMMA RemoveOrder ==
  ASSUME NEW p, NEW b, InOrderAfter(p, b), NEW k \in 1..Len(p), p[k].kind = "progress"
  PROVE  LET q == Tui!RemoveAt(p, k)
         IN  /\ InOrderAfter(q, b)
             /\ \A i \in 1..Len(q) : q[i].kind = "progress" => q[i].track # p[k].track
             /\ \A x : x.kind # "progress" /\ Latest(p, b, x, Len(p) + 1)
                         => Latest(q, b, x, Len(q) + 1)
<1> DEFINE q == Tui!RemoveAt(p, k)
           o(i) == IF i < k THEN i ELSE i + 1
<1>1. /\ IsSeq(q) /\ Len(p) \in Nat /\ Len(q) = Len(p) - 1
      /\ \A j \in 1..(Len(p) - 1) : q[j] = p[o(j)]
  BY RemoveFacts DEF InOrderAfter
<1>2. IsSeq(p)
  BY DEF InOrderAfter
<1>3. \A x, i : i \in 1..(Len(p) + 1) /\ x.kind # "progress" /\ Latest(p, b, x, i)
                => Latest(q, b, x, IF i <= k THEN i ELSE i - 1)
  BY <1>2, RemoveLatest
<1> HIDE DEF q
<1>4. ASSUME NEW i \in 1..Len(q)
      PROVE  /\ o(i) \in 1..Len(p) /\ o(i) # k /\ q[i] = p[o(i)]
             /\ i = IF o(i) <= k THEN o(i) ELSE o(i) - 1
  BY <1>1
<1>5. ASSUME NEW i \in 1..Len(q), NEW j \in 1..Len(q), o(i) = o(j) PROVE i = j
  BY <1>1, <1>5
<1> HIDE DEF o
<1>6. ASSUME NEW i \in 1..Len(q), q[i].kind = "scrobble"
      PROVE  Latest(q, b, Now(q[i].track), i)
  <2>1. Latest(p, b, Now(q[i].track), o(i)) /\ o(i) \in 1..(Len(p) + 1)
    BY <1>1, <1>4, <1>6 DEF InOrderAfter
  <2>2. Now(q[i].track).kind # "progress"
    BY NowIsNoProgress
  <2>3. Latest(q, b, Now(q[i].track), IF o(i) <= k THEN o(i) ELSE o(i) - 1)
    BY <1>3, <2>1, <2>2
  <2> QED BY <1>4, <2>3
<1>7. ASSUME NEW i \in 1..Len(q) PROVE q[i] # NoTrack
  BY <1>4 DEF InOrderAfter
<1>8. ASSUME NEW i \in 1..Len(q), NEW j \in 1..Len(q),
             q[i].kind = "progress", q[j].kind = "progress", q[i].track = q[j].track
      PROVE  i = j
  <2>1. o(i) = o(j)
    BY <1>4, <1>8 DEF InOrderAfter
  <2> QED BY <1>5, <2>1
<1>9. InOrderAfter(q, b)
  BY <1>1, <1>6, <1>7, <1>8 DEF InOrderAfter
<1>10. \A i \in 1..Len(q) : q[i].kind = "progress" => q[i].track # p[k].track
  BY <1>4 DEF InOrderAfter
<1>11. ASSUME NEW x, x.kind # "progress", Latest(p, b, x, Len(p) + 1)
       PROVE  Latest(q, b, x, Len(q) + 1)
  <2>1. Len(p) + 1 \in 1..(Len(p) + 1) /\ ~(Len(p) + 1 <= k) /\ (Len(p) + 1) - 1 = Len(q) + 1
    BY <1>1
  <2>2. Latest(q, b, x, IF Len(p) + 1 <= k THEN Len(p) + 1 ELSE (Len(p) + 1) - 1)
    BY <1>3, <1>11, <2>1
  <2> QED BY <2>1, <2>2
<1> QED BY <1>9, <1>10, <1>11 DEF q

(* The head of the queue goes: it is what the provider hears now. *)
LEMMA TailOrder ==
  ASSUME NEW p, NEW b, InOrderAfter(p, b), p # <<>>
  PROVE  LET q == Tail(p)
             h == Head(p)
             c == IF h.kind = "progress" THEN b ELSE h
         IN  /\ InOrderAfter(q, c) /\ h # NoTrack
             /\ h.kind = "scrobble" => b = Now(h.track)
             /\ \A x : x.kind # "progress" /\ Latest(p, b, x, Len(p) + 1)
                         => Latest(q, c, x, Len(q) + 1)
<1> DEFINE q == Tail(p)
           h == Head(p)
           c == IF h.kind = "progress" THEN b ELSE h
<1>1. /\ IsSeq(q) /\ Len(p) \in Nat /\ Len(p) >= 1 /\ Len(q) = Len(p) - 1
      /\ h = p[1] /\ \A i \in 1..(Len(p) - 1) : q[i] = p[i + 1]
  BY TailFacts DEF InOrderAfter
<1> HIDE DEF q, h
<1>2. ASSUME NEW x, x.kind # "progress", NEW i \in 1..Len(p), Latest(p, b, x, i + 1)
      PROVE  Latest(q, c, x, i)
  <2>1. ASSUME NEW j \in 1..i, p[j] = x, AllProgress(p, j + 1, i) PROVE Latest(q, c, x, i)
    <3>1. ASSUME NEW n \in j..(i - 1) PROVE q[n].kind = "progress"
      <4>1. q[n] = p[n + 1] /\ n + 1 \in (j + 1)..i
        BY <1>1, <2>1
      <4> QED BY <2>1, <4>1 DEF AllProgress
    <3>2. CASE j = 1
      <4>1. AllProgress(q, 1, i - 1)
        BY <3>1, <3>2 DEF AllProgress
      <4>2. c = x
        BY <1>1, <1>2, <2>1, <3>2
      <4> QED BY <4>1, <4>2 DEF Latest
    <3>3. CASE j # 1
      <4>1. j - 1 \in 1..(i - 1) /\ q[j - 1] = x
        BY <1>1, <2>1, <3>3
      <4>2. AllProgress(q, (j - 1) + 1, i - 1)
        BY <1>1, <3>1 DEF AllProgress
      <4> QED BY <4>1, <4>2 DEF Latest
    <3> QED BY <3>2, <3>3
  <2>2. ASSUME b = x, AllProgress(p, 1, i) PROVE Latest(q, c, x, i)
    <3>1. h.kind = "progress"
      BY <1>1, <2>2 DEF AllProgress
    <3>2. ASSUME NEW n \in 1..(i - 1) PROVE q[n].kind = "progress"
      <4>1. q[n] = p[n + 1] /\ n + 1 \in 1..i
        BY <1>1
      <4> QED BY <2>2, <4>1 DEF AllProgress
    <3> QED BY <2>2, <3>1, <3>2 DEF Latest, AllProgress
  <2>3. (i + 1) - 1 = i
    BY <1>1
  <2> QED BY <1>2, <2>1, <2>2, <2>3 DEF Latest
<1> HIDE DEF c
<1>3. ASSUME NEW i \in 1..Len(q), q[i].kind = "scrobble"
      PROVE  Latest(q, c, Now(q[i].track), i)
  <2>1. i + 1 \in 1..Len(p) /\ i \in 1..Len(p) /\ q[i] = p[i + 1]
    BY <1>1
  <2>2. Latest(p, b, Now(q[i].track), i + 1)
    BY <1>3, <2>1 DEF InOrderAfter
  <2> QED BY <1>2, <2>1, <2>2, NowIsNoProgress
<1>4. ASSUME NEW i \in 1..Len(q) PROVE q[i] # NoTrack
  BY <1>1 DEF InOrderAfter
<1>5. ASSUME NEW i \in 1..Len(q), NEW j \in 1..Len(q),
             q[i].kind = "progress", q[j].kind = "progress", q[i].track = q[j].track
      PROVE  i = j
  <2>1. i + 1 \in 1..Len(p) /\ q[i] = p[i + 1] /\ j + 1 \in 1..Len(p) /\ q[j] = p[j + 1]
    BY <1>1
  <2>2. i + 1 = j + 1
    BY <1>5, <2>1 DEF InOrderAfter
  <2> QED BY <1>1, <2>2
<1>6. InOrderAfter(q, c)
  BY <1>1, <1>3, <1>4, <1>5 DEF InOrderAfter
<1>7. h # NoTrack /\ (h.kind = "scrobble" => b = Now(h.track))
  <2>1. 1 \in 1..Len(p)
    BY <1>1
  <2>2. h.kind = "scrobble" => Latest(p, b, Now(h.track), 1)
    BY <1>1, <2>1 DEF InOrderAfter
  <2>3. Latest(p, b, Now(h.track), 1) => b = Now(h.track)
    BY DEF Latest
  <2> QED BY <1>1, <2>1, <2>2, <2>3 DEF InOrderAfter
<1>8. ASSUME NEW x, x.kind # "progress", Latest(p, b, x, Len(p) + 1)
      PROVE  Latest(q, c, x, Len(q) + 1)
  <2>1. Len(p) \in 1..Len(p) /\ Len(q) + 1 = Len(p)
    BY <1>1
  <2> QED BY <1>2, <1>8, <2>1
<1> QED BY <1>6, <1>7, <1>8 DEF q, h, c
(* add: the queue stays in order. *)
LEMMA AddOrder ==
  ASSUME NEW m, {"pending", "running"} \subseteq DOMAIN m, NEW b, InOrderAfter(m.pending, b),
         NEW r, r # NoTrack,
         r.kind = "scrobble" => Latest(m.pending, b, Now(r.track), Len(m.pending) + 1)
  PROVE  LET n == Tui!Add(m, r)
         IN  /\ DOMAIN n = DOMAIN m /\ n.running
             /\ \A f \in DOMAIN m \ {"pending", "running"} : n[f] = m[f]
             /\ InOrderAfter(n.pending, b)
             /\ r.kind # "progress" => Latest(n.pending, b, r, Len(n.pending) + 1)
             /\ r.kind = "progress" =>
                  \A x : x.kind # "progress" /\ Latest(m.pending, b, x, Len(m.pending) + 1)
                           => Latest(n.pending, b, x, Len(n.pending) + 1)
<1> DEFINE p == m.pending
           old == Tui!Waiting(m, r.track)
           k == CHOOSE i \in old : TRUE
           rest == IF r.kind # "progress" \/ old = {} THEN p ELSE Tui!RemoveAt(p, k)
           q == Append(rest, r)
           n == Tui!Add(m, r)
<1>1. n = [m EXCEPT !.pending = q, !.running = TRUE]
  BY DEF Tui!Add
<1> HIDE DEF n
<1>2. /\ DOMAIN n = DOMAIN m /\ n.running /\ n.pending = q
      /\ \A f \in DOMAIN m \ {"pending", "running"} : n[f] = m[f]
  BY <1>1
<1>3. \A i \in old : i \in 1..Len(p) /\ p[i].kind = "progress" /\ p[i].track = r.track
  <2>1. PICK S : p \in Seq(S)
    BY DEF InOrderAfter, IsSeq
  <2>2. DOMAIN p = 1..Len(p)
    BY <2>1
  <2> QED BY <2>2 DEF Tui!Waiting
<1>4. /\ InOrderAfter(rest, b)
      /\ r.kind = "progress" =>
           \A i \in 1..Len(rest) : rest[i].kind = "progress" => rest[i].track # r.track
      /\ \A x : x.kind # "progress" /\ Latest(p, b, x, Len(p) + 1)
                  => Latest(rest, b, x, Len(rest) + 1)
  <2>1. CASE r.kind = "progress" /\ old # {}
    <3>1. k \in old
      BY <2>1
    <3>2. k \in 1..Len(p) /\ p[k].kind = "progress" /\ p[k].track = r.track
      BY <1>3, <3>1
    <3>3. rest = Tui!RemoveAt(p, k)
      BY <2>1
    <3> HIDE DEF p, k, old, rest
    <3>4. InOrderAfter(p, b)
      BY DEF p
    <3> QED BY <3>2, <3>3, <3>4, RemoveOrder
  <2>2. CASE r.kind # "progress"
    BY <2>2
  <2>3. CASE r.kind = "progress" /\ old = {}
    <3>1. PICK S : p \in Seq(S)
      BY DEF InOrderAfter, IsSeq
    <3>2. DOMAIN p = 1..Len(p)
      BY <3>1
    <3>3. \A i \in 1..Len(p) : p[i].kind = "progress" => p[i].track # r.track
      BY <2>3, <3>2 DEF Tui!Waiting
    <3> QED BY <2>3, <3>3
  <2> QED BY <2>1, <2>2, <2>3
<1> HIDE DEF rest
<1>5. r.kind = "scrobble" => Latest(rest, b, Now(r.track), Len(rest) + 1)
  BY <1>4, NowIsNoProgress
<1>6. /\ InOrderAfter(q, b)
      /\ r.kind # "progress" => Latest(q, b, r, Len(q) + 1)
      /\ r.kind = "progress" =>
           \A x : Latest(rest, b, x, Len(rest) + 1) => Latest(q, b, x, Len(q) + 1)
  BY <1>4, <1>5, AppendOrder
<1> HIDE DEF q
<1> QED BY <1>2, <1>4, <1>6 DEF n

-----------------------------------------------------------------------------
(* The Model and the queue. *)

ReportFields ==
  {"track", "active", "started", "left", "pending", "running", "busy", "told", "quitting", "exit"}
PlayingFields == {"track", "active", "started", "left"}

(* The queue is in order, its goroutine is under way while reports wait,   *)
(* and none come once the program has seen it idle.                        *)
QueueInv(m) ==
  /\ ReportFields \subseteq DOMAIN m
  /\ InOrderAfter(m.pending, Heard(m))
  /\ m.busy # NoTrack /\ m.busy.kind = "scrobble" => m.told = Now(m.busy.track)
  /\ m.pending # <<>> \/ m.busy # NoTrack => m.running
  /\ m.exit = "reported" => ~m.running
  /\ m.exit # "no" => m.quitting

(* A play that is not over has been reported, and nothing since. *)
OnAir(m) == ~m.quitting /\ m.active /\ m.started /\ ~m.left
PlayInv(m) ==
  OnAir(m) /\ m.track \in Reported =>
    Latest(m.pending, Heard(m), Now(m.track), Len(m.pending) + 1)

ReportInv(m) == QueueInv(m) /\ PlayInv(m)

(* What the handlers leave to the goroutine and to the exit; no report but *)
(* that of a position leaves the queue.                                    *)
Beside(m, n) ==
  /\ n.busy = m.busy /\ n.told = m.told /\ n.exit = m.exit /\ n.quitting = m.quitting
  /\ \A r : r.kind # "progress" /\ Tui!Waits(m, r) => Tui!Waits(n, r)

(* No report is lost: one that waits does so or is made, and heard then. *)
Keeps ==
  /\ \A r : r.kind # "progress" /\ Tui!Waits(model, r) =>
               Tui!Waits(model', r) \/ (model').busy = r
  /\ model.busy # NoTrack /\ (model').busy # model.busy /\ model.busy.kind # "progress" =>
       (model').told = model.busy

LEMMA BesideKeeps == Beside(model, model') => Keeps
BY DEF Beside, Keeps

Still(m, n) == DOMAIN n = DOMAIN m /\ Kept(ReportFields, m, n)

(* The fields of a state in which reports and what plays are the same. *)
LEMMA KeptReports ==
  ASSUME NEW m, NEW n
  PROVE  /\ Kept(ReportFields \ PlayingFields, m, n) =>
              /\ n.pending = m.pending /\ n.running = m.running
              /\ Beside(m, n) /\ Heard(n) = Heard(m)
         /\ Kept(ReportFields, m, n) =>
              /\ n.pending = m.pending /\ n.running = m.running
              /\ Beside(m, n) /\ Heard(n) = Heard(m)
              /\ n.track = m.track /\ n.active = m.active
              /\ n.started = m.started /\ n.left = m.left
<1>1. ReportFields \ PlayingFields = {"pending", "running", "busy", "told", "quitting", "exit"}
  BY DEF ReportFields, PlayingFields
<1>2. ASSUME Kept(ReportFields \ PlayingFields, m, n)
      PROVE  /\ n.pending = m.pending /\ n.running = m.running
             /\ Beside(m, n) /\ Heard(n) = Heard(m)
  <2>1. /\ n.pending = m.pending /\ n.running = m.running /\ n.busy = m.busy /\ n.told = m.told
        /\ n.quitting = m.quitting /\ n.exit = m.exit
    BY <1>1, <1>2 DEF Kept
  <2>2. \A r : Tui!Waits(m, r) => Tui!Waits(n, r)
    BY <2>1 DEF Tui!Waits
  <2> QED BY <2>1, <2>2 DEF Beside, Heard
<1>3. ASSUME Kept(ReportFields, m, n)
      PROVE  /\ Kept(ReportFields \ PlayingFields, m, n)
             /\ n.track = m.track /\ n.active = m.active /\ n.started = m.started /\ n.left = m.left
  BY <1>3 DEF Kept, ReportFields
<1> QED BY <1>2, <1>3

(* Their reports are as sound. *)
LEMMA StillReports ==
  ASSUME NEW m, NEW n, ReportInv(m), Still(m, n)
  PROVE  ReportInv(n) /\ Beside(m, n)
<1>1. /\ n.pending = m.pending /\ n.running = m.running /\ Beside(m, n) /\ Heard(n) = Heard(m)
      /\ n.track = m.track /\ n.active = m.active /\ n.started = m.started /\ n.left = m.left
  BY KeptReports DEF Still
<1>2. QueueInv(n)
  BY <1>1 DEF Still, ReportInv, QueueInv, Beside
<1>3. PlayInv(n)
  BY <1>1 DEF ReportInv, PlayInv, OnAir, Beside
<1> QED BY <1>1, <1>2, <1>3 DEF ReportInv

(* So they are when a play is over, whatever plays now. *)
LEMMA OverReports ==
  ASSUME NEW m, NEW n, ReportInv(m), DOMAIN n = DOMAIN m,
         Kept(ReportFields \ PlayingFields, m, n), ~OnAir(n)
  PROVE  ReportInv(n) /\ Beside(m, n)
<1>1. n.pending = m.pending /\ n.running = m.running /\ Beside(m, n) /\ Heard(n) = Heard(m)
  BY KeptReports
<1> QED BY <1>1 DEF ReportInv, QueueInv, PlayInv, Beside

(* The helpers that neither report nor change what plays.                  *)
LEMMA StillHelpers ==
  ASSUME NEW m, ReportFields \subseteq DOMAIN m, NEW x
  PROVE  /\ Still(m, Tui!ClearPreload(m))
         /\ Still(m, Tui!EngineStop(m))
         /\ Still(m, Tui!EngineStarts(m, x))
         /\ Still(m, Tui!Advanced(m))
         /\ Still(m, Tui!PreloadNext(m, x))
         /\ Still(m, Tui!DropStalePreload(m))
         /\ Still(m, Tui!RearmStalePreload(m, x))
         /\ Still(m, Tui!Handled(m))
         /\ Still(m, Tui!ScheduleReconnect(m))
         /\ Still(m, Tui!TickStreamHealth(m))
         /\ Still(m, Tui!TickPreloadRetry(m, x))
<1>1. Still(m, Tui!ClearPreload(m))
  BY DEF Still, Kept, ReportFields, Tui!ClearPreload
<1>2. Still(m, Tui!EngineStop(m))
  BY DEF Still, Kept, ReportFields, Tui!EngineStop, Tui!ClearPreload
<1>3. Still(m, Tui!EngineStarts(m, x))
  BY DEF Still, Kept, ReportFields, Tui!EngineStarts
<1>4. Still(m, Tui!Advanced(m))
  BY DEF Still, Kept, ReportFields, Tui!Advanced
<1>5. ASSUME NEW n, Still(m, n) PROVE Still(m, Tui!PreloadNext(n, x))
  BY <1>5 DEF Still, Kept, ReportFields, Tui!PreloadNext
<1>6. Still(m, m)
  BY DEF Still, Kept
<1>7. Still(m, Tui!DropStalePreload(m))
  BY DEF Still, Kept, ReportFields, Tui!DropStalePreload, Tui!ClearPreload
<1>8. Still(m, Tui!RearmStalePreload(m, x))
  BY <1>5, <1>7 DEF Tui!RearmStalePreload
<1>9. Still(m, Tui!Handled(m))
  <2> DEFINE d == Tui!DropStalePreload(m)
  <2>1. Still(m, d)
    BY <1>7
  <2> HIDE DEF d
  <2>2. Tui!Handled(m) =
          [d EXCEPT !.missed = @ \/ (d.advanced /\ Tui!UpcomingTrack(d) # d.cur)]
    BY DEF Tui!Handled, d
  <2> QED BY <2>1, <2>2 DEF Still, Kept, ReportFields
<1>10. Still(m, Tui!ScheduleReconnect(m))
  BY DEF Still, Kept, ReportFields, Tui!ScheduleReconnect
<1>11. Still(m, Tui!TickStreamHealth(m))
  BY <1>10 DEF Still, Kept, ReportFields, Tui!TickStreamHealth
<1>12. Still(m, Tui!TickPreloadRetry(m, x))
  BY <1>5, <1>6 DEF Tui!TickPreloadRetry
<1> QED BY <1>1, <1>2, <1>3, <1>4, <1>5, <1>6, <1>7, <1>8, <1>9, <1>10, <1>11, <1>12

(* None is no report.                                                      *)
NoneIsNoReport == \A kind, t, of : Tui!Report(kind, t, of) # NoTrack

(* A report that is added waits, and so do those that waited before. *)
LEMMA AddWaits ==
  ASSUME NEW m, {"pending", "running"} \subseteq DOMAIN m, IsSeq(m.pending), NEW r
  PROVE  LET n == Tui!Add(m, r)
         IN  Tui!Waits(n, r) /\ \A x : x.kind # "progress" /\ Tui!Waits(m, x) => Tui!Waits(n, x)
<1> DEFINE p == m.pending
           old == Tui!Waiting(m, r.track)
           k == CHOOSE i \in old : TRUE
           rest == IF r.kind # "progress" \/ old = {} THEN p ELSE Tui!RemoveAt(p, k)
           q == Append(rest, r)
           n == Tui!Add(m, r)
<1>1. n.pending = q
  BY DEF Tui!Add
<1>2. DOMAIN p = 1..Len(p) /\ Len(p) \in Nat
  <2>1. PICK S : p \in Seq(S)
    BY DEF IsSeq
  <2> QED BY <2>1
<1> HIDE DEF n
<1>3. IsSeq(rest) /\ \A x : x.kind # "progress" /\ Tui!Waits(m, x) => \E i \in 1..Len(rest) : rest[i] = x
  <2>1. CASE rest = p
    BY <1>2, <2>1 DEF Tui!Waits
  <2>2. CASE rest # p
    <3>1. k \in old /\ rest = Tui!RemoveAt(p, k)
      BY <2>2
    <3>2. k \in 1..Len(p) /\ p[k].kind = "progress"
      BY <1>2, <3>1 DEF Tui!Waiting
    <3> HIDE DEF k, old, rest
    <3>3. /\ IsSeq(rest) /\ Len(rest) = Len(p) - 1
          /\ \A i \in 1..(Len(p) - 1) : rest[i] = IF i < k THEN p[i] ELSE p[i + 1]
      <4> HIDE DEF p
      <4>1. IsSeq(p)
        BY DEF p
      <4> QED BY <3>1, <3>2, <4>1, RemoveFacts
    <3>4. ASSUME NEW x, x.kind # "progress", NEW i \in 1..Len(p), p[i] = x
          PROVE  \E j \in 1..Len(rest) : rest[j] = x
      <4>1. CASE i < k
        <5>1. i \in 1..Len(rest) /\ i \in 1..(Len(p) - 1)
          BY <1>2, <3>2, <3>3, <4>1
        <5> QED BY <3>3, <3>4, <4>1, <5>1
      <4>2. CASE i > k
        <5> DEFINE j == i - 1
        <5>1. j \in 1..Len(rest) /\ j \in 1..(Len(p) - 1) /\ ~(j < k) /\ j + 1 = i
          BY <1>2, <3>2, <3>3, <4>2
        <5> QED BY <3>3, <3>4, <5>1
      <4> QED BY <1>2, <3>2, <3>4, <4>1, <4>2
    <3> QED BY <1>2, <3>3, <3>4 DEF Tui!Waits
  <2> QED BY <2>1, <2>2
<1> HIDE DEF rest
<1>4. /\ IsSeq(q) /\ Len(rest) \in Nat /\ Len(q) = Len(rest) + 1
      /\ q[Len(rest) + 1] = r /\ \A i \in 1..Len(rest) : q[i] = rest[i]
  BY <1>3, AppendFacts
<1> HIDE DEF q
<1>5. \A i \in 1..Len(q) : i \in DOMAIN q
  <2>1. PICK S : q \in Seq(S)
    BY <1>4 DEF IsSeq
  <2> QED BY <2>1
<1> QED BY <1>1, <1>3, <1>4, <1>5 DEF Tui!Waits, n

(* A report is added to a queue in order. *)
LEMMA AddReports ==
  ASSUME NEW m, QueueInv(m), ~m.quitting, NEW r, r # NoTrack,
         r.kind = "scrobble" => Latest(m.pending, Heard(m), Now(r.track), Len(m.pending) + 1),
         OnAir(m) /\ m.track \in Reported =>
           \/ r = Now(m.track)
           \/ /\ r.kind = "progress"
              /\ Latest(m.pending, Heard(m), Now(m.track), Len(m.pending) + 1)
  PROVE  LET n == Tui!Add(m, r)
         IN  ReportInv(n) /\ Beside(m, n) /\ Kept(PlayingFields, m, n) /\ Tui!Waits(n, r)
<1> DEFINE n == Tui!Add(m, r)
<1>1. {"pending", "running"} \subseteq DOMAIN m /\ IsSeq(m.pending)
  BY DEF QueueInv, ReportFields, InOrderAfter
<1>2. /\ DOMAIN n = DOMAIN m /\ n.running
      /\ \A f \in DOMAIN m \ {"pending", "running"} : n[f] = m[f]
      /\ InOrderAfter(n.pending, Heard(m))
      /\ r.kind # "progress" => Latest(n.pending, Heard(m), r, Len(n.pending) + 1)
      /\ r.kind = "progress" =>
           \A x : x.kind # "progress" /\ Latest(m.pending, Heard(m), x, Len(m.pending) + 1)
                    => Latest(n.pending, Heard(m), x, Len(n.pending) + 1)
  BY <1>1, AddOrder DEF QueueInv
<1>3. Tui!Waits(n, r) /\ \A x : x.kind # "progress" /\ Tui!Waits(m, x) => Tui!Waits(n, x)
  BY <1>1, AddWaits
<1> HIDE DEF n
<1>4. Kept(ReportFields \ {"pending", "running"}, m, n)
  BY <1>2 DEF Kept, QueueInv
<1>5. /\ n.busy = m.busy /\ n.told = m.told /\ n.exit = m.exit /\ n.quitting = m.quitting
      /\ Heard(n) = Heard(m) /\ Kept(PlayingFields, m, n)
      /\ n.track = m.track /\ n.active = m.active /\ n.started = m.started /\ n.left = m.left
  BY <1>4 DEF Kept, ReportFields, PlayingFields, Heard
<1>6. QueueInv(n)
  BY <1>2, <1>5 DEF QueueInv
<1>7. PlayInv(n)
  BY <1>2, <1>5, NowIsNoProgress DEF PlayInv, OnAir
<1> QED BY <1>3, <1>5, <1>6, <1>7 DEF ReportInv, Beside, n

(* What scrobbles the play of a track, and a play that is to be scrobbled. *)
Scrobble(t) == Tui!Report("scrobble", t, t)
Finite(m) == OnAir(m) /\ m.track \in Reported /\ ~Tui!Endless(m.track)

LEMMA ScrobbleIsNoProgress ==
  ASSUME NEW t
  PROVE  Scrobble(t).kind # "progress"
BY DEF Scrobble, Tui!Report

(* leaveTrack: the play is over, and scrobbled once. *)
LEMMA LeaveReports ==
  ASSUME NoneIsNoReport, NEW m, ReportInv(m), ~m.quitting, NEW half
  PROVE  LET n == Tui!LeaveTrack(m, half)
         IN  /\ ReportInv(n) /\ Beside(m, n) /\ ~OnAir(n)
             /\ half /\ Finite(m) => Tui!Waits(n, Scrobble(m.track))
<1> DEFINE n == Tui!LeaveTrack(m, half)
           gone == [m EXCEPT !.left = TRUE]
           r == Tui!Report("scrobble", m.track, m.track)
<1>1. CASE ~m.active \/ ~m.started \/ m.left
  BY <1>1 DEF Tui!LeaveTrack, OnAir, Finite, Beside
<1>2. CASE ~(~m.active \/ ~m.started \/ m.left)
  <2>1. /\ DOMAIN gone = DOMAIN m /\ Kept(ReportFields \ PlayingFields, m, gone) /\ ~OnAir(gone)
        /\ gone.track = m.track
    BY DEF ReportInv, QueueInv, Kept, ReportFields, PlayingFields, OnAir
  <2> HIDE DEF gone
  <2>2. ReportInv(gone) /\ Beside(m, gone) /\ gone.pending = m.pending /\ Heard(gone) = Heard(m)
    BY <2>1, OverReports, KeptReports
  <2>3. CASE half /\ ~Tui!Endless(m.track) /\ m.track \in Reported
    <3>1. n = Tui!Add(gone, r)
      BY <1>2, <2>3 DEF Tui!LeaveTrack, gone
    <3>2. r # NoTrack /\ r.kind = "scrobble" /\ r.track = m.track
      BY DEF NoneIsNoReport, Tui!Report
    <3> HIDE DEF r, n
    <3>3. Latest(m.pending, Heard(m), Now(m.track), Len(m.pending) + 1)
      BY <1>2, <2>3 DEF ReportInv, PlayInv, OnAir
    <3>4. ReportInv(n) /\ Beside(gone, n) /\ Kept(PlayingFields, gone, n) /\ Tui!Waits(n, r)
      BY <2>1, <2>2, <3>1, <3>2, <3>3, AddReports DEF ReportInv, Beside
    <3>5. Tui!Waits(n, Scrobble(m.track))
      BY <3>4 DEF Scrobble, r
    <3>6. ~OnAir(n)
      BY <2>1, <3>4 DEF Kept, PlayingFields, OnAir, Beside
    <3>7. Beside(m, n)
      BY <2>2, <3>4 DEF Beside
    <3> QED BY <3>4, <3>5, <3>6, <3>7 DEF n
  <2>4. CASE ~(half /\ ~Tui!Endless(m.track) /\ m.track \in Reported)
    <3>1. n = gone
      BY <1>2, <2>4 DEF Tui!LeaveTrack, gone
    <3> QED BY <2>1, <2>2, <2>4, <3>1 DEF Finite
  <2> QED BY <2>3, <2>4
<1> QED BY <1>1, <1>2

(* nowPlaying: the track that the TUI is on begins. *)
LEMMA NowReports ==
  ASSUME NoneIsNoReport, NEW m, ReportInv(m), ~m.quitting
  PROVE  LET n == Tui!NowPlaying(m, m.track) IN ReportInv(n) /\ Beside(m, n)
<1> DEFINE t == m.track
           d == [m EXCEPT !.started = TRUE]
           r == Tui!Report("now", t, t)
           n == Tui!NowPlaying(m, m.track)
<1>1. DOMAIN d = DOMAIN m /\ Kept(ReportFields \ PlayingFields, m, d) /\ d.track = t
  BY DEF ReportInv, QueueInv, Kept, ReportFields, PlayingFields
<1>2. n = IF t \in Reported THEN Tui!Add(d, r) ELSE d
  BY DEF Tui!NowPlaying
<1> HIDE DEF d, n
<1>3. QueueInv(d) /\ Beside(m, d)
  BY <1>1, KeptReports DEF ReportInv, QueueInv, Beside
<1>4. CASE t \in Reported
  <2>1. r # NoTrack /\ r.kind = "now" /\ r = Now(t)
    BY DEF NoneIsNoReport, Tui!Report, Now
  <2> HIDE DEF r
  <2>2. ReportInv(Tui!Add(d, r)) /\ Beside(d, Tui!Add(d, r))
    BY <1>1, <1>3, <2>1, AddReports DEF Beside
  <2> QED BY <1>2, <1>3, <1>4, <2>2 DEF Beside, n
<1>5. CASE t \notin Reported
  BY <1>1, <1>2, <1>3, <1>5 DEF ReportInv, PlayInv, n
<1> QED BY <1>4, <1>5

(* tickProgressReport. *)
LEMMA ProgressReports ==
  ASSUME NoneIsNoReport, NEW m, ReportInv(m), ~m.quitting, NEW due
  PROVE  LET n == Tui!TickProgressReport(m, due) IN ReportInv(n) /\ Beside(m, n)
<1> DEFINE t == Tui!CurrentPlaybackTrack(m)
           r == Tui!Report("progress", t, m.cur)
           n == Tui!TickProgressReport(m, due)
<1>1. n = IF due /\ m.playing /\ ~m.paused /\ t \in Positions THEN Tui!Add(m, r) ELSE m
  BY DEF Tui!TickProgressReport
<1>2. r # NoTrack /\ r.kind = "progress"
  BY DEF NoneIsNoReport, Tui!Report
<1> HIDE DEF r, n
<1>3. ReportInv(Tui!Add(m, r)) /\ Beside(m, Tui!Add(m, r))
  BY <1>2, AddReports DEF ReportInv, PlayInv
<1> QED BY <1>1, <1>3 DEF Beside, n

(* Between two messages of Update that may report. *)
Reporting(m) == ReportInv(m) /\ ~m.quitting

(* A state that is the same to the reports. *)
LEMMA StillReporting ==
  ASSUME NEW m, NEW n, Reporting(m), Still(m, n)
  PROVE  Reporting(n) /\ Beside(m, n)
BY StillReports DEF Reporting, Beside

(* The helpers that leave reports alone, in a row of helpers. *)
LEMMA StillStep ==
  ASSUME NEW m, Reporting(m), NEW x
  PROVE  /\ Reporting(Tui!ClearPreload(m)) /\ Beside(m, Tui!ClearPreload(m))
         /\ Reporting(Tui!EngineStop(m)) /\ Beside(m, Tui!EngineStop(m))
         /\ Reporting(Tui!Advanced(m)) /\ Beside(m, Tui!Advanced(m))
         /\ Reporting(Tui!PreloadNext(m, x)) /\ Beside(m, Tui!PreloadNext(m, x))
         /\ Reporting(Tui!RearmStalePreload(m, x)) /\ Beside(m, Tui!RearmStalePreload(m, x))
         /\ Reporting(Tui!Handled(m)) /\ Beside(m, Tui!Handled(m))
         /\ Reporting(Tui!ScheduleReconnect(m)) /\ Beside(m, Tui!ScheduleReconnect(m))
         /\ Reporting(Tui!TickStreamHealth(m)) /\ Beside(m, Tui!TickStreamHealth(m))
         /\ Reporting(Tui!TickPreloadRetry(m, x)) /\ Beside(m, Tui!TickPreloadRetry(m, x))
<1>1. ReportFields \subseteq DOMAIN m
  BY DEF Reporting, ReportInv, QueueInv
<1> QED BY <1>1, StillHelpers, StillReporting

(* The fields that no report depends on. *)
LEMMA OtherFieldsStill ==
  ASSUME NEW m, Reporting(m), NEW x
  PROVE  /\ Still(m, [m EXCEPT !.calls = x])
         /\ Still(m, [m EXCEPT !.breaks = x])
         /\ Still(m, [m EXCEPT !.paused = x])
         /\ Still(m, [m EXCEPT !.rows = x])
         /\ Still(m, [m EXCEPT !.idx = x])
         /\ Still(m, [m EXCEPT !.detached = x])
         /\ Still(m, [m EXCEPT !.starts = x])
         /\ Still(m, [m EXCEPT !.preloads = x])
         /\ Still(m, [m EXCEPT !.preloading = x])
         /\ Still(m, [m EXCEPT !.attempts = x])
         /\ Still(m, [m EXCEPT !.due = x])
         /\ Still(m, [m EXCEPT !.liveDrain = x])
         /\ Still(m, [m EXCEPT !.refusedSkips = x])
         /\ Still(m, [m EXCEPT !.advanced = x])
BY DEF Still, Kept, ReportFields, Reporting, ReportInv, QueueInv

(* stopPlayback. *)
LEMMA StopReports ==
  ASSUME NoneIsNoReport, NEW m, Reporting(m), NEW half
  PROVE  LET n == Tui!StopPlayback(m, half) IN Reporting(n) /\ Beside(m, n)
<1> DEFINE l == Tui!LeaveTrack(m, half)
           e == Tui!EngineStop(l)
           k == [e EXCEPT !.starts = Tui!Outdated(@), !.buffering = FALSE,
                          !.due = FALSE, !.attempts = 0, !.liveDrain = FALSE, !.refusedSkips = 0]
           n == Tui!StopPlayback(m, half)
<1>1. Reporting(l) /\ Beside(m, l)
  BY LeaveReports DEF Reporting, Beside
<1> HIDE DEF l
<1>2. Reporting(e) /\ Beside(l, e)
  BY <1>1, StillStep
<1> HIDE DEF e
<1>3. Still(e, k)
  BY <1>2 DEF Still, Kept, ReportFields, Reporting, ReportInv, QueueInv
<1>4. n = Tui!ClearPlaybackTrack(k)
  BY DEF Tui!StopPlayback, k, e, l
<1> HIDE DEF k, n
<1>5. Reporting(k) /\ Beside(e, k)
  BY <1>2, <1>3, StillReporting
<1>6. DOMAIN n = DOMAIN k /\ Kept(ReportFields \ PlayingFields, k, n) /\ ~OnAir(n)
  BY <1>4, <1>5 DEF Tui!ClearPlaybackTrack, Kept, ReportFields, PlayingFields, OnAir, Reporting,
     ReportInv, QueueInv
<1>7. ReportInv(n) /\ Beside(k, n)
  BY <1>5, <1>6, OverReports DEF Reporting
<1> QED BY <1>1, <1>2, <1>5, <1>7 DEF Reporting, Beside, n

(* beginPlaybackTrack: the track is not announced yet. *)
LEMMA BeginReports ==
  ASSUME NEW m, Reporting(m), NEW t
  PROVE  LET n == Tui!BeginPlaybackTrack(m, t)
         IN  Reporting(n) /\ Beside(m, n) /\ n.track = t
<1> DEFINE d == Tui!ClearPreload(m)
           k == [d EXCEPT !.starts = Tui!Outdated(@), !.preloads = Tui!Outdated(@),
                          !.preloading = FALSE, !.preloadFailed = NoTrack, !.attempts = 0,
                          !.due = FALSE, !.liveDrain = FALSE]
           n == Tui!BeginPlaybackTrack(m, t)
<1>1. Reporting(d) /\ Beside(m, d)
  BY StillStep
<1> HIDE DEF d
<1>2. Still(d, k)
  BY <1>1 DEF Still, Kept, ReportFields, Reporting, ReportInv, QueueInv
<1>3. n = Tui!SetPlaybackTrack(k, t)
  BY DEF Tui!BeginPlaybackTrack, k, d
<1> HIDE DEF k, n
<1>4. Reporting(k) /\ Beside(d, k)
  BY <1>1, <1>2, StillReporting
<1>5. /\ DOMAIN n = DOMAIN k /\ Kept(ReportFields \ PlayingFields, k, n) /\ ~OnAir(n)
      /\ n.track = t
  BY <1>3, <1>4 DEF Tui!SetPlaybackTrack, Kept, ReportFields, PlayingFields, OnAir, Reporting,
     ReportInv, QueueInv
<1>6. ReportInv(n) /\ Beside(k, n)
  BY <1>4, <1>5, OverReports DEF Reporting
<1> QED BY <1>1, <1>4, <1>5, <1>6 DEF Reporting, Beside, n

(* playTrack: the track before is left, and one that plays at once is      *)
(* reported.                                                               *)
LEMMA PlayTrackReports ==
  ASSUME NoneIsNoReport, NEW m, Reporting(m), NEW t, NEW c
  PROVE  LET n == Tui!PlayTrack(m, t, c) IN Reporting(n) /\ Beside(m, n)
<1> DEFINE l == Tui!LeaveTrack(m, c.half)
           b == Tui!BeginPlaybackTrack(l, t)
           n == Tui!PlayTrack(m, t, c)
<1>1. Reporting(l) /\ Beside(m, l)
  BY LeaveReports DEF Reporting, Beside
<1> HIDE DEF l
<1>2. Reporting(b) /\ Beside(l, b) /\ b.track = t
  BY <1>1, BeginReports
<1> HIDE DEF b
<1>3. CASE Kind[t] # "direct"
  <2> DEFINE new == [track |-> t, current |-> TRUE, at |-> "opening"]
             k == [b EXCEPT !.buffering = TRUE, !.starts = @ \cup {new}]
  <2>1. n = k
    BY <1>3 DEF Tui!PlayTrack, b, l
  <2>2. Still(b, k)
    BY <1>2 DEF Still, Kept, ReportFields, Reporting, ReportInv, QueueInv
  <2> HIDE DEF k, n
  <2>3. Reporting(k) /\ Beside(b, k)
    BY <1>2, <2>2, StillReporting
  <2> QED BY <1>1, <1>2, <2>1, <2>3 DEF Beside, n
<1>4. CASE Kind[t] = "direct"
  <2> DEFINE e == Tui!EngineStarts(b, t)
             p == Tui!NowPlaying(e, t)
             k == IF c.opens THEN p ELSE b
  <2>1. n = Tui!PreloadNext(k, c.near)
    BY <1>4 DEF Tui!PlayTrack, b, l
  <2>2. Still(b, e)
    BY <1>2, StillHelpers DEF Reporting, ReportInv, QueueInv
  <2> HIDE DEF e, n
  <2>3. Reporting(e) /\ Beside(b, e) /\ e.track = t
    BY <1>2, <2>2, StillReporting, KeptReports DEF Still
  <2>4. Reporting(p) /\ Beside(e, p)
    BY <2>3, NowReports DEF Reporting, Beside
  <2> HIDE DEF p
  <2>5. Reporting(k) /\ Beside(m, k)
    BY <1>1, <1>2, <2>3, <2>4 DEF Beside
  <2> HIDE DEF k
  <2>6. Reporting(n) /\ Beside(k, n)
    BY <2>1, <2>5, StillStep
  <2> QED BY <2>5, <2>6 DEF Beside, n
<1> QED BY <1>3, <1>4

(* nextTrack and the end of the queue. *)
LEMMA NextTrackReports ==
  ASSUME NoneIsNoReport, NEW m, Reporting(m), NEW c
  PROVE  LET n == Tui!NextTrack(m, c) IN Reporting(n) /\ Beside(m, n)
<1> DEFINE n == Tui!NextTrack(m, c)
<1>1. CASE Tui!UpcomingTrack(m) = NoTrack
  <2> DEFINE d == [m EXCEPT !.detached = FALSE]
  <2>1. n = Tui!StopPlayback(d, c.half)
    BY <1>1 DEF Tui!NextTrack, Tui!EndQueue
  <2>2. Reporting(d) /\ Beside(m, d)
    BY OtherFieldsStill, StillReporting
  <2> HIDE DEF d, n
  <2>3. Reporting(n) /\ Beside(d, n)
    BY <2>1, <2>2, StopReports
  <2> QED BY <2>2, <2>3 DEF Beside, n
<1>2. CASE Tui!UpcomingTrack(m) # NoTrack
  <2> DEFINE d == Tui!Advanced(m)
  <2>1. n = Tui!PlayTrack(d, Tui!UpcomingTrack(m), c)
    BY <1>2 DEF Tui!NextTrack
  <2>2. Reporting(d) /\ Beside(m, d)
    BY StillStep
  <2> HIDE DEF d, n
  <2>3. Reporting(n) /\ Beside(d, n)
    BY <2>1, <2>2, PlayTrackReports
  <2> QED BY <2>2, <2>3 DEF Beside, n
<1> QED BY <1>1, <1>2

(* playCurrentTrack. *)
LEMMA PlayCurrentReports ==
  ASSUME NoneIsNoReport, NEW m, Reporting(m), NEW c
  PROVE  LET n == Tui!PlayCurrentTrack(m, c) IN Reporting(n) /\ Beside(m, n)
BY PlayTrackReports, StopReports DEF Tui!PlayCurrentTrack, Beside

(* The messages of the user: Enter, next, stop, pause and adding a track.  *)
LEMMA CommandsReport ==
  ASSUME NoneIsNoReport, ReportInv(model),
         \/ \E i \in DOMAIN model.rows : Tui!PlayIndex(i)
         \/ Tui!SkipNext \/ Tui!StopByUser \/ Tui!TogglePlayPause
         \/ \E t \in Tracks : Tui!AppendTrack(t)
  PROVE  ReportInv(model') /\ Beside(model, model')
<1> DEFINE m == [model EXCEPT !.calls = @ + 1]
           P(n) == Reporting(n) /\ Beside(m, n)
<1>1. Reporting(m) /\ Beside(model, m)
  <2>1. Reporting(model)
    BY DEF Tui!PlayIndex, Tui!SkipNext, Tui!StopByUser, Tui!TogglePlayPause, Tui!AppendTrack,
       Tui!Command, Reporting
  <2> QED BY <2>1, OtherFieldsStill, StillReporting
<1>2. SUFFICES ASSUME ~(\E n : P(n) /\ model' = Tui!Handled(n)) PROVE FALSE
  <2>1. ASSUME NEW n, P(n), model' = Tui!Handled(n)
        PROVE  ReportInv(model') /\ Beside(model, model')
    <3>1. Reporting(model') /\ Beside(n, model')
      BY <2>1, StillStep
    <3> QED BY <1>1, <2>1, <3>1 DEF Reporting, Beside
  <2> QED BY <2>1
<1>3. ASSUME NEW i, Tui!PlayIndex(i) PROVE FALSE
  <2> DEFINE n == [m EXCEPT !.idx = i]
  <2>1. \E c : model' = Tui!Handled(Tui!PlayCurrentTrack(n, c))
    BY <1>3 DEF Tui!PlayIndex, Tui!Command
  <2> HIDE DEF m
  <2>2. Reporting(n) /\ Beside(m, n)
    BY <1>1, OtherFieldsStill, StillReporting
  <2> HIDE DEF n
  <2>3. \A c : P(Tui!PlayCurrentTrack(n, c))
    BY <2>2, PlayCurrentReports DEF Beside
  <2> QED BY <1>2, <2>1, <2>3
<1>4. CASE Tui!SkipNext \/ Tui!StopByUser
  <2>1. \E c : \/ model' = Tui!Handled(Tui!NextTrack(m, c))
               \/ model' = Tui!Handled(Tui!StopPlayback(m, c.half))
    BY <1>4 DEF Tui!SkipNext, Tui!StopByUser, Tui!Command
  <2> HIDE DEF m
  <2>2. \A c : P(Tui!NextTrack(m, c)) /\ P(Tui!StopPlayback(m, c.half))
    BY <1>1, NextTrackReports, StopReports
  <2> QED BY <1>2, <2>1, <2>2
<1>5. CASE Tui!TogglePlayPause
  <2> DEFINE t == Tui!CurrentPlaybackTrack(m)
             e == Tui!EngineStop(m)
             z == [m EXCEPT !.paused = ~@]
  <2>1. \E c : model' = Tui!Handled(
          IF ~m.playing THEN Tui!PlayCurrentTrack(m, c)
          ELSE IF m.paused /\ t # NoTrack /\ Tui!PlaysLive(m, t) THEN Tui!PlayTrack(e, t, c) ELSE z)
    BY <1>5 DEF Tui!TogglePlayPause, Tui!Command
  <2> HIDE DEF m, t
  <2>2. P(z)
    BY <1>1, OtherFieldsStill, StillReporting
  <2>3. Reporting(e) /\ Beside(m, e)
    BY <1>1, StillStep
  <2> HIDE DEF e, z
  <2>4. \A c : P(Tui!PlayTrack(e, t, c)) /\ P(Tui!PlayCurrentTrack(m, c))
    BY <1>1, <2>3, PlayTrackReports, PlayCurrentReports DEF Beside
  <2> HIDE DEF P
  <2> QED BY <1>2, <2>1, <2>2, <2>4
<1>6. ASSUME NEW t, Tui!AppendTrack(t) PROVE FALSE
  <2> DEFINE added == [m EXCEPT !.rows = Append(@, t)]
             there == [added EXCEPT !.idx = Len(added.rows)]
  <2>1. \E c : model' = Tui!Handled(
          IF m.rows = <<>> \/ ~m.playing THEN Tui!PlayCurrentTrack(there, c) ELSE added)
    BY <1>6 DEF Tui!AppendTrack, Tui!Command
  <2> HIDE DEF m
  <2>2. P(added)
    BY <1>1, OtherFieldsStill, StillReporting
  <2> HIDE DEF added
  <2>3. P(there)
    <3>1. Still(added, there)
      BY <2>2, OtherFieldsStill
    <3> HIDE DEF there
    <3>2. Reporting(there) /\ Beside(added, there)
      BY <2>2, <3>1, StillReporting
    <3> QED BY <2>2, <3>2 DEF Beside
  <2> HIDE DEF there
  <2>4. \A c : P(Tui!PlayCurrentTrack(there, c))
    BY <2>3, PlayCurrentReports DEF Beside
  <2> HIDE DEF P
  <2> QED BY <1>2, <2>1, <2>2, <2>4
<1> QED BY <1>3, <1>4, <1>5, <1>6

(* Removing and moving a row, and another list. *)
LEMMA EditsReport ==
  ASSUME NoneIsNoReport, ReportInv(model), AnnouncedInv(model),
         \/ \E i \in DOMAIN model.rows : Tui!RemoveSelected(i)
         \/ \E i, j \in DOMAIN model.rows : Tui!MoveTrack(i, j)
         \/ \E rows \in Lists : Tui!ReplacePlayerPlaylist(rows)
  PROVE  ReportInv(model') /\ Beside(model, model')
<1> DEFINE m == [model EXCEPT !.calls = @ + 1]
           P(n) == Reporting(n) /\ Beside(m, n)
<1>1. Reporting(model) /\ Reporting(m) /\ Beside(model, m)
  <2>1. Reporting(model)
    BY DEF Tui!RemoveSelected, Tui!MoveTrack, Tui!ReplacePlayerPlaylist, Tui!Command, Reporting
  <2> QED BY <2>1, OtherFieldsStill, StillReporting
<1>2. SUFFICES ASSUME ~(\E n : P(n) /\ model' = Tui!Handled(n)) PROVE FALSE
  <2>1. ASSUME NEW n, P(n), model' = Tui!Handled(n)
        PROVE  ReportInv(model') /\ Beside(model, model')
    <3>1. Reporting(model') /\ Beside(n, model')
      BY <2>1, StillStep
    <3> QED BY <1>1, <2>1, <3>1 DEF Reporting, Beside
  <2> QED BY <2>1
<1>3. ASSUME NEW i, Tui!RemoveSelected(i) PROVE FALSE
  <2> DEFINE rest == Tui!RemoveAt(m.rows, i)
             pos == IF i < m.idx THEN m.idx - 1 ELSE m.idx
             p == IF pos > Len(rest) /\ rest # <<>> THEN Len(rest) ELSE pos
             gone == [m EXCEPT !.rows = rest, !.idx = p]
  <2>1. \E c : model' = Tui!Handled(
          IF i = m.idx THEN Tui!ClearPreload(Tui!StopPlayback(gone, c.half)) ELSE gone)
    BY <1>3 DEF Tui!RemoveSelected, Tui!Command
  <2> HIDE DEF m
  <2>2. Still(m, gone)
    BY <1>1 DEF Still, Kept, ReportFields, Reporting, ReportInv, QueueInv
  <2> HIDE DEF gone
  <2>3. P(gone)
    BY <1>1, <2>2, StillReporting
  <2>4. ASSUME NEW c PROVE P(Tui!ClearPreload(Tui!StopPlayback(gone, c.half)))
    <3> DEFINE q == Tui!StopPlayback(gone, c.half)
    <3>1. Reporting(q) /\ Beside(gone, q)
      BY <2>3, StopReports
    <3> HIDE DEF q
    <3>2. Reporting(Tui!ClearPreload(q)) /\ Beside(q, Tui!ClearPreload(q))
      BY <3>1, StillStep
    <3> QED BY <2>3, <3>1, <3>2 DEF Beside, q
  <2> HIDE DEF P
  <2> QED BY <1>2, <2>1, <2>3, <2>4
<1>4. ASSUME NEW i, NEW j, Tui!MoveTrack(i, j) PROVE FALSE
  <2> DEFINE n == [m EXCEPT !.rows = [@ EXCEPT ![i] = m.rows[j], ![j] = m.rows[i]],
                            !.idx = IF @ = i THEN j ELSE IF @ = j THEN i ELSE @]
  <2>1. \E c : model' = Tui!Handled(Tui!RearmStalePreload(n, c.near))
    BY <1>4 DEF Tui!MoveTrack, Tui!Command
  <2> HIDE DEF m
  <2>2. Still(m, n)
    BY <1>1 DEF Still, Kept, ReportFields, Reporting, ReportInv, QueueInv
  <2> HIDE DEF n
  <2>3. P(n)
    BY <1>1, <2>2, StillReporting
  <2>4. \A near : P(Tui!RearmStalePreload(n, near))
    BY <2>3, StillStep DEF Beside
  <2> QED BY <1>2, <2>1, <2>4
<1>5. ASSUME NEW rows, Tui!ReplacePlayerPlaylist(rows) PROVE FALSE
  <2> DEFINE d == Tui!DetachPlaybackTrack(m)
             p == Tui!ClearPreload(d)
             e == Tui!EngineStop(m)
             q == Tui!ClearPlaybackTrack(e)
             n1 == [[p EXCEPT !.preloading = FALSE] EXCEPT !.rows = rows, !.idx = 1]
             n2 == [q EXCEPT !.rows = rows, !.idx = 1]
  <2>1. model' = Tui!Handled(IF m.playing \/ m.buffering THEN n1 ELSE n2)
    BY <1>5 DEF Tui!ReplacePlayerPlaylist, Tui!Command
  <2>2. m.active = model.active /\ m.started = model.started
    BY <1>1 DEF Reporting, ReportInv, QueueInv, ReportFields
  <2> HIDE DEF m
  <2>3. ASSUME m.playing \/ m.buffering PROVE P(n1)
    <3>1. P(d)
      <4>1. CASE m.active
        <5>1. Tui!CurrentPlaybackTrack(m) = m.track
          BY <2>3, <4>1 DEF Tui!CurrentPlaybackTrack
        <5>2. Still(m, d)
          BY <1>1, <4>1, <5>1 DEF Tui!DetachPlaybackTrack, Still, Kept, ReportFields, Reporting,
             ReportInv, QueueInv
        <5> QED BY <1>1, <5>2, StillReporting
      <4>2. CASE ~m.active
        <5>1. /\ DOMAIN d = DOMAIN m /\ Kept(ReportFields \ PlayingFields, m, d)
              /\ d.started = m.started
          BY <1>1 DEF Tui!DetachPlaybackTrack, Kept, ReportFields, PlayingFields, Reporting,
             ReportInv, QueueInv
        <5>2. ~OnAir(d)
          BY <2>2, <4>2, <5>1 DEF AnnouncedInv, OnAir
        <5> QED BY <1>1, <5>1, <5>2, OverReports DEF Reporting, Beside
      <4> QED BY <4>1, <4>2
    <3> HIDE DEF d
    <3>2. Reporting(p) /\ Beside(d, p)
      BY <3>1, StillStep
    <3> HIDE DEF p
    <3>3. Still(p, n1)
      BY <3>2 DEF Still, Kept, ReportFields, Reporting, ReportInv, QueueInv
    <3> HIDE DEF n1
    <3>4. Reporting(n1) /\ Beside(p, n1)
      BY <3>2, <3>3, StillReporting
    <3> QED BY <3>1, <3>2, <3>4 DEF Beside
  <2>4. P(n2)
    <3>1. Reporting(e) /\ Beside(m, e)
      BY <1>1, StillStep
    <3> HIDE DEF e
    <3>2. DOMAIN n2 = DOMAIN e /\ Kept(ReportFields \ PlayingFields, e, n2) /\ ~OnAir(n2)
      BY <3>1 DEF Tui!ClearPlaybackTrack, Kept, ReportFields, PlayingFields, OnAir, Reporting,
         ReportInv, QueueInv
    <3> HIDE DEF n2
    <3>3. ReportInv(n2) /\ Beside(e, n2)
      BY <3>1, <3>2, OverReports DEF Reporting
    <3> QED BY <3>1, <3>3 DEF Reporting, Beside
  <2> HIDE DEF P, n1, n2
  <2> QED BY <1>2, <2>1, <2>3, <2>4
<1> QED BY <1>3, <1>4, <1>5

(* shutdown. *)
LEMMA QuitReports ==
  ASSUME NoneIsNoReport, ReportInv(model), Tui!Quit
  PROVE  ReportInv(model') /\ Keeps
<1>1. PICK half : model' = [Tui!ClearPlaybackTrack(Tui!EngineStop(Tui!LeaveTrack(model, half)))
                              EXCEPT !.quitting = TRUE]
  BY DEF Tui!Quit
<1> DEFINE l == Tui!LeaveTrack(model, half)
           e == Tui!EngineStop(l)
           n == Tui!ClearPlaybackTrack(e)
<1>2. Reporting(l) /\ Beside(model, l)
  BY LeaveReports DEF Reporting, Beside, Tui!Quit
<1> HIDE DEF l
<1>3. Reporting(e) /\ Beside(l, e)
  BY <1>2, StillStep
<1>4. model' = [n EXCEPT !.quitting = TRUE]
  BY <1>1 DEF l
<1> HIDE DEF e
<1>5. DOMAIN n = DOMAIN e /\ Kept(ReportFields \ PlayingFields, e, n) /\ ~OnAir(n)
  BY <1>3 DEF Tui!ClearPlaybackTrack, Kept, ReportFields, PlayingFields, OnAir, Reporting,
     ReportInv, QueueInv
<1> HIDE DEF n
<1>6. ReportInv(n) /\ Beside(e, n)
  BY <1>3, <1>5, OverReports DEF Reporting
<1>7. /\ DOMAIN model' = DOMAIN n /\ (model').pending = n.pending /\ (model').running = n.running
      /\ (model').busy = n.busy /\ (model').told = n.told /\ (model').exit = n.exit
      /\ (model').quitting
  BY <1>4, <1>6 DEF ReportInv, QueueInv, ReportFields
<1>8. Heard(model') = Heard(n)
  BY <1>7 DEF Heard
<1>9. ReportInv(model')
  BY <1>6, <1>7, <1>8 DEF ReportInv, QueueInv, PlayInv, OnAir
<1>10. Keeps
  <2>1. \A r : Tui!Waits(n, r) => Tui!Waits(model', r)
    BY <1>7 DEF Tui!Waits
  <2>2. (model').busy = model.busy
    BY <1>2, <1>3, <1>6, <1>7 DEF Beside
  <2> QED BY <1>2, <1>3, <1>6, <2>1, <2>2 DEF Beside, Keeps
<1> QED BY <1>9, <1>10

(* The tick.                                                               *)

(* tickReconnect: the track is left and played again. *)
LEMMA RestartReports ==
  ASSUME NoneIsNoReport, NEW m, Reporting(m), NEW t, NEW c
  PROVE  LET n == Tui!Restart(m, t, c) IN Reporting(n) /\ Beside(m, n)
<1> DEFINE d == [m EXCEPT !.due = FALSE]
           e == Tui!EngineStop(d)
           p == Tui!PlayTrack(e, t, c)
           q == [p EXCEPT !.liveDrain = TRUE, !.attempts = m.attempts]
<1>1. Tui!Restart(m, t, c) \in {p, q}
  BY DEF Tui!Restart
<1>2. Reporting(d) /\ Beside(m, d)
  BY OtherFieldsStill, StillReporting
<1> HIDE DEF d
<1>3. Reporting(e) /\ Beside(d, e)
  BY <1>2, StillStep
<1> HIDE DEF e
<1>4. Reporting(p) /\ Beside(e, p)
  BY <1>3, PlayTrackReports
<1> HIDE DEF p
<1>5. Still(p, q)
  BY <1>4 DEF Still, Kept, ReportFields, Reporting, ReportInv, QueueInv
<1> HIDE DEF q
<1>6. Reporting(q) /\ Beside(p, q)
  BY <1>4, <1>5, StillReporting
<1> QED BY <1>1, <1>2, <1>3, <1>4, <1>6 DEF Beside

(* The track has come to an end after which no reconnect follows. *)
Finishes(m) ==
  /\ m.playing /\ ~m.paused /\ m.drained /\ ~m.buffering /\ ~m.due
  /\ ~Tui!PlaysLive(m, Tui!CurrentPlaybackTrack(m))

(* tickDrain: the track that drained is left. *)
LEMMA DrainReports ==
  ASSUME NoneIsNoReport, NEW m, Reporting(m), NEW c
  PROVE  LET n == Tui!TickDrain(m, c)
         IN  /\ Reporting(n) /\ Beside(m, n)
             /\ Finite(m) /\ Finishes(m) => Tui!Waits(n, Scrobble(m.track))
<1> DEFINE t == Tui!CurrentPlaybackTrack(m)
           l == Tui!LeaveTrack(m, TRUE)
           e == Tui!EngineStop(l)
           r == Tui!ScheduleReconnect(m)
           k == [r EXCEPT !.liveDrain = Tui!Ytdl(t)]
           n == Tui!TickDrain(m, c)
<1>1. /\ n \in {m, Tui!NextTrack(e, c), k}
      /\ Finishes(m) => n = Tui!NextTrack(e, c)
  BY DEF Tui!TickDrain, Finishes
<1>2. Reporting(l) /\ Beside(m, l) /\ (Finite(m) => Tui!Waits(l, Scrobble(m.track)))
  BY LeaveReports DEF Reporting, Beside
<1> HIDE DEF l
<1>3. Reporting(e) /\ Beside(l, e)
  BY <1>2, StillStep
<1> HIDE DEF e, t
<1>4. Reporting(r) /\ Beside(m, r)
  BY StillStep
<1> HIDE DEF r
<1>5. Reporting(k) /\ Beside(r, k)
  BY <1>4, OtherFieldsStill, StillReporting
<1> HIDE DEF k, n
<1>6. Reporting(Tui!NextTrack(e, c)) /\ Beside(e, Tui!NextTrack(e, c))
  BY <1>3, NextTrackReports
<1>7. Finite(m) => Tui!Waits(Tui!NextTrack(e, c), Scrobble(m.track))
  BY <1>2, <1>3, <1>6, ScrobbleIsNoProgress DEF Beside
<1> QED BY <1>1, <1>2, <1>3, <1>4, <1>5, <1>6, <1>7 DEF Beside, n

(* tickGapless: the track before is left, the one that plays is reported. *)
LEMMA GaplessReports ==
  ASSUME NoneIsNoReport, NEW m, Reporting(m), NEW c
  PROVE  LET n == Tui!TickGapless(m, c)
         IN  /\ Reporting(n) /\ Beside(m, n)
             /\ Finite(m) => Tui!Waits(n, Scrobble(m.track))
<1> DEFINE f == [m EXCEPT !.advanced = FALSE]
           l == Tui!LeaveTrack(f, TRUE)
           t == Tui!UpcomingTrack(l)
           a == Tui!Advanced(l)
           b == Tui!BeginPlaybackTrack(a, t)
           p == [b EXCEPT !.preloading = FALSE]
           w == Tui!NowPlaying(p, t)
           z == [l EXCEPT !.detached = FALSE]
           n == Tui!TickGapless(m, c)
<1>1. n = IF t = NoTrack THEN Tui!StopPlayback(z, FALSE) ELSE Tui!PreloadNext(w, c.near)
  BY DEF Tui!TickGapless, Tui!EndQueue
<1> HIDE DEF n
<1>2. /\ Reporting(f) /\ Beside(m, f) /\ f.track = m.track
      /\ Finite(m) => Finite(f)
  <2>1. Still(m, f)
    BY OtherFieldsStill
  <2> HIDE DEF f
  <2> QED BY <2>1, StillReporting, KeptReports DEF Still, Finite, OnAir, Reporting
<1> HIDE DEF f
<1>3. /\ Reporting(l) /\ Beside(f, l)
      /\ Finite(m) => Tui!Waits(l, Scrobble(m.track))
  BY <1>2, LeaveReports DEF Reporting, Beside
<1> HIDE DEF l
<1>4. Reporting(z) /\ Beside(l, z)
  BY <1>3, OtherFieldsStill, StillReporting
<1>5. Reporting(a) /\ Beside(l, a)
  BY <1>3, StillStep
<1> HIDE DEF z, a, t
<1>6. Reporting(b) /\ Beside(a, b) /\ b.track = t
  BY <1>5, BeginReports
<1> HIDE DEF b
<1>7. Still(b, p)
  BY <1>6, OtherFieldsStill
<1> HIDE DEF p
<1>8. Reporting(p) /\ Beside(b, p) /\ p.track = t
  BY <1>6, <1>7, StillReporting, KeptReports DEF Still
<1>9. Reporting(w) /\ Beside(p, w)
  BY <1>8, NowReports DEF Reporting, Beside
<1> HIDE DEF w
<1>10. /\ Reporting(Tui!PreloadNext(w, c.near)) /\ Beside(w, Tui!PreloadNext(w, c.near))
       /\ Reporting(Tui!StopPlayback(z, FALSE)) /\ Beside(z, Tui!StopPlayback(z, FALSE))
  BY <1>4, <1>9, StillStep, StopReports
<1>11. Reporting(n) /\ Beside(l, n)
  BY <1>1, <1>4, <1>5, <1>6, <1>8, <1>9, <1>10 DEF Beside
<1>12. Finite(m) => Tui!Waits(n, Scrobble(m.track))
  BY <1>3, <1>11, ScrobbleIsNoProgress DEF Beside
<1> QED BY <1>2, <1>3, <1>11, <1>12 DEF Beside, n

(* The tick, in its order. *)
LEMMA TickReports ==
  ASSUME NoneIsNoReport, ReportInv(model), Tui!Tick
  PROVE  ReportInv(model') /\ Beside(model, model')
<1>1. PICK c \in Tui!Chances : model' = Tui!Handled(Tui!HandleTick(model, c))
  BY DEF Tui!Tick
<1>2. Reporting(model)
  BY DEF Tui!Tick, Reporting
<1> DEFINE q == Tui!TickProgressReport(model, c.report)
           h == Tui!TickStreamHealth(q)
           t == Tui!CurrentPlaybackTrack(h)
           d == [h EXCEPT !.due = FALSE]
           e == Tui!EngineStop(d)
           r == IF h.due /\ c.over THEN e ELSE h
           g == Tui!TickGapless(r, c)
           w == Tui!TickDrain(r, c)
           n == Tui!HandleTick(model, c)
<1>3. n = IF h.due /\ c.over /\ t # NoTrack THEN Tui!Restart(h, t, c)
          ELSE IF r.advanced THEN IF g.active THEN Tui!TickPreloadRetry(g, c.near) ELSE g
          ELSE Tui!TickPreloadRetry(w, c.near)
  BY DEF Tui!HandleTick
<1> HIDE DEF n
<1>4. Reporting(q) /\ Beside(model, q)
  BY <1>2, ProgressReports DEF Reporting, Beside
<1> HIDE DEF q
<1>5. Reporting(h) /\ Beside(q, h)
  BY <1>4, StillStep
<1> HIDE DEF h
<1>6. Reporting(d) /\ Beside(h, d)
  BY <1>5, OtherFieldsStill, StillReporting
<1> HIDE DEF d, t
<1>7. Reporting(e) /\ Beside(d, e)
  BY <1>6, StillStep
<1> HIDE DEF e
<1>8. Reporting(r) /\ Beside(h, r)
  BY <1>5, <1>6, <1>7 DEF Beside
<1> HIDE DEF r
<1>9. Reporting(g) /\ Beside(r, g) /\ Reporting(w) /\ Beside(r, w)
  BY <1>8, GaplessReports, DrainReports
<1> HIDE DEF g, w
<1>10. /\ Reporting(Tui!Restart(h, t, c)) /\ Beside(h, Tui!Restart(h, t, c))
       /\ Reporting(Tui!TickPreloadRetry(g, c.near)) /\ Beside(g, Tui!TickPreloadRetry(g, c.near))
       /\ Reporting(Tui!TickPreloadRetry(w, c.near)) /\ Beside(w, Tui!TickPreloadRetry(w, c.near))
  BY <1>5, <1>9, RestartReports, StillStep
<1>11. Reporting(n) /\ Beside(h, n)
  BY <1>3, <1>8, <1>9, <1>10 DEF Beside
<1>12. Reporting(model') /\ Beside(n, model')
  BY <1>1, <1>11, StillStep DEF n
<1> QED BY <1>4, <1>5, <1>11, <1>12 DEF Reporting, Beside

(* A play that has come to its end is scrobbled by the next tick. *)
LEMMA TickScrobbles ==
  ASSUME NoneIsNoReport, ReportInv(model), Retries(model), Tui!PlayedOut,
         model.track \in Reported, NEW c
  PROVE  Tui!Waits(Tui!HandleTick(model, c), Scrobble(model.track))
<1> DEFINE q == Tui!TickProgressReport(model, c.report)
           g == Tui!TickGapless(q, c)
           w == Tui!TickDrain(q, c)
           n == Tui!HandleTick(model, c)
           F == {"track", "active", "started", "left", "quitting", "cur", "playing", "paused",
                 "drained", "failed", "advanced", "buffering", "due"}
<1>1. Reporting(model) /\ Finite(model)
  BY DEF Tui!PlayedOut, Tui!OnAir, OnAir, Finite, Reporting
<1>2. Reporting(q)
  BY <1>1, ProgressReports DEF Reporting, Beside
<1>3. Kept(F, model, q)
  <2>1. F \subseteq DOMAIN model /\ F \cap {"pending", "running"} = {}
    BY DEF ReportInv, QueueInv, ReportFields, Retries, RetryShape, RetryFields
  <2> QED BY <2>1 DEF Kept, Tui!TickProgressReport, Tui!Add
<1> HIDE DEF q
<1>4. /\ q.track = model.track /\ q.active = model.active /\ q.started = model.started
      /\ q.left = model.left /\ q.quitting = model.quitting /\ q.cur = model.cur
      /\ q.playing = model.playing /\ q.paused = model.paused /\ q.drained = model.drained
      /\ q.failed = model.failed /\ q.advanced = model.advanced
      /\ q.buffering = model.buffering /\ q.due = model.due
  BY <1>3 DEF Kept
<1> HIDE DEF F
<1>5. Finite(q)
  BY <1>1, <1>4 DEF Finite, OnAir
<1>6. ~q.failed /\ ~q.due /\ Tui!TickStreamHealth(q) = q
  BY <1>4 DEF Tui!PlayedOut, Tui!TickStreamHealth
<1>7. n = IF q.advanced THEN IF g.active THEN Tui!TickPreloadRetry(g, c.near) ELSE g
          ELSE Tui!TickPreloadRetry(w, c.near)
  BY <1>6 DEF Tui!HandleTick, q
<1>8. q.advanced \/ Finishes(q)
  <2>1. CASE model.advanced
    BY <1>4, <2>1
  <2>2. CASE ~model.advanced
    <3>1. /\ model.drained /\ model.playing /\ ~model.paused /\ ~model.buffering
          /\ ~Tui!PlaysLive(model, model.track) /\ model.active
      BY <2>2 DEF Tui!PlayedOut, Tui!OnAir
    <3>2. Tui!CurrentPlaybackTrack(q) = model.track
      BY <1>4, <3>1 DEF Tui!CurrentPlaybackTrack
    <3>3. ~Tui!PlaysLive(q, model.track)
      BY <1>4, <3>1 DEF Tui!PlaysLive, Tui!HasDuration
    <3> QED BY <1>4, <1>6, <3>1, <3>2, <3>3 DEF Finishes
  <2> QED BY <2>1, <2>2
<1> HIDE DEF n
<1>9. /\ Reporting(g) /\ Tui!Waits(g, Scrobble(model.track))
      /\ Reporting(w) /\ (Finishes(q) => Tui!Waits(w, Scrobble(model.track)))
  BY <1>2, <1>4, <1>5, GaplessReports, DrainReports
<1> HIDE DEF g, w
<1>10. /\ Beside(g, Tui!TickPreloadRetry(g, c.near))
       /\ Beside(w, Tui!TickPreloadRetry(w, c.near))
  BY <1>9, StillStep
<1> QED BY <1>7, <1>8, <1>9, <1>10, ScrobbleIsNoProgress DEF Beside, n

(* The answer of a start: the track the TUI waits for begins.              *)
LEMMA AnswerReports ==
  ASSUME NoneIsNoReport, ReportInv(model), StartInv(model), NEW cmd \in model.starts,
         Tui!StreamPlayed(cmd)
  PROVE  ReportInv(model') /\ Beside(model, model')
<1> DEFINE m == [model EXCEPT !.starts = @ \ {cmd}]
<1>1. /\ ~model.quitting
      /\ \/ model' = Tui!Handled(m)
         \/ /\ cmd.current
            /\ \E c : model' = Tui!Handled(Tui!HandleStreamPlayed(m, cmd, c))
  BY DEF Tui!StreamPlayed, Tui!Heeded
<1>2. Still(model, m)
  BY DEF Still, Kept, ReportFields, ReportInv, QueueInv
<1> HIDE DEF m
<1>3. Reporting(m) /\ Beside(model, m) /\ (cmd.current => m.track = cmd.track)
  BY <1>1, <1>2, StillReporting, KeptReports DEF Still, Reporting, StartInv
<1>4. ASSUME NEW n, Reporting(n), Beside(m, n), model' = Tui!Handled(n)
      PROVE  ReportInv(model') /\ Beside(model, model')
  <2>1. Reporting(model') /\ Beside(n, model')
    BY <1>4, StillStep
  <2> QED BY <1>3, <1>4, <2>1 DEF Reporting, Beside
<1>5. ASSUME cmd.current, NEW c PROVE Reporting(Tui!HandleStreamPlayed(m, cmd, c))
                                       /\ Beside(m, Tui!HandleStreamPlayed(m, cmd, c))
  <2> DEFINE d == [m EXCEPT !.buffering = FALSE, !.liveDrain = FALSE]
             k == [d EXCEPT !.attempts = 0, !.due = FALSE, !.refusedSkips = 0]
             p == Tui!NowPlaying(k, cmd.track)
             s1 == [d EXCEPT !.refusedSkips = @ + 1]
             s0 == [d EXCEPT !.refusedSkips = 0]
             e == Tui!EngineStop(d)
             r == Tui!ScheduleReconnect(e)
             w == [r EXCEPT !.liveDrain = TRUE]
             z == [e EXCEPT !.attempts = 0]
             n == Tui!HandleStreamPlayed(m, cmd, c)
             Q(x) == Reporting(x) /\ Beside(m, x)
  <2>1. n \in {w, Tui!NextTrack(z, c), Tui!NextTrack(s1, c), Tui!NextTrack(d, c),
               Tui!PreloadNext(p, c.near), Tui!PreloadNext(s0, c.near), Tui!PreloadNext(d, c.near)}
    BY DEF Tui!HandleStreamPlayed, Tui!LiveDrainFailed
  <2>2. Still(m, d)
    BY <1>3 DEF Still, Kept, ReportFields, Reporting, ReportInv, QueueInv
  <2> HIDE DEF d, n
  <2>3. Q(d) /\ d.track = cmd.track
    BY <1>3, <1>5, <2>2, StillReporting, KeptReports DEF Still
  <2>4. Still(d, k) /\ Still(d, s1) /\ Still(d, s0)
    BY <2>3 DEF Still, Kept, ReportFields, Reporting, ReportInv, QueueInv
  <2> HIDE DEF k, s1, s0
  <2>5. Q(k) /\ k.track = cmd.track /\ Q(s1) /\ Q(s0)
    BY <2>3, <2>4, StillReporting, KeptReports DEF Still, Beside
  <2>6. Q(p)
    BY <2>5, NowReports DEF Reporting, Beside
  <2>7. Q(e)
    BY <2>3, StillStep DEF Beside
  <2> HIDE DEF p, e
  <2>8. Q(r) /\ Still(e, z)
    BY <2>7, StillStep, OtherFieldsStill DEF Beside
  <2> HIDE DEF r, z
  <2>9. Q(z) /\ Still(r, w)
    <3>1. Reporting(z) /\ Beside(e, z)
      BY <2>7, <2>8, StillReporting
    <3>2. Still(r, w)
      BY <2>8, OtherFieldsStill
    <3> QED BY <2>7, <3>1, <3>2 DEF Beside
  <2> HIDE DEF w
  <2>10. Q(w)
    BY <2>8, <2>9, StillReporting DEF Beside
  <2>11. \A x : Q(x) => Q(Tui!NextTrack(x, c)) /\ Q(Tui!PreloadNext(x, c.near))
    BY NextTrackReports, StillStep DEF Beside
  <2>12. Q(n)
    <3> HIDE DEF Q
    <3> QED BY <2>1, <2>3, <2>5, <2>6, <2>9, <2>10, <2>11
  <2> QED BY <2>12 DEF n
<1>6. CASE model' = Tui!Handled(m)
  BY <1>3, <1>4, <1>6 DEF Beside
<1> QED BY <1>1, <1>4, <1>5, <1>6

(* What says nothing to the providers. *)
LEMMA OthersReport ==
  ASSUME ReportInv(model),
         \/ \E cmd \in model.starts : Tui!Opens(cmd)
         \/ \E cmd \in model.starts : Tui!FailsToOpen(cmd)
         \/ \E cmd \in model.preloads : Tui!PreloadEnds(cmd)
         \/ Tui!TrackEnds \/ Tui!StreamBreaks
  PROVE  ReportInv(model') /\ Beside(model, model')
<1>1. ReportFields \subseteq DOMAIN model
  BY DEF ReportInv, QueueInv
<1>2. ASSUME NEW cmd, Tui!Opens(cmd) PROVE Still(model, model')
  <2> DEFINE e == IF Tui!Owns(cmd) THEN Tui!EngineStarts(model, cmd.track) ELSE model
  <2>1. model' = [e EXCEPT !.starts = (@ \ {cmd}) \cup {[cmd EXCEPT !.at = "played"]}]
    BY <1>2 DEF Tui!Opens
  <2>2. Still(model, e)
    BY <1>1, StillHelpers DEF Still, Kept
  <2> HIDE DEF e
  <2> QED BY <1>1, <2>1, <2>2 DEF Still, Kept, ReportFields
<1>3. CASE \/ \E cmd \in model.starts : Tui!FailsToOpen(cmd)
           \/ \E cmd \in model.preloads : Tui!PreloadEnds(cmd)
           \/ Tui!StreamBreaks
  <2>1. Still(model, model')
    BY <1>1, <1>3 DEF Tui!FailsToOpen, Tui!PreloadEnds, Tui!StreamBreaks, Still, Kept, ReportFields
  <2> QED BY <2>1, StillReports
<1>4. CASE Tui!TrackEnds
  <2>1. Still(model, model')
    BY <1>1, <1>4 DEF Tui!TrackEnds, Still, Kept, ReportFields
  <2> QED BY <2>1, StillReports
<1> QED BY <1>2, <1>3, <1>4, StillReports

(* The answer of a preload. *)
LEMMA PreloadedReports ==
  ASSUME ReportInv(model), NEW cmd \in model.preloads, Tui!StreamPreloaded(cmd)
  PROVE  ReportInv(model') /\ Beside(model, model')
<1> DEFINE m == [model EXCEPT !.preloads = @ \ {cmd}]
           f == IF cmd.at = "failed" THEN cmd.track ELSE m.preloadFailed
           n == [m EXCEPT !.preloading = FALSE, !.preloadFailed = f]
<1>1. model' \in {Tui!Handled(m), Tui!Handled(n)}
  BY DEF Tui!StreamPreloaded
<1>2. Reporting(model)
  BY DEF Tui!StreamPreloaded, Reporting
<1>3. Still(model, m) /\ Still(model, n)
  BY <1>2 DEF Still, Kept, ReportFields, Reporting, ReportInv, QueueInv
<1> HIDE DEF m, n
<1>4. Reporting(m) /\ Beside(model, m) /\ Reporting(n) /\ Beside(model, n)
  BY <1>2, <1>3, StillReporting
<1>5. Reporting(model') /\ (Beside(m, model') \/ Beside(n, model'))
  BY <1>1, <1>4, StillStep
<1> QED BY <1>4, <1>5 DEF Reporting, Beside

(* The goroutine takes the next report, or ends as none waits.             *)
LEMMA DrainKeepsReports ==
  ASSUME ReportInv(model), Tui!Drain
  PROVE  ReportInv(model') /\ Keeps
<1> DEFINE n == model'
           p == model.pending
           h == Head(p)
<1>1. model.busy = NoTrack /\ model.exit = "no" /\ Heard(model) = model.told
  BY DEF Tui!Drain, Tui!Running, Heard
<1>2. CASE p = <<>>
  <2>1. n = [model EXCEPT !.running = FALSE]
    BY <1>2 DEF Tui!Drain
  <2>2. /\ DOMAIN n = DOMAIN model /\ n.pending = p /\ n.busy = NoTrack /\ n.told = model.told
        /\ n.exit = "no" /\ n.quitting = model.quitting /\ n.track = model.track
        /\ n.active = model.active /\ n.started = model.started /\ n.left = model.left
    BY <1>1, <2>1 DEF ReportInv, QueueInv, ReportFields
  <2>3. Heard(n) = Heard(model)
    BY <1>1, <2>2 DEF Heard
  <2>4. Keeps
    BY <1>1, <2>2 DEF Keeps, Tui!Waits
  <2> HIDE DEF n
  <2> QED BY <1>1, <1>2, <2>2, <2>3, <2>4 DEF ReportInv, QueueInv, PlayInv, OnAir, n
<1>3. CASE p # <<>>
  <2>1. n = [model EXCEPT !.busy = h, !.pending = Tail(@)]
    BY <1>3 DEF Tui!Drain
  <2>2. /\ DOMAIN n = DOMAIN model /\ n.pending = Tail(p) /\ n.busy = h /\ n.told = model.told
        /\ n.exit = "no" /\ n.running = model.running /\ n.quitting = model.quitting
        /\ n.track = model.track /\ n.active = model.active /\ n.started = model.started
        /\ n.left = model.left
    BY <1>1, <2>1 DEF ReportInv, QueueInv, ReportFields
  <2>3. InOrderAfter(p, model.told)
    BY <1>1 DEF ReportInv, QueueInv
  <2> DEFINE c == IF h.kind = "progress" THEN model.told ELSE h
             q == Tail(p)
  <2>4. /\ InOrderAfter(q, c) /\ h # NoTrack
        /\ h.kind = "scrobble" => model.told = Now(h.track)
        /\ \A x : x.kind # "progress" /\ Latest(p, model.told, x, Len(p) + 1)
                    => Latest(q, c, x, Len(q) + 1)
    <3> HIDE DEF p, n
    <3> QED BY <1>3, <2>3, TailOrder
  <2>5. Heard(n) = c
    BY <2>2, <2>4 DEF Heard
  <2>6. model.running
    BY <1>3 DEF ReportInv, QueueInv
  <2>7. Keeps
    <3>1. \A r : Tui!Waits(model, r) => r = h \/ Tui!Waits(n, r)
      <4>1. /\ IsSeq(q) /\ Len(p) \in Nat /\ Len(p) >= 1 /\ Len(q) = Len(p) - 1
            /\ h = p[1] /\ \A i \in 1..(Len(p) - 1) : q[i] = p[i + 1]
        <5> HIDE DEF p
        <5>1. IsSeq(p)
          BY <2>3 DEF InOrderAfter
        <5> QED BY <1>3, <5>1, TailFacts
      <4>2. DOMAIN p = 1..Len(p) /\ DOMAIN q = 1..Len(q)
        <5>1. IsSeq(p) /\ IsSeq(q)
          BY <2>3, <4>1 DEF InOrderAfter
        <5> HIDE DEF p, q
        <5> QED BY <5>1 DEF IsSeq
      <4>3. ASSUME NEW i \in 1..Len(p), i # 1
            PROVE  i - 1 \in DOMAIN q /\ q[i - 1] = p[i]
        <5> DEFINE j == i - 1
        <5> HIDE DEF p, q
        <5>1. j \in 1..(Len(p) - 1) /\ j + 1 = i
          BY <4>1, <4>3
        <5> HIDE DEF j
        <5>2. q[j] = p[i] /\ j \in DOMAIN q
          BY <4>1, <4>2, <5>1
        <5> QED BY <5>2 DEF j
      <4>4. ASSUME NEW r, Tui!Waits(model, r) PROVE r = h \/ Tui!Waits(n, r)
        <5>1. PICK i \in 1..Len(p) : p[i] = r
          BY <4>2, <4>4 DEF Tui!Waits
        <5>2. CASE i = 1
          BY <4>1, <5>1, <5>2
        <5>3. CASE i # 1
          <6>1. i - 1 \in DOMAIN q /\ q[i - 1] = r
            BY <4>3, <5>1, <5>3
          <6> QED BY <2>2, <6>1 DEF Tui!Waits
        <5> QED BY <5>2, <5>3
      <4> QED BY <4>4
    <3> HIDE DEF n, h
    <3> QED BY <1>1, <2>2, <3>1 DEF Keeps, n
  <2> HIDE DEF n, h, c, q
  <2>8. QueueInv(n)
    BY <1>1, <2>2, <2>4, <2>5, <2>6 DEF ReportInv, QueueInv, q
  <2>9. PlayInv(n)
    BY <1>1, <2>2, <2>4, <2>5, NowIsNoProgress DEF ReportInv, PlayInv, OnAir, q
  <2> QED BY <2>7, <2>8, <2>9 DEF ReportInv, n
<1> QED BY <1>2, <1>3

(* A report is made, and the program sees the queue idle or waits no more. *)
LEMMA DoneReports ==
  ASSUME ReportInv(model), Tui!ReportDone \/ Tui!WaitReports
  PROVE  ReportInv(model') /\ Keeps
<1> DEFINE n == model'
<1>1. /\ DOMAIN n = DOMAIN model /\ n.pending = model.pending /\ n.running = model.running
      /\ n.quitting = model.quitting /\ n.track = model.track /\ n.active = model.active
      /\ n.started = model.started /\ n.left = model.left
  BY DEF Tui!ReportDone, Tui!WaitReports, ReportInv, QueueInv, ReportFields
<1>2. CASE Tui!ReportDone
  <2>1. /\ model.busy # NoTrack /\ n.busy = NoTrack /\ n.exit = model.exit
        /\ n.told = IF model.busy.kind = "progress" THEN model.told ELSE model.busy
    BY <1>2 DEF Tui!ReportDone, ReportInv, QueueInv, ReportFields
  <2>3. Keeps
    BY <1>1, <2>1 DEF Keeps, Tui!Waits
  <2> HIDE DEF n
  <2>2. Heard(n) = Heard(model)
    BY <2>1 DEF Heard
  <2> QED BY <1>1, <2>1, <2>2, <2>3 DEF ReportInv, QueueInv, PlayInv, OnAir, n
<1>3. CASE Tui!WaitReports
  <2>1. /\ n.busy = model.busy /\ n.told = model.told /\ model.quitting
        /\ n.exit = "reported" => ~model.running
    BY <1>3 DEF Tui!WaitReports, Tui!Idle, ReportInv, QueueInv, ReportFields
  <2>3. Keeps
    BY <1>1, <2>1 DEF Keeps, Tui!Waits
  <2> HIDE DEF n
  <2>2. Heard(n) = Heard(model)
    BY <2>1 DEF Heard
  <2> QED BY <1>1, <2>1, <2>2, <2>3 DEF ReportInv, QueueInv, PlayInv, OnAir, n
<1> QED BY <1>2, <1>3

(* At first nothing waits, *)
LEMMA ReportInits == Tui!Init => ReportInv(model)
<1> SUFFICES ASSUME Tui!Init PROVE ReportInv(model)
  OBVIOUS
<1>1. /\ ReportFields \subseteq DOMAIN model /\ model.pending = <<>> /\ model.busy = NoTrack
      /\ ~model.active /\ model.exit = "no"
  BY DEF Tui!Init, ReportFields
<1>2. IsSeq(<<>>) /\ Len(<<>>) = 0
  BY DEF IsSeq
<1>3. InOrderAfter(<<>>, Heard(model))
  BY <1>2 DEF InOrderAfter
<1> QED BY <1>1, <1>3 DEF ReportInv, QueueInv, PlayInv, OnAir

(* and every step keeps the reports in order. *)
LEMMA ReportSteps ==
  ASSUME NoneIsNoReport, PlaybackSound, ReportInv(model), Tui!Next
  PROVE  ReportInv(model') /\ Keeps
<1>1. StartInv(model) /\ AnnouncedInv(model)
  BY DEF PlaybackSound, PlaybackInv, Sound
<1> QED BY <1>1, CommandsReport, EditsReport, QuitReports, TickReports, OthersReport,
           AnswerReports, PreloadedReports, DrainKeepsReports, DoneReports, BesideKeeps
        DEF Tui!Next

ReportsHold == ReportInv(model)

(* A play that is on has been reported. *)
LEMMA OnAirReported == ReportsHold => Tui!PlaysReported
<1> SUFFICES ASSUME ReportsHold, Tui!OnAir(model), model.track \in Reported
             PROVE  Tui!LastSaid(model, Now(model.track))
  BY DEF Tui!PlaysReported, Now
<1> DEFINE p == model.pending
           r == Now(model.track)
<1>1. Latest(p, Heard(model), r, Len(p) + 1)
  BY DEF ReportsHold, ReportInv, PlayInv, OnAir, Tui!OnAir
<1>2. DOMAIN p = 1..Len(p) /\ Len(p) \in Nat
  <2>1. PICK S : p \in Seq(S)
    BY DEF ReportsHold, ReportInv, QueueInv, InOrderAfter, IsSeq
  <2> QED BY <2>1
<1>3. (Len(p) + 1) - 1 = Len(p)
  BY <1>2
<1> HIDE DEF r
<1> QED BY <1>1, <1>2, <1>3 DEF Latest, AllProgress, Heard, Tui!LastSaid, Tui!ProgressFrom, r

(* report_queue.go, leaveTrack, nowPlaying: every play that is announced   *)
(* is reported, the one that plays to its end scrobbled by the next tick,  *)
(* once and after the now-playing report of its track, with no other play  *)
(* or scrobble in between; none of these reports is lost, and a program    *)
(* that saw the queue idle has told the providers everything.  For any     *)
(* tracks whose provider takes reports and positions; the name for no      *)
(* track must not be a report.                                             *)
THEOREM ReportsInOrder == ASSUME NoneIsNoReport PROVE TuiSpec => ReportsArrive
<1>1. Tui!Init => ReportsHold /\ RetryHolds
  BY ReportInits, RetryInits DEF ReportsHold, RetryHolds
<1>2. PlaybackSound /\ ReportsHold /\ RetryHolds /\ [Tui!Next]_model => (ReportsHold /\ RetryHolds)'
  <2>1. CASE Tui!Next
    BY <2>1, ReportSteps, RetrySteps DEF ReportsHold, RetryHolds
  <2>2. CASE UNCHANGED model
    BY <2>2, RetrySteps DEF ReportsHold, RetryHolds
  <2> QED BY <2>1, <2>2
<1>3. PlaybackSound /\ ReportsHold /\ [Tui!Next]_model =>
        [model.busy # NoTrack /\ (model').busy = NoTrack /\ model.busy.kind = "scrobble"
           => model.told = Tui!Report("now", model.busy.track, model.busy.track)]_model
  <2>1. ASSUME PlaybackSound, ReportsHold, Tui!Next,
               model.busy # NoTrack, (model').busy = NoTrack, model.busy.kind = "scrobble"
        PROVE  model.told = Tui!Report("now", model.busy.track, model.busy.track)
    BY <2>1 DEF ReportsHold, ReportInv, QueueInv, Now
  <2> QED BY <2>1
<1>4. PlaybackSound /\ ReportsHold /\ [Tui!Next]_model =>
        [/\ \A i \in DOMAIN model.pending :
              LET r == model.pending[i]
              IN  r.kind # "progress" => Tui!Waits(model', r) \/ (model').busy = r
         /\ model.busy # NoTrack /\ (model').busy # model.busy /\ model.busy.kind # "progress" =>
              (model').told = model.busy]_model
  <2>1. ASSUME PlaybackSound, ReportsHold, Tui!Next PROVE Keeps
    BY <2>1, ReportSteps DEF ReportsHold
  <2>2. ASSUME NEW i \in DOMAIN model.pending PROVE Tui!Waits(model, model.pending[i])
    BY DEF Tui!Waits
  <2> QED BY <2>1, <2>2 DEF Keeps
<1>5. ReportsHold => Tui!ExitAfterReports
  BY DEF ReportsHold, ReportInv, QueueInv, Tui!ExitAfterReports
<1>6. ReportsHold /\ RetryHolds => Tui!EndsScrobbled
  <2>1. ASSUME ReportsHold, RetryHolds, Tui!PlayedOut, model.track \in Reported, NEW c
        PROVE  Tui!Waits(Tui!HandleTick(model, c), Scrobble(model.track))
    BY <2>1, TickScrobbles DEF ReportsHold, RetryHolds
  <2> QED BY <2>1 DEF Tui!EndsScrobbled, Scrobble
<1> QED BY <1>1, <1>2, <1>3, <1>4, <1>5, <1>6, OnAirReported, PlaybackHolds, PTL
        DEF TuiSpec, Tui!Spec, ReportsArrive, Tui!ReportsArrive, Tui!ScrobbleEndsAPlay,
            Tui!NothingLost
=============================================================================
