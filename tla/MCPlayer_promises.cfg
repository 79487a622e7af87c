\* A seek, a new start, an interrupted read, a preload and a failed yt-dlp seek around
\* a transition, and a Stop without a new generation while a start is under way.  TLC
\* stops at the first that a behaviour violates; -continue shows all.
SPECIFICATION Spec
CONSTANTS
  Pipes = {a, b, c}
  Ffmpeg = {a, b}
  Ytdl = {c}
  Workers = {w1, w2}
  None = None
INVARIANTS
  BufferingEnds
  DrainedMeansEnded
  HasPreloadIsQueued
  PlayingIsAudible
PROPERTIES
  AdvanceIsHeard
  InterruptNeverAdvances
