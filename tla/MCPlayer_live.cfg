\* Reads, locks and messages are fair; no symmetry, for the liveness check.
SPECIFICATION FairSpec
CONSTANTS
  Pipes = {a, b, c}
  Ffmpeg = {a}
  Ytdl = {b, c}
  Workers = {w1}
  None = None
INVARIANTS
  PauseInSync
PROPERTIES
  EveryCallReturns
