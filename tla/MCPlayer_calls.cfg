\* Tracks of every kind, two workers, and Stop at any moment.
SPECIFICATION Spec
CONSTANTS
  Pipes = {a, b, c, d, e}
  Ffmpeg = {a, b}
  Ytdl = {c, d}
  Workers = {w1, w2}
  None = None
SYMMETRY Symmetry
INVARIANTS
  OvertakenNeverLands
  AudioMatchesPlayer
  PipelinesSound
