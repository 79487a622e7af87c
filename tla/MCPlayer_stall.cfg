\* Decoders that wait for data until they are interrupted.
SPECIFICATION StallSpec
CONSTANTS
  Pipes = {a, b, c}
  Ffmpeg = {a, b, c}
  Ytdl = {}
  Workers = {w1}
  None = None
PROPERTIES
  StopReturns
