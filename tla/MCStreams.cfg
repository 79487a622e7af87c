\* A download of up to two bytes in up to two segments, read in chunks of one or
\* two; a ring of four frames for a stream of up to eight, decoded three at a time; a
\* Spotify track of two frames whose connection breaks once and is opened again in one
\* of two attempts.  All under fairness.
SPECIFICATION StreamsSpec
CONSTANTS
  r1 = r1
  Readers = {r1}
  MaxSize = 2
  MaxChunk = 2
  Capacity = 4
  Refill = 2
  MaxFrames = 8
  MaxDecoded = 3
  MaxCallback = 4
  Last = 2
  MaxRecoveries = 1
  Attempts = 2
INVARIANTS
  FileSound
  StreamsReleased
  ResumesInPlace
PROPERTIES
  EveryoneHearsTheStream
  NobodyWaitsForGood
\* Everything is read, closed and measured at last.
CHECK_DEADLOCK FALSE
