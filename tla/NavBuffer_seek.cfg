\* Two ffmpeg processes read at once while a seek replaces the pipeline.
SPECIFICATION Spec
CONSTANTS
  Readers = {r1, r2}
  MaxSize = 2
  MaxChunk = 1
INVARIANTS
  TypeOK
  FileSound
PROPERTIES
  ReadsTheStream
  StallIsTrue
CHECK_DEADLOCK FALSE
