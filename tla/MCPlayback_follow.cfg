\* Three kinds of tracks, two commands, one broken stream; a provider that takes
\* positions, and at most two reports that wait when a command or a tick comes.
SPECIFICATION TuiSpec
CONSTANTS
  NoTrack = NoTrack
  Tracks = {"stream", "direct", "broadcast"}
  Kind <- Named
  InitRows <- Mixed
  Lists <- Other
  Reported = {"stream"}
  Positions = {"stream"}
  MaxCalls = 2
  MaxBreaks = 1
  MaxWaiting = 2
  LiveRestarts = 3
  RefusedSkips = 1
INVARIANTS
  AnnouncedIsPlaying
  PreloadIsNext
  EndsMoveOn
PROPERTIES
  ReportsArrive
\* the program may exit
CHECK_DEADLOCK FALSE
