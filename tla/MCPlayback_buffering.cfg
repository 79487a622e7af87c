\* Three kinds of tracks, two commands, one broken stream.
SPECIFICATION TuiSpec
CONSTANTS
  NoTrack = NoTrack
  Tracks = {"stream", "direct", "broadcast"}
  Kind <- Named
  InitRows <- Mixed
  Lists <- Other
  Reported = {"stream"}
  Positions = {}
  MaxCalls = 2
  MaxBreaks = 1
  MaxWaiting = 2
  LiveRestarts = 3
  RefusedSkips = 1
INVARIANTS
  BufferingIsConnecting
\* the program may exit
CHECK_DEADLOCK FALSE
