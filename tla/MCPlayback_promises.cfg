\* A local track whose provider takes positions, and a station.
\* TLC shows ProgressOfWhatPlays first.  With that line removed it shows
\* StationsRetry: a jump to the local track fails to open while the station
\* plays, the stream breaks and ends, and the ticks use up the five attempts.
SPECIFICATION TuiSpec
CONSTANTS
  NoTrack = NoTrack
  Tracks = {"direct", "station"}
  Kind <- Named
  InitRows <- Radio
  Lists = {}
  Reported = {"direct"}
  Positions = {"direct"}
  MaxCalls = 2
  MaxBreaks = 2
  MaxWaiting = 2
  LiveRestarts = 3
  RefusedSkips = 1
INVARIANTS
  ProgressOfWhatPlays
  StationsRetry
\* the program may exit
CHECK_DEADLOCK FALSE
