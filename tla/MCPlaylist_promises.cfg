\* What comments of playlist.go say and a wrapping revision, a reshuffle or a
\* removal breaks.  TLC stops at the first; -continue shows the others.
SPECIFICATION Spec
CONSTANTS
  a = a
  b = b
  s = s
  Ids <- TwoIds
  SmartIds <- Recommended
  BookmarkIds = {}
  UnplayableIds <- TwoIds
  MaxAdd = 1
  MaxQueue = 1
  RevisionModulus = 4
SYMMETRY SymTwo
INVARIANT PeekNextExact
PROPERTIES
  DisableSmartKeepsPlaying
  RemovedRowsSuccessorIsNext
