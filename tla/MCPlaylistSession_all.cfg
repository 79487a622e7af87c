\* Two rows to edit, three to listen to.  A session that edits stops before
\* the revision wraps.
SPECIFICATION SessionSpec
CONSTANTS
  a = a
  b = b
  c = c
  s = s
  NumRows = 3
  Ids <- TwoIds
  SmartIds = {}
  BookmarkIds <- OneId
  UnplayableIds <- TwoIds
  MaxAdd = 2
  MaxQueue = 2
  RevisionModulus = 6
PROPERTIES
  RevisionsGuardUndo
  EveryRowPlays
CHECK_DEADLOCK FALSE
