\* Two rows and a recommended one: an undo drops the recommendation.
SPECIFICATION SessionSpec
CONSTANTS
  a = a
  b = b
  c = c
  s = s
  NumRows = 3
  Ids <- TwoIds
  SmartIds <- Recommended
  BookmarkIds <- OneId
  UnplayableIds <- TwoIds
  MaxAdd = 2
  MaxQueue = 2
  RevisionModulus = 6
CHECK_DEADLOCK FALSE
PROPERTY UndoDropsNothing
