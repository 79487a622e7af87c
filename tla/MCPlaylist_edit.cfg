\* Every edit over two rows of the user and one recommended row, whose flags change.
SPECIFICATION Spec
CONSTANTS
  a = a
  b = b
  s = s
  Ids <- TwoIds
  SmartIds <- Recommended
  BookmarkIds <- Recommended
  UnplayableIds <- Recommended
  MaxAdd = 1
  MaxQueue = 2
  RevisionModulus = 1
SYMMETRY SymTwo
INVARIANTS
  IndexInv
  PredictionsHold
PROPERTIES
  EditsKeepPlace
