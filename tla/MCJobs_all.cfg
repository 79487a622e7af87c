\* Jobs of every kind in a store with room for one, keyboard edits and the end
\* of the program, under fairness.
SPECIFICATION FairSpec
CONSTANTS
  j1 = j1
  j2 = j2
  Ids <- BothIds
  Kinds <- AllThenSome
  Conns = {c1}
  Capacity = 1
  EventSlots = 1
  MaxEdits = 1
  UI = UI
  Closer = Closer
  Plugin = Plugin
  None = None
INVARIANTS
  SubmissionsKept
  SnapshotCoversEffect
PROPERTIES
  OutcomeFinal
  CanceledNeverBegins
  EveryJobEnds
CHECK_DEADLOCK FALSE
