\* One job of any kind, one connection.  TLC stops at the first of the three that
\* a behaviour violates; -continue shows the others.
SPECIFICATION Spec
CONSTANTS
  j1 = j1
  j2 = j2
  Ids <- OneId
  Kinds <- OneOfAny
  Conns = {c1}
  Capacity = 1
  EventSlots = 1
  MaxEdits = 2
  UI = UI
  Closer = Closer
  Plugin = Plugin
  None = None
INVARIANTS
  AcknowledgedFirst
  SnapshotOfCommit
PROPERTIES
  CanceledNeverCommits
CHECK_DEADLOCK FALSE
