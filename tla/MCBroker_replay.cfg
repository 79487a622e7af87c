\* A subscription may have as many topics as its channel has slots, as in the
\* code, where both are 32; two programs that start at once, and one that starts as
\* another closes.  TLC stops at the first that a behaviour violates; -continue
\* shows all.
SPECIFICATION ReadersSpec
CONSTANTS
  Topics <- Two
  PluginTopics <- First
  Publishers = {p1}
  Conns = {c1}
  Slots = 2
  MaxTopics = 2
  MaxRetained = 2
  MaxEvents = 4
  Free = Free
  Programs = {q1, q2}
  Peers = {k1}
  None = None
  Garbled = Garbled
INVARIANTS
  NeverDisplaced
  StartsAfterQuit
PROPERTIES
  PublishReturns
CHECK_DEADLOCK FALSE
