\* Two processes, three operations, one kill or power loss at any moment.
SPECIFICATION Spec
CONSTANTS
  Procs = {p1, p2}
  Items = {t1, t2}
  Cap = 1
  MaxOps = 3
  MaxCrashes = 1
  Nobody = Nobody
  Torn = Torn
INVARIANTS KeepsAcknowledged SyncEndsWithLast
PROPERTIES AtomicOperations
CHECK_DEADLOCK FALSE
