\* One plugin with a one-shot timer, a ticker, a process, a visualizer, events
\* and a command, three of them in one behaviour, under fairness.
SPECIFICATION FairSpec
CONSTANTS
  after = after
  every = every
  x1 = x1
  x2 = x2
  Nobody = Nobody
  Afters = {after}
  Everies = {every}
  Execs = {x1}
  ExecCap = 1
  QueueSize = 1
  MaxWork = 3
  HasVis = TRUE
INVARIANTS
  EventsInOrder
PROPERTIES
  OverIsSilent
  CloseReturns
CHECK_DEADLOCK FALSE
