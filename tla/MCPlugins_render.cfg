\* A visualizer whose queue is full when it is selected.
SPECIFICATION Spec
CONSTANTS
  after = after
  every = every
  x1 = x1
  x2 = x2
  Nobody = Nobody
  Afters = {}
  Everies = {}
  Execs = {}
  ExecCap = 1
  QueueSize = 1
  MaxWork = 3
  HasVis = TRUE
INVARIANT RenderAfterInit
CHECK_DEADLOCK FALSE
