\* One process, no crash: a toggle whose directory sync fails is not copied.
SPECIFICATION Spec
CONSTANTS
  Procs = {p1}
  Items = {t1, t2}
  Cap = 1
  MaxOps = 3
  MaxCrashes = 0
  Nobody = Nobody
  Torn = Torn
INVARIANT ProviderEndsWithLocal
CHECK_DEADLOCK FALSE
