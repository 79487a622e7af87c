\* A login that another one overwrites, a pause while a track opens, and a claim that
\* the TUI never fulfils.  -continue shows all three.
SPECIFICATION SpotifySpec
CONSTANTS
  Calls = {c1, c2}
  SignIns = {a1, a2}
  MaxBegun = 2
  MaxBuilt = 2
  None = None
  Tracks = {t1, t2, t3}
  First = t1
  Uris = {t1, t2}
  MaxCommands = 2
  MaxLimited = 1
INVARIANTS
  NoneLost
  YieldsHold
  ClaimsEnd
CHECK_DEADLOCK FALSE
