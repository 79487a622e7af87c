\* Two of the goroutines that open a stream or sign in, at most two logins, and Close
\* at any moment; or two commands of Spotify, acts of the user or ends of tracks, and
\* one PUT that is refused for its rate.  All under fairness.
SPECIFICATION SpotifySpec
CONSTANTS
  Calls = {c1, c2}
  SignIns = {a1, a2}
  MaxBegun = 2
  MaxBuilt = 2
  None = None
  Tracks = {t1, t2, t3}
  First = t1
  Uris = {t1, t2}
  MaxCommands = 2
  MaxLimited = 1
INVARIANTS
  SignInCancelable
  TakeoversHold
  ControllerFollows
PROPERTIES
  PlayersKept
  NobodyStuck
\* Everybody has returned and every receiver is off at last.
CHECK_DEADLOCK FALSE
