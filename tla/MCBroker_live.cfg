\* One connection, two publishers, as many topics as slots, as in the code, so
\* that a replay may fill a channel.  No fairness for the consumer: publications
\* end all the same, but for one that finds such a replay unread.  And three
\* programs, one connection, and any of them killed at any moment.
SPECIFICATION ServerSpec
CONSTANTS
  Topics <- Three
  PluginTopics <- First
  Publishers = {p1, p2}
  Conns = {c1}
  Slots = 3
  MaxTopics = 3
  MaxRetained = 3
  MaxEvents = 4
  Free = Free
  Programs = {q1, q2, q3}
  Peers = {k1}
  None = None
  Garbled = Garbled
INVARIANTS
  SubscribersFollow
  NoSendOnClosed
  WaitsForReplayOnly
  ServersReachable
PROPERTIES
  ServerCloses
CHECK_DEADLOCK FALSE
