\* A new stream whose seek waits for the network while Close waits for the mutex.
SPECIFICATION FairSpec
CONSTANTS
  Last = 2
  MaxRecoveries = 1
  Attempts = 2
PROPERTIES
  CallsReturn
CHECK_DEADLOCK FALSE
