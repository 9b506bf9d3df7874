CONSTANTS
  Keys = {k1, k2, k3}
  Values = {v1}
  None = none
  MAX_RETRY_ATTEMPTS = 3
  MaxDoublings = 2
  MaxTasks = 2
SPECIFICATION FairSpec
INVARIANTS TypeOK ArmedForQueue
PROPERTIES InOrder ReadsOwnWrites Drains
CHECK_DEADLOCK FALSE
