CONSTANTS
  Topics = {t1, t2}
  MaxPerTopic = 1
  MaxAttempts = 2
  Retentions = {0, 1}
  MaxMessages = 2
  MaxMoves = 3
  MaxFaults = 1
SPECIFICATION FairSpec
PROPERTY Hydrates
INVARIANTS TypeOK LiveTail ClearedForGood JobsAreCurrent
CHECK_DEADLOCK FALSE
