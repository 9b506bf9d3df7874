CONSTANTS
  Ports = {p1, p2}
  Heartbeats = {1, 20}
  DEFAULT_HEARTBEAT_INTERVAL_MS = 2
  DEFAULT_SESSION_TIMEOUT_MULTIPLIER = 3
  Infinity = 20
  MaxDelay = 1
  Reconnects = FALSE
SPECIFICATION FairSpec
INVARIANTS TypeOK OnlySilentEnd
PROPERTIES DeadIsReaped
CHECK_DEADLOCK FALSE
