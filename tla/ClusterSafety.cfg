CONSTANTS
  Workers <- TwoTabs
  Topics = {t1}
  MaxActiveWorkers = 2
  MaxChurn = 2
  MaxGen = 4
  Events = {"pagehide", "resume", "stop", "stall", "subscribe", "unsubscribe", "flushfail", "status"}
SPECIFICATION Spec
INVARIANTS TypeOK Accounted
PROPERTIES OwnersAgree
CHECK_DEADLOCK FALSE
