CONSTANTS
  Workers <- TwoTabs
  Topics = {t1}
  MaxActiveWorkers = 2
  MaxChurn = 2
  MaxGen = 4
  Events = {"pagehide", "crash", "stop", "stall", "unsubscribe", "lose", "flushfail"}
SPECIFICATION FairSpec
PROPERTIES Settles
CHECK_DEADLOCK FALSE
