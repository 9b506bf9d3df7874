CONSTANTS
  Workers <- TwoTabs
  Topics = {t1}
  MaxActiveWorkers = 2
  MaxChurn = 3
  MaxGen = 4
  Events = {"pagehide", "resume", "lose"}
SPECIFICATION FairSpec
PROPERTIES HandoffSettles
CHECK_DEADLOCK FALSE
