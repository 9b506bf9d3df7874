CONSTANTS
  Workers <- ThreeTabs
  Topics = {t1}
  MaxActiveWorkers = 2
  MaxChurn = 2
  MaxGen = 4
  Events = {"pagehide", "resume", "lose", "crash", "visibility"}
SPECIFICATION SettledSpec
PROPERTIES Settles
CHECK_DEADLOCK FALSE
