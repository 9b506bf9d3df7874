CONSTANTS
  Topics = {t1}
  Setups <- WorkerOnly
  Reactions = {"ignore"}
  MaxChains = 8
  MaxFaults = 1
SPECIFICATION Spec
INVARIANT ConnectingIsUnderway
CHECK_DEADLOCK FALSE
