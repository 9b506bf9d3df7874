CONSTANTS
  Topics = {t1}
  Setups <- BothTransports
  Reactions = {"ignore", "start", "stop"}
  MaxChains = 9
  MaxFaults = 2
SPECIFICATION FairSpec
INVARIANT TypeOK
INVARIANT CallsInOrder
INVARIANT GateHasKeeper
INVARIANT ReadyIsReal
INVARIANT InStep
PROPERTY StartsFresh
PROPERTY NobodyWaitsForever
CHECK_DEADLOCK FALSE
