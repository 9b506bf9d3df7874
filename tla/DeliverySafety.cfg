CONSTANTS
  Tabs <- TwoTabs
  Topics = {t1}
  RouteCacheMax = 1
  MaxEntries = 1
  TtlMs = 1
  MinMs = 1
  MaxMs = 2
  AdaptiveWindow = 2
  MaxBatch = 2
  MaxMessages = 2
  Setups <- SmallSetups
SPECIFICATION FairSpec
INVARIANT TypeOK
INVARIANT GoesToOwnerOnce
INVARIANT OncePerAcceptance
PROPERTY WindowIsKept
PROPERTY Reaches
CHECK_DEADLOCK FALSE
