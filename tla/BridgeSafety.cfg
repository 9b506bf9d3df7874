CONSTANTS
  Topics = {t1}
  Backends = {"shared", "dedicated", "local"}
  Providers = {"none", "promise", "throws"}
  MaxSessions = 2
  MaxRequests = 2
  MaxMoves = 3
  MaxEvents = 2
SPECIFICATION Spec
INVARIANT TypeOK
INVARIANT CredentialsArrive
INVARIANT HandedOnOnce
INVARIANT SubscriptionsAgree
PROPERTY ImplementsLink
CHECK_DEADLOCK FALSE
