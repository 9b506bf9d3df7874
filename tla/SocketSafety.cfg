CONSTANTS
  Topics = {t1}
  Reopens = TRUE
  MaxAttempts = 3
  MaxMoves = 3
  MaxEvents = 4
SPECIFICATION FairSpec
INVARIANT TypeOK
INVARIANT ServedExactly
INVARIANT GivenUpIsSilent
PROPERTY ImplementsLink
PROPERTY StartIsAnswered
CHECK_DEADLOCK FALSE
