SPECIFICATION FairSpec
CONSTANTS
  Paths <- TwoPaths
  QueueSize = 2
  Attempts = 1
  MaxReconnects = 2
  MaxRequests = 2
  Troubles <- SomeTroubles
INVARIANT FreshAtRest
PROPERTY ComesBack
CHECK_DEADLOCK FALSE
