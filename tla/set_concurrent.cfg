CONSTANTS
  Conns = {1, 2}
  InCount = 2
  OutCount = 2
  Clients = {x, y}
  Plans <- SomePlans
  MaxWatchRetries = 2
  MaxInputs = 3
SYMMETRY AnyClient
SPECIFICATION Spec
CHECK_DEADLOCK FALSE
INVARIANTS
  NoPortShared
  TruthfulOutcome
  RetryJustified
PROPERTIES
  RepeatedOverOthers
  ImplementsStore
