CONSTANTS
  Conns = {a, b}
  MaxBatch = 2
  MaxRevision = 2
  MaxRetries = 1
  Troubles <- BatchTroubles
SPECIFICATION Spec
INVARIANTS
  TruthfulStatus
  RetryWholeBatch
  AlarmsCounted
  Agreement
PROPERTIES
  PublishedIsCurrent
