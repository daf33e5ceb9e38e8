CONSTANTS
  Conns = {a}
  MaxBatch = 1
  MaxRevision = 2
  MaxRetries = 1
  Troubles <- AllTogether
SPECIFICATION Spec
INVARIANTS
  TypeOK
  NothingNewer
  NoDuplicateCommand
  RetryBound
PROPERTIES
  MatrixNeverBack
