CONSTANTS
  Conns = {a}
  MaxBatch = 1
  MaxRevision = 2
  MaxRetries = 1
  Troubles <- FaultsAndCrash
SPECIFICATION FairSpec
INVARIANTS
  WaitHasRetry
  SuccessClearsAlarm
PROPERTIES
  EventsAcknowledged
  Settles
