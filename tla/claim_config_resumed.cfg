CONSTANTS
  Conns = {a}
  MaxBatch = 1
  MaxRevision = 2
  MaxRetries = 1
  Troubles <- OneOfEach
SPECIFICATION FairSpec
PROPERTIES
  EventsAcknowledged
