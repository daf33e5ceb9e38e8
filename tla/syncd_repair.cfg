\* Two connections, with fair loops.
SPECIFICATION FairSpec
CONSTANTS
  Conns = {1, 2}
  InPorts = {1, 2}
  OutPorts = {1, 2}
  OpIds <- CommandIds
  CacheSize = 4096
  Sets <- PairSets
  Watched <- InputOne
  Troubles <- Undone
  MaxReconciles = 5
PROPERTIES
  EventuallyRepaired
