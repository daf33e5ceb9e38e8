\* Two drifts, the second before the first is known to be repaired.
SPECIFICATION FairSpec
CONSTANTS
  Conns = {1, 2}
  InPorts = {1, 2}
  OutPorts = {1, 2}
  OpIds <- CommandIds
  CacheSize = 4096
  Sets <- PairSets
  Watched <- NoPorts
  Troubles <- TwoDrifts
  MaxReconciles = 5
PROPERTIES
  EventuallyRepaired
