SPECIFICATION FairSpec
CONSTANTS
  States = {"c1", "c2", "p1"}
  Alarms = {"a1"}
  Silent = {"p1"}
  Values = {"up", "down"}
  Paths <- DevicePaths
  ReadCount = 2
  MaxWrites = 3
  MaxFails = 1
INVARIANT NothingMissed
PROPERTIES NeverBack CatchesUp
