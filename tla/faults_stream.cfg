SPECIFICATION FairSpec
CONSTANTS
  Conns = {1}
  InPorts = {1}
  OutPorts = {1}
  OpIds = {"o1"}
  CacheSize = 2
  Requests <- SomeRequests
  MaxCommands = 3
  MaxCrashes = 1
  MaxLosses = 1
INVARIANTS PortsAsCommanded NoFalseSuccess
PROPERTY StreamDrains
CHECK_DEADLOCK FALSE
