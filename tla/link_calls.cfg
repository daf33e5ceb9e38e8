CONSTANTS
  Conns = {1, 2}
  InPorts = {1, 2}
  OutPorts = {1, 2}
  OpIds = {1, 2, 3}
  CacheSize = 2
  Slots = {s1, s2}
  Batch <- ThreeCommands
  IdSpan = 2
  MaxTroubles = 2
SPECIFICATION FairSpec
CHECK_DEADLOCK FALSE
INVARIANTS
  MapsAgree
  LiveOpRunsOnce
  FailureHasCause
  NoStrayReply
PROPERTIES
  LateRequestHarmless
  EveryCommandSettles
