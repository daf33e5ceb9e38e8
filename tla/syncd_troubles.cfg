\* Two connections: one Set with any two troubles; two Sets with a crash beside
\* a restart, a fault or a lost reply, or with two restarts.
SPECIFICATION Spec
CONSTANTS
  Conns = {1, 2}
  InPorts = {1, 2}
  OutPorts = {1, 2}
  OpIds <- CommandIds
  CacheSize = 4096
  Sets <- ReplacingSets
  Watched <- InputOne
  Troubles <- SomeTroubles
  MaxReconciles = 5
INVARIANTS
  LedgerBalanced
  NothingSilent
  DownIsAlarmed
  AlarmCountExact
PROPERTIES
  StateNeverBack
  ImplementsService
