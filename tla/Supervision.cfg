SPECIFICATION Spec
CONSTANTS
  MaxRestarts = 2
  Window = 7
  BackoffBase = 1
  BackoffCap = 2
  ResetUptime = 3
  HealthTimeout = 2
  Grace = 1
  Tight = 1
INVARIANTS
  SignalledOnExit
  FatalOnlyForCause
  TightLoopEscalates
PROPERTIES
  NothingHangs
CHECK_DEADLOCK FALSE
