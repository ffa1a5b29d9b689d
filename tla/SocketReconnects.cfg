SPECIFICATION Spec
CONSTANTS
  Sockets = {s1, s2, s3}
  None = None
  MaxCalls = 2
  MaxFaults = 1
INVARIANTS
  OnlyCurrentLive
  NeverAbandoned
CHECK_DEADLOCK FALSE
