SPECIFICATION Spec
CONSTANTS
  Plans = {"p1", "p2"}
  MaxRequests = 2
  Hard = 1
  Cap = 2
  Days = 1
  MaxCrashes = 1
  MaxFaults = 1
INVARIANTS
  TypeOK
  UnknownSpendLocks
  DailyOvershoot
  PlanOvershoot
PROPERTIES
  Settles
CHECK_DEADLOCK FALSE
