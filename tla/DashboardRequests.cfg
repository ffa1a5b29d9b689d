SPECIFICATION Spec
CONSTANTS
  Requests = {"r1", "r2", "r3"}
  Mixes <- MCMixes
  Concurrency = 1
  MaxVersion = 2
  MaxFaults = 1
INVARIANTS
  TypeOK
  RevokedWritesNothing
  ReadYourWrites
PROPERTIES
  EveryRequestAnswered
CHECK_DEADLOCK FALSE
