SPECIFICATION FairSpec
CONSTANTS
  Elsewhere = TRUE
  Crowded = TRUE
  MaxVisits = 8
  MaxRestarts = 1
  MaxFaults = 1
INVARIANTS
  CursorNotAhead
  NothingForgotten
  DuplicatesBounded
PROPERTIES
  Delivered
CHECK_DEADLOCK FALSE
