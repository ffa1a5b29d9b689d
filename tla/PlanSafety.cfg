SPECIFICATION FairSpec
CONSTANTS
  g1 = g1
  g2 = g2
  bad = bad
  r1 = r1
  r2 = r2
  w1 = w1
  w2 = w2
  NoShape = NoShape
  Shapes = {g1, bad}
  GoodShapes = {g1}
  Requests = {r1, r2}
  Workers = {w1, w2}
  TreeSize = 2
  MaxRegen = 2
  OrphansSurvive = FALSE
  MaxRestarts = 2
  MaxFaults = 0
  MaxLost = 1
INVARIANTS
  TypeOK
  OneWorker
  TransientHasWorker
  TwoHumanGates
  JournalCoversTracker
  NoDuplicateTree
  CreatedIsComplete
  CancelledIsSwept
  RegenBounded
PROPERTIES
  HandleSurvives
  PhasesEnd
  ImplementsLifecycle
