SPECIFICATION Spec
CONSTANTS
  g1 = g1
  g2 = g2
  bad = bad
  r1 = r1
  r2 = r2
  w1 = w1
  w2 = w2
  NoShape = NoShape
  Shapes = {g1, g2, bad}
  GoodShapes = {g1, g2}
  Requests = {r1}
  Workers = {w1, w2}
  TreeSize = 2
  MaxRegen = 1
  OrphansSurvive = FALSE
  MaxRestarts = 0
  MaxFaults = 1
  MaxLost = 1
SYMMETRY Symmetry
INVARIANTS
  TwoHumanGates
