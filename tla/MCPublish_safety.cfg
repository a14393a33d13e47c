SPECIFICATION MCSpec
CONSTANTS
  p1 = p1
  Budget = 1
  Pools = {p1, p2}
  Nodes = {n1}
  Secrets = {s1, s2}
  HighPools = {p2}
  Publishers = {g1, g2}
  Hurried = {g1}
  MayCrash = TRUE
  MaxEdits = 1
  MaxRuns = 2
  All = All
  None = None
  Missing = Missing
  Empty = Empty
  Mixed = Mixed
INVARIANTS TypeOK Complete Exact SoloSettles
SYMMETRY Symmetric
CHECK_DEADLOCK FALSE
