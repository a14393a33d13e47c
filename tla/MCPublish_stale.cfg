SPECIFICATION Spec
CONSTANTS
  p1 = p1
  Budget = 1
  Pools = {p1}
  Nodes = {n1}
  Secrets = {s1}
  HighPools = {}
  Publishers = {g1, g2}
  Hurried = {}
  MayCrash = FALSE
  MaxEdits = 1
  MaxRuns = 2
  All = All
  None = None
  Missing = Missing
  Empty = Empty
  Mixed = Mixed
INVARIANT PublishedIsLive
CHECK_DEADLOCK FALSE
