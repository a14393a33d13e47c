SPECIFICATION MCSpec
CONSTANTS
  l1 = l1
  s1 = s1
  s2 = s2
  s3 = s3
  n1 = n1
  n2 = n2
  Budget = 3
  LatencyJobs = {l1}
  SpeedJobs = {s1, s2, s3}
  Nodes = {n1, n2}
  NumSlots = 2
  QueueCap = 1
  MaxSetting = 3
  MaxEdits = 1
  MaxPublishes = 1
  None = None
INVARIANTS TypeOK SlotsOwned SlotForEachTest MeasuresOwnNode
PROPERTIES SlotsLent TestsSettle
