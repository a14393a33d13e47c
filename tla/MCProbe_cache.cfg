SPECIFICATION Spec
CONSTANTS
  l1 = l1
  s1 = s1
  s2 = s2
  s3 = s2
  n1 = n1
  n2 = n2
  Budget = 3
  LatencyJobs = {l1}
  SpeedJobs = {s1, s2}
  Nodes = {n1}
  NumSlots = 1
  QueueCap = 1
  MaxSetting = 1
  MaxEdits = 2
  MaxPublishes = 0
  None = None
PROPERTY SkippedMeansLoaded
