SPECIFICATION FairSpec
CONSTANTS
  Conns = {c1}
  QueueCap = 1
  None = None
PROPERTY RestartExits
