SPECIFICATION FairSpec
CONSTANTS
  Conns = {c1, c2}
  QueueCap = 1
  None = None
INVARIANTS TypeOK ClosedOrOwned SweepReachesRelays NothingDialsAfterShutdown
PROPERTIES ExitsUnlessLate QueuedServed
