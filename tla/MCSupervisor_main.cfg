SPECIFICATION MCSpec
CONSTANTS
  Main = Main
  Calls = {c1}
  Pids = {p1, p2, p3}
  CallOps = {"bundle", "single", "activate"}
  None = None
  SystemMayFail = TRUE
  MaxCrashes = 1
INVARIANTS TypeOK TrackedWatched AnnouncedDoomed NoSilentDeath
PROPERTIES BackoffHeld Restored AnnouncementsConsumed
