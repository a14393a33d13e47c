SPECIFICATION Spec
CONSTANTS
  Main = Main
  Calls = {c1}
  Pids = {p1, p2, p3, p4}
  CallOps = {"bundle"}
  None = None
  SystemMayFail = FALSE
  MaxCrashes = 1
INVARIANT StoppedBeforeExit
