SPECIFICATION Spec
CONSTANTS
  Procs = {p1, p2}
  Browsers = {b1, b2}
  None = None
  MaxVersions = 2
  MaxAttempts = 1
  MaxAnswers = 2
  MaxFaults = 0
  MaxCrashes = 0
SYMMETRY Interchangeable
INVARIANTS
  OneOnlineResponse
  CountersignsTheAccepted
CHECK_DEADLOCK FALSE
