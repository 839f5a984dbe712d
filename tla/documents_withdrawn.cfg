SPECIFICATION Spec
CONSTANTS
  Procs = {p1, p2}
  Browsers = {b1}
  None = None
  MaxVersions = 1
  MaxAttempts = 1
  MaxAnswers = 1
  MaxFaults = 0
  MaxCrashes = 0
INVARIANTS
  WithdrawnIsClosed
CHECK_DEADLOCK FALSE
