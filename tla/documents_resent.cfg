SPECIFICATION Spec
CONSTANTS
  Procs = {p1}
  Browsers = {b1}
  None = None
  MaxVersions = 1
  MaxAttempts = 2
  MaxAnswers = 2
  MaxFaults = 1
  MaxCrashes = 0
INVARIANTS
  SentCanBeAnswered
CHECK_DEADLOCK FALSE
