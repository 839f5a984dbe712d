SPECIFICATION Spec
CONSTANTS
  Ids = {1}
  Procs = {cli}
  None = None
  cli = cli
  CycleMonths = 1
  Lengths <- MCLengths
  AnchorDays = {1, 3}
  Autosends = {FALSE}
  LastMonth = 3
  MaxCrashes = 0
INVARIANTS ForgivenStaysForgiven
