SPECIFICATION FairSpec
CONSTANTS
  Procs = {p1}
  None = None
  Totals = {2}
  Amounts = {1}
  DueDates <- MCDueDates
  MaxDay = 1
  MaxPaid = 2
  MaxLinks = 1
  MaxSessions = 1
  MaxFaults = 0
  MaxCrashes = 0
PROPERTY KeepsItsStatus
CHECK_DEADLOCK FALSE
