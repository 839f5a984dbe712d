SPECIFICATION Spec
CONSTANTS
  Procs = {p1}
  None = None
  Totals = {1, 2}
  Amounts = {1}
  DueDates <- MCDueDates
  MaxDay = 0
  MaxPaid = 0
  MaxLinks = 1
  MaxSessions = 1
  MaxFaults = 1
  MaxCrashes = 0
INVARIANT VoidStopsTheMoney
CHECK_DEADLOCK FALSE
