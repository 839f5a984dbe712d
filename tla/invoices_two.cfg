SPECIFICATION Spec
CONSTANTS
  Procs = {p1, p2}
  None = None
  Totals = {1, 2}
  Amounts = {1}
  DueDates <- MCDueDates
  MaxDay = 0
  MaxPaid = 2
  MaxLinks = 1
  MaxSessions = 1
  MaxFaults = 0
  MaxCrashes = 0
SYMMETRY Symmetry
INVARIANTS
  EachPaymentOnce
CHECK_DEADLOCK FALSE
