SPECIFICATION FairSpec
CONSTANTS
  Procs = {p1}
  None = None
  Totals = {1, 2}
  Amounts = {1}
  DueDates <- MCDueDates
  MaxDay = 1
  MaxPaid = 3
  MaxLinks = 2
  MaxSessions = 2
  MaxFaults = 1
  MaxCrashes = 1
INVARIANTS
  TypeOK
  LinkPricedRight
  StatusTellsTheTruth
  PageTellsTheTruth
  SentReachedTheClient
PROPERTIES
  PaidSessionSettles
  LifeSpec
CHECK_DEADLOCK FALSE
