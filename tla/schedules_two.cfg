SPECIFICATION Spec
CONSTANTS
  Ids = {1}
  Procs = {cron, shell}
  None = None
  cron = cron
  shell = shell
  CycleMonths = 1
  Lengths <- MCShortest
  AnchorDays = {2}
  Autosends = {TRUE}
  LastMonth = 2
  MaxCrashes = 1
SYMMETRY Commands
PROPERTIES LedgerSpec
