SPECIFICATION AloneSpec
CONSTANTS
  Ids = {1, 2}
  Procs = {cli}
  None = None
  cli = cli
  CycleMonths = 1
  Lengths <- MCLengths
  AnchorDays = {1, 3}
  Autosends = {FALSE}
  LastMonth = 3
  MaxCrashes = 1
INVARIANTS TypeOK NoCycleLost BilledOnce
PROPERTIES BillsOnlyOpenCycles BilledInOrder EndSettlesEverything DueIsSettled
