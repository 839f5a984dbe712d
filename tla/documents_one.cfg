SPECIFICATION FairSpec
CONSTANTS
  Procs = {p1}
  Browsers = {b1}
  None = None
  MaxVersions = 2
  MaxAttempts = 2
  MaxAnswers = 2
  MaxFaults = 1
  MaxCrashes = 1
INVARIANTS
  TypeOK
  OnlyTheSendCounts
  SentReachedEveryone
  ManifestTellsTheTruth
  PagesTellTheTruth
  LinkedRecordExists
PROPERTIES
  LifeSpec
  StoredAnswerSettles
CHECK_DEADLOCK FALSE
