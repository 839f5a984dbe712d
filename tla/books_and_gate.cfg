SPECIFICATION DeskSpec
CONSTANTS
  Clerks = {p1, p2}
  None = None
  Names = {n1, n2}
  Opening <- MCOpening
  n1 = n1
  n2 = n2
  k1 = k1
  k2 = k2
  f0 = f0
  f1 = f1
  f2 = f2
  q1 = q1
  q2 = q2
  c1 = c1
  c2 = c2
  Keys = {k1, k2}
  Files = {f0, f1, f2}
  RowsOf <- MCRowsOf
  GustoFiles = {f2}
  Payroll <- MCPayroll
  Categories = {c1, c2}
  Patterns = {q1, q2}
  Fits <- MCFits
  Priorities = {0, 1}
  Uploads = {u1}
  Desks <- MCDesks
  MaxAccounts = 2
  MaxImports = 3
  MaxTransactions = 3
  MaxRules = 2
  Requests = {r1, r2}
  Nothing = Nothing
  Dirs = {d1, d2}
  Passwords = {w1, w2}
  MaxFaults = 1
  MaxOps <- MCMaxOps
  a1 = a1
  a2 = a2
  Filers = {a1, a2}
  Pdfs = {x1, x2}
  Gone = Gone
  MaxDocs = 2
  MaxVersions = 2
  Crews <- MCCrews
  MaxFilings <- MCMaxFilings
  MaxBackups <- MCMaxBackups
  MaxRestores <- MCMaxRestores
  MaxMishaps <- MCMaxMishaps
  Staff = {m1, m2}
  Unknown = Unknown
  ClientNames = {l1, l2}
  Emails = {e1, e2}
  MaxClients = 2
  FirstNumber = 3
  MaxNumber = 6
  Shelves = {{}, {1, 2}, {2, 5}}
  Trades <- MCTrades
  MaxJobs <- MCMaxJobs
INVARIANTS
  DeskTypeOK
  NoRowTwice
  OneRecordPerFile
  RecordedRowsAreThere
  NothingForgotten
  NobodyReadsARewrittenFile
  OpensTheServedBooks
  KeyFitsTheFile
  NothingFiledIsLost
  BackupIsWhole
PROPERTIES
  PersonDecides
  SweptClean
  NumbersNotReused
  EveryoneGetsTheirTurn
CHECK_DEADLOCK FALSE
