SPECIFICATION FairSpec
CONSTANTS
  Sessions = {s1}
  Holdings = {h1}
  p1 = p1
  p2 = p2
  l1 = l1
  l2 = l2
  Partners = {p1, p2}
  Invoices = {1, 2}
  Lines = {l1, l2}
  PartnersOf <- PartnersOne
  MoveOf <- MoveEach
  Posted <- One
  NoRow = NoRow
  MaxFaults = 2
  MaxChanges = 2
  MaxCrashes = 1
INVARIANTS
  TypeOK
  AckedJobsExist
  ScansCover
  QuietSessionsHaveNoErrors
  LogNeverAheadOfWork
PROPERTIES
  ImplementsJobLog
  ProgressNeverGoesBack
  SessionsEnd
  QuietSessionsComplete
CHECK_DEADLOCK FALSE
