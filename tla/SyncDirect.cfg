SPECIFICATION DirectSpec
CONSTANTS
  Sessions = {s1, s2}
  Direct = {s2}
  Holdings = {h1}
  DirectHolding = h1
  p1 = p1
  Partners = {p1}
  Invoices = {1}
  Lines = {l1}
  PartnersOf <- PartnersOne
  MoveOf <- MoveSame
  Posted <- One
  Windows <- FirstPages
  NoRow = NoRow
  MaxFaults = 1
  MaxChanges = 1
  MaxCrashes = 1
INVARIANTS
  DirectTypeOK
  LineRefsInvoice
  DuplicatesNeedOverlap
  BatchStaged
PROPERTIES
  ImplementsStaging
CHECK_DEADLOCK FALSE
