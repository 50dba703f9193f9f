SPECIFICATION Spec
CONSTANTS
  Sessions = {s1}
  Holdings = {h1}
  p1 = p1
  p2 = p2
  l1 = l1
  l2 = l2
  Partners = {p1}
  Invoices = {1}
  Lines = {l1}
  PartnersOf <- PartnersOne
  MoveOf <- MoveSame
  Posted <- One
  NoRow = NoRow
  MaxFaults = 1
  MaxChanges = 0
  MaxCrashes = 0
PROPERTIES
  FailureRecorded
CHECK_DEADLOCK FALSE
