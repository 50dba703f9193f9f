SPECIFICATION Spec
CONSTANTS
  Sessions = {s1, s2}
  Holdings = {h1, h2}
  p1 = p1
  p2 = p2
  l1 = l1
  l2 = l2
  Partners = {p1}
  Invoices = {1}
  Lines = {l1}
  PartnersOf <- PartnersOne
  MoveOf <- MoveSame
  Posted <- One
  NoRow = NoRow
  MaxFaults = 0
  MaxChanges = 1
  MaxCrashes = 0
SYMMETRY Symmetry
PROPERTIES
  HoldingsIsolated
  NoStaleOverwrite
CHECK_DEADLOCK FALSE
