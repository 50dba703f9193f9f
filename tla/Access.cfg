SPECIFICATION AccessSpec
CONSTANTS
  Parts = {"addresses", "roles", "policies"}
  Ips = {i1}
  Admins = {d1, d2, d3}
  Visitors = {n1}
  Reporters = {q1}
  NoIp = NoIp
  Attempts = 3
  Terms <- TermsSeen
  ViolationPoints = {100}
  Threshold = 100
  OneDay = 1
  LastTime = 1
  MaxFailures = 1
  t1 = t1
  t2 = t2
  t3 = t3
  m1 = m1
  m2 = m2
  m3 = m3
  x = x
  y = y
  ra = ra
  rb = rb
  rc = rc
  sa = sa
  sb = sb
  PermIds = {m1, m2, m3}
  PermCodes = {x, y}
  RoleIds = {ra, rb, rc}
  Spaces = {sa, sb}
  RoleCalls = {t1, t2, t3}
  Bodies <- BodiesSeen
  Tasks <- TasksSeen
  NoPerm = NoPerm
  GonePerm = GonePerm
  NoRole = NoRole
  NoSpace = NoSpace
  StartPerms <- PermsTwo
  StartRoles <- RolesTwo
  StartListed <- ListedTwo
  MaxRefusals = 1
  Configured <- TableOrder
  PoliciesOf <- PoliciesEach
  RlsRuns = {g1, g2}
  Targets <- TargetsSeen
  All = All
  DbTables <- MostTables
  MaxBreaks = 1
SYMMETRY Alike
INVARIANTS
  AccessTypeOK
  FilterFollowsLists
  ChangesStand
  RefsLive
  CodesOnce
  SpaceRolesListed
  ShownAsGiven
  PoliciesKept
CHECK_DEADLOCK FALSE
