SPECIFICATION MemSpec
CONSTANTS
  ann = ann
  bob = bob
  r1 = r1
  r2 = r2
  r3 = r3
  Persons = {ann, bob}
  Requests = {r1, r2, r3}
  OpsOf <- AnyOps
  StartUsers <- UsersTwo
  StartWorkspaces <- WorkspacesTwo
  StartId <- FirstId
  Earlier = Earlier
  MaxFaults = 1
SYMMETRY Alike
INVARIANTS
  MemTypeOK
  MemberOnce
  ProfileOnce
PROPERTIES
  LoginProvides
  RemovedRehomed
  DeletesAsChecked
CHECK_DEADLOCK FALSE
