SPECIFICATION MemSpec
CONSTANTS
  ann = ann
  bob = bob
  r1 = r1
  r2 = r2
  r3 = r3
  Persons = {ann, bob}
  Requests = {r1, r2, r3}
  OpsOf <- DeleteLast
  StartUsers <- UsersTwo
  StartWorkspaces <- WorkspacesTwo
  StartId <- FirstId
  Earlier = Earlier
  MaxFaults = 0
PROPERTIES
  MainNotDeleted
CHECK_DEADLOCK FALSE
