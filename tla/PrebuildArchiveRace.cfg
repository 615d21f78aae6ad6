SPECIFICATION Spec
CONSTANTS
  c1 = c1
  c2 = c2
  u1 = u1
  m1 = m1
  Creators <- MCCreators
  Users <- MCUsers
  Monitors <- MCMonitors
  NoOne = NoOne
  CreateFor = 1
  ArchiveFor = 2
  MaxTime = 2
  MaxFaults = 1
PROPERTIES
  ArchiveExcludesCreate
CHECK_DEADLOCK FALSE
