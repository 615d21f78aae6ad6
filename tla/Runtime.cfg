SPECIFICATION Spec
CONSTANTS
  i1 = i1
  i2 = i2
  i3 = i3
  k1 = k1
  k2 = k2
  Instances <- MCInstances
  Workspaces <- MCWorkspaces
  Cleaners <- MCCleaners
  NoOne = NoOne
  MinId = 63
  MaxId = 64
  MaxFailures = 2
SYMMETRY MCSymmetry
INVARIANTS
  NoSharedAddress
  NothingLeft
CHECK_DEADLOCK FALSE
