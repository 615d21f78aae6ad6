SPECIFICATION Spec
CONSTANTS
  ann = ann
  bob = bob
  one = one
  two = two
  Users <- MCUsers
  Projects <- MCProjects
  Initial <- MCInitial
  Shared = Shared
  Requests = {r1, r2}
  NoUser = NoUser
  NoProject = NoProject
  MaxChanges = 2
  MaxFaults = 2
INVARIANTS LoginsTakeTurns LoadRestoresEnv
PROPERTY DumpKeepsFile
SYMMETRY MCSymmetry
CHECK_DEADLOCK FALSE
