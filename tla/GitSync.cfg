SPECIFICATION SyncSpec
CONSTANTS
  main = main
  dev = dev
  a = a
  b = b
  p1 = p1
  p2 = p2
  Branches <- MCBranches
  Commits <- MCCommits
  Projects <- MCProjects
  Default = main
  First = p1
  Absent = Absent
  Sync = Sync
  Nobody = Nobody
  MaxActions = 3
  MaxSyncFaults = 1
INVARIANTS
  HeadServed
  CreatedAreStarted
  FirstPrebuildIsNew
SYMMETRY Symmetry
