SPECIFICATION Spec
CONSTANTS
  repo = repo
  ws = ws
  tmp = tmp
  u1 = u1
  u2 = u2
  u3 = u3
  fetch = fetch
  commit = commit
  start1 = start1
  start2 = start2
  stop = stop
  boot = boot
  repoLock = repoLock
  NoLock = NoLock
  NoLun = NoLun
  NoJob = NoJob
  Booter = boot
  MaxBegins = 3
  Ids <- MCIds
  Luns <- MCLuns
  Hash <- MCHash
  Rehash <- MCRehash
  Reserved <- MCReserved
  Jobs <- MCJobs
  Kind <- MCKind
  Plan <- MCPlan
  Locks <- MCLocks
  LockOf <- MCLockOf
  p1 = p1
  t1 = t1
  d1 = d1
  d2 = d2
  w1 = w1
  Conns <- MCConns
  TestRuns <- MCRuns
  Databases <- MCDatabases
  Watches <- MCWatches
  ConnOf <- MCConnOf
  RunOf <- MCRunOf
  UploadsArtifacts = TRUE
  MaxMishaps = 1
INVARIANTS OwnDevice QuietCommit OnlyLateLeaks
PROPERTIES CleanStart JobsEnd ManagerEnds
CHECK_DEADLOCK FALSE
