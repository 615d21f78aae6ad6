SPECIFICATION FairSpec
CONSTANTS
  s1 = s1
  s2 = s2
  s3 = s3
  m1 = m1
  m2 = m2
  m3 = m3
  p1 = p1
  d1 = d1
  Starts <- MCStarts
  Stops <- MCStops
  Deletes <- MCDeletes
  MonitorStop <- MCMonitorStop
  None = None
  MaxOverlap = 2
  MaxFailures = 2
CONSTRAINT Bounds
INVARIANTS
  InstanceMatchesStatus
PROPERTIES
  PendingEnds
  DeadInstanceForgotten
CHECK_DEADLOCK FALSE
