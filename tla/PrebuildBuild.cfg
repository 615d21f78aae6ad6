SPECIFICATION FairSpec
CONSTANTS
  e1 = e1
  e2 = e2
  Events <- MCEvents
  NoEvent = NoEvent
  MaxAttempts = 2
  MaxCancels = 2
  MaxFaults = 1
INVARIANTS
  SuccessHasImages
  OutcomeIsFinal
  FailureHasCause
  SuccessfulBuildHasImage
PROPERTIES
  BuildRunsOnce
  PrebuildEnds
CHECK_DEADLOCK FALSE
CONSTRAINT OneOfTwins
