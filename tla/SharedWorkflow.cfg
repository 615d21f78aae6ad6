SPECIFICATION FairSpec
CONSTANTS
  r1 = r1
  r2 = r2
  Callers <- TwoCallers
  NoCaller = NoCaller
  MaxFaults = 1
  MaxRepeats = 2
INVARIANTS
  NoForgottenWaiter
  InnocentNotCancelled
PROPERTIES
  WaiterServed
CHECK_DEADLOCK FALSE
