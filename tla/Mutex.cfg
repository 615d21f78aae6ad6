SPECIFICATION FairSpec
CONSTANTS
  w1 = w1
  w2 = w2
  c1 = c1
  c2 = c2
  c3 = c3
  Workflows <- MCWorkflows
  Calls <- MCCalls
  InitiatorOf <- MCInitiatorOf
  LongLived <- MCNone
  NoCall = NoCall
  MaxFaults = 1
  MaxRequests = 2
INVARIANTS
  Exclusive
  NoForgottenWaiter
PROPERTIES
  ImplementsLock
  WaiterServed
CHECK_DEADLOCK FALSE
