SPECIFICATION Spec
CONSTANTS
  Cap = 2
  Slice = 3
  w1 = w1
  w2 = w2
  Workers <- MCWorkers
  Profiles <- MCProfiles
INVARIANTS
  NeverAhead
  Paced
  OverrunBounded
  NoEarlyRefusal
PROPERTIES
  ImplementsPermitSource
  StopHalts
  WaitReturns
CHECK_DEADLOCK FALSE
