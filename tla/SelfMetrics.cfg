SPECIFICATION Spec
CONSTANTS
  GOMAXPROCS = 2
  Horizon = 12
  MaxGC = 2
INVARIANTS
  FrozenWithoutGC
  FreshUsableCovers
CHECK_DEADLOCK FALSE
