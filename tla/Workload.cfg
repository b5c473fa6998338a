SPECIFICATION Spec
CONSTANTS
  Workers = {0, 1}
  PoolSize = 4
  Regimes = {"h2", "grpc"}
  MaxCalls = 6
  MixDraws <- MCMixDraws
  GenDraws <- MCGenDraws
INVARIANTS
  TypeOK
  SameCallsPerWorker
  PoolWalk
  OnlyTheErrorPathFails
  PoolHoldsGenerated
CHECK_DEADLOCK FALSE
