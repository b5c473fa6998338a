SPECIFICATION PacedSpec
CONSTANTS
  Cap = 1
  w1 = w1
  Workers <- MCWorkers
  MaxCalls = 4
  MaxSamples = 0
  Slice = 2
  Profiles <- MCProfiles
PROPERTIES
  ImplementsDriver
  CancelledRunEnds
  RunEnds
