SPECIFICATION Spec
CONSTANTS
  Order <- MCOrder
  MaxPasses = 2
INVARIANTS
  SequentialUnlessLeftBehind
  CollectedIsFresh
  EveryCellSettled
PROPERTIES
  CollectedIsComplete
  ScriptEnds
