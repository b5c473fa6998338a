SPECIFICATION Spec
CONSTANTS
  Order <- MCOrder2
  MaxPasses = 2
INVARIANT
  FailedCellFlagged
