SPECIFICATION Spec
CONSTANTS
  Order <- MCOrder2
  MaxPasses = 1
INVARIANT
  EmptyReportWarns
