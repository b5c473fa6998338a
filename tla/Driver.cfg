SPECIFICATION SafetySpec
CONSTANTS
  Cap = 1
  w1 = w1
  w2 = w2
  Workers <- MCWorkers
  MaxCalls = 3
  MaxSamples = 1
SYMMETRY MCSymmetry
INVARIANTS
  AccountingAtReport
  ReportSkew
  NeverDiluted
  SampleErrorExplains
  WindowOpensOnPlateau
  WindowClosesAtTheEnd
PROPERTY
  CountersFrozen
