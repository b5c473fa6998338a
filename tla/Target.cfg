SPECIFICATION Spec
CONSTANTS
  Slots = {k1, k2}
  Bodies = {b1, b2}
  Malformed = {b2}
  NoBody = none
  Budget = 2
  Grace = 1
INVARIANTS
  CutOnlyOutOfTime
  EchoesOwn
PROPERTY
  DrainEnds
