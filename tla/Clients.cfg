SPECIFICATION Spec
CONSTANTS
  Workers = {w1, w2}
  Objects = {o1, o2}
  NoObject = none
  Conns = 1
  MaxStreams = 2
  ServerStreams = 3
  MaxLen = 1
INVARIANTS
  NoRefusedStream
  SpeaksItsProtocol
PROPERTIES
  ImplementsCalls
  CallsReturn
