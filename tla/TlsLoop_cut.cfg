SPECIFICATION Spec
CONSTANTS
  Conns = {k1, k2}
  MaxVersion = 1
  MaxGens = 3
  MaxSignals = 1
CHECK_DEADLOCK FALSE
PROPERTY NoRequestCut
