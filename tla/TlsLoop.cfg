SPECIFICATION BusySpec
CONSTANTS
  Conns = {k1, k2}
  MaxVersion = 1
  MaxGens = 2
  MaxSignals = 1
CHECK_DEADLOCK FALSE
INVARIANTS
  TypeOK
  OneStaleAccept
PROPERTY ClearedFlagIsHeeded
