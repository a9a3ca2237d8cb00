SPECIFICATION FairSpec
CONSTANTS
  Conns = {k1, k2}
  MaxVersion = 2
  MaxSignals = 2
CHECK_DEADLOCK FALSE
INVARIANTS
  TypeOK
  ReloadTakesEffect
  CutReloadTakesEffect
PROPERTIES
  ReloadIsServed
  TakenSignalStops
