SPECIFICATION Spec
CONSTANTS
  Connections = {c1, c2}
  root = root
  bob = bob
  noText = noText
  pw = pw
  pwSpaced = pwSpaced
  Logins <- MCLogins
  Texts <- MCTexts
  Empty = noText
  Trim <- MCTrim
  Users <- FewUsers
  Apps <- OneApp
  Davs <- NoDavs
  InitialConfigs <- MCInitial
  Blank = Blank
  Torn = Torn
  None = None
  Faults = FALSE
  MaxBuilds = 2
  MaxUsers = 3
CHECK_DEADLOCK FALSE
INVARIANT AckedIsStored
