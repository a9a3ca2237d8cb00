SPECIFICATION Spec
CONSTANTS
  Connections = {c1, c2}
  root = root
  bob = bob
  noText = noText
  pw = pw
  pwSpaced = pwSpaced
  Logins <- MCLogins
  Texts <- PlainTexts
  Empty = noText
  Trim <- PlainTrim
  Users <- FewUsers
  Apps <- NoApps
  Davs <- NoDavs
  InitialConfigs <- MCInitial
  Blank = Blank
  Torn = Torn
  None = None
  Faults = TRUE
  MaxBuilds = 2
  MaxUsers = 2
CHECK_DEADLOCK FALSE
CONSTRAINT Bound
SYMMETRY Symmetry
INVARIANTS
  TypeOK
  StoredConfigWellFormed
  SaverIsCurrentAdmin
  QuietFileIsReadable
  SequentialAckedIsStored
PROPERTY ChangesAreAtomic
