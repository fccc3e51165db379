SPECIFICATION FairSpec
CONSTANTS
  pa = pa
  pb = pb
  None = None
  NumDocs = 1
  Paths <- OnePath
  Initial = {1}
  Home <- HomeOne
  OtherActs = 2
  OtherKinds = {"save", "delete", "restore", "access", "lock", "trim"}
  MaxNotes = 1
  DeleteCarriesVersion = TRUE
  RetryReturnsAny = FALSE
  PersonActs = 1
  PersonKinds = {"save", "rm"}
  Faults = 1
  FaultKinds = {"crash", "error", "listing", "overflow"}
  PageSize = 2
  EditorRace = FALSE
INVARIANTS TypeOK
PROPERTIES DeletionsUndone Settles DeletedComesBack
