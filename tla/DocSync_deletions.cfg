SPECIFICATION Spec
CONSTANTS
  pa = pa
  pb = pb
  None = None
  NumDocs = 1
  Paths <- OnePath
  Initial = {1}
  Home <- HomeOne
  OtherActs = 3
  OtherKinds = {"delete", "restore", "access", "trim"}
  MaxNotes = 1
  DeleteCarriesVersion = TRUE
  RetryReturnsAny = FALSE
  PersonActs = 1
  PersonKinds = {"save"}
  Faults = 1
  FaultKinds = {"crash", "error", "listing"}
  PageSize = 2
  EditorRace = FALSE
INVARIANTS TypeOK
PROPERTIES DeletionsUndone
