SPECIFICATION Spec
CONSTANTS
  pa = pa
  pb = pb
  None = None
  NumDocs = 1
  Paths <- OnePath
  Initial = {1}
  Home <- HomeOne
  OtherActs = 2
  OtherKinds = {"delete", "restore"}
  MaxNotes = 1
  DeleteCarriesVersion = FALSE
  RetryReturnsAny = FALSE
  PersonActs = 1
  PersonKinds = {}
  Faults = 0
  FaultKinds = {}
  PageSize = 2
  EditorRace = FALSE
PROPERTIES DeletionsUndone
