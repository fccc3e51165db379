SPECIFICATION DaySpec
CONSTANTS
  pa = pa
  pb = pb
  None = None
  NumDocs = 1
  Paths <- OnePath
  Initial = {1}
  Home <- HomeOne
  OtherActs = 1
  OtherKinds = {"save"}
  MaxNotes = 1
  DeleteCarriesVersion = TRUE
  RetryReturnsAny = FALSE
  PersonActs = 2
  PersonKinds = {"save", "rmcopy"}
  Faults = 0
  FaultKinds = {}
  PageSize = 2
  EditorRace = FALSE
PROPERTIES MergeUploaded
