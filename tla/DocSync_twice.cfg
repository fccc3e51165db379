SPECIFICATION Spec
CONSTANTS
  pa = pa
  pb = pb
  None = None
  NumDocs = 2
  Paths <- TwoPaths
  Initial = {}
  Home <- HomeTwo
  OtherActs = 1
  OtherKinds = {"move"}
  MaxNotes = 1
  DeleteCarriesVersion = TRUE
  RetryReturnsAny = FALSE
  PersonActs = 1
  PersonKinds = {"save"}
  Faults = 1
  FaultKinds = {"lost"}
  PageSize = 2
  EditorRace = FALSE
INVARIANTS CreatedOnce
