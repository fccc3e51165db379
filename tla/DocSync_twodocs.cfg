SPECIFICATION Spec
CONSTANTS
  pa = pa
  pb = pb
  None = None
  NumDocs = 2
  Paths <- TwoPaths
  Initial = {1}
  Home <- HomeTwo
  OtherActs = 2
  OtherKinds = {"save", "delete", "create", "move"}
  MaxNotes = 1
  DeleteCarriesVersion = TRUE
  RetryReturnsAny = FALSE
  PersonActs = 1
  PersonKinds = {"save"}
  Faults = 1
  FaultKinds = {"crash", "lost", "half", "reconnect"}
  PageSize = 2
  EditorRace = FALSE
INVARIANTS RecordHonest FeedApplied
PROPERTIES KeepsPromise
