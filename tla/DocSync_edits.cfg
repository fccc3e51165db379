SPECIFICATION Spec
CONSTANTS
  pa = pa
  pb = pb
  None = None
  NumDocs = 1
  Paths <- OnePath
  Initial = {1}
  Home <- HomeOne
  OtherActs = 2
  OtherKinds = {"save", "lock"}
  MaxNotes = 1
  DeleteCarriesVersion = TRUE
  RetryReturnsAny = FALSE
  PersonActs = 2
  PersonKinds = {"save", "rm", "take", "rmcopy"}
  Faults = 1
  FaultKinds = {"crash", "offline", "lost", "half", "error", "refuse", "listing"}
  PageSize = 2
  EditorRace = FALSE
INVARIANTS CopyIsTheBase
PROPERTIES UploadsOnWhatWasSeen KeepsPromise
