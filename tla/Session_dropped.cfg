SPECIFICATION Spec
CONSTANTS
  f1 = f1
  sub = sub
  root = root
  Files = {f1}
  Root = root
  Folders = {sub}
  Home <- HomeOfFile
  UnavailableAfter = 1
  PingGranted = TRUE
  Acts = 1
  ActKinds = {"bus"}
  Edits = 0
CHECK_DEADLOCK FALSE
INVARIANTS StaysUp
