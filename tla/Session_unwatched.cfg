SPECIFICATION FairSpec
CONSTANTS
  f1 = f1
  sub = sub
  root = root
  Files = {f1}
  Root = root
  Folders = {sub}
  Home <- HomeOfFile
  UnavailableAfter = 1
  PingGranted = TRUE
  Acts = 2
  ActKinds = {"folder", "module", "bus"}
  Edits = 1
CHECK_DEADLOCK FALSE
PROPERTIES EditsSent
