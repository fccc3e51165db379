SPECIFICATION DaemonSpec
CONSTANTS
  f1 = f1
  f2 = f2
  sub = sub
  root = root
  d1 = d1
  d2 = d2
  old = old
  r1 = r1
  r2 = r2
  u1 = u1
  u2 = u2
  Files = {f1}
  Root = root
  Folders = {sub}
  Home <- HomeOfFile
  UnavailableAfter = 1
  PingGranted = TRUE
  Acts = 3
  ActKinds = {"key", "module", "bus", "login", "stop", "error", "denied", "closed", "start"}
  Edits = 2
  AlertFiles = {f1, f2, sub}
  Every = 3
  Quiet = 2
  MaxGather = 2
  Horizon = 9
  Daemons = {d1, d2}
  Olds = {old}
  Instances = {root}
  Roots = {r1, r2}
  Users = {u1, u2}
  InstanceOf <- OneInstance
  RootOf <- RootOfEach
  UserOf <- UserOfEach
  Papers = {f1, f2}
  Nobody = Nobody
  Starts = 5
CHECK_DEADLOCK FALSE
INVARIANTS StatusHonest OutageToldOnce ToldInTime StateServesOne MigrationSafe
PROPERTIES StopsWell EditsSent
