SPECIFICATION LibrarySpec
CONSTANTS
  Calls = {1, 2}
  CallKinds = {"command", "kv", "write", "contract", "ping", "registry"}
  Cuts = 1
  Rows = {1, 2, 3, 4}
  PageLimit = 2
  Acts = 2
  Empties = 2
  Variants <- TaskOrRequirement
  IntegerNames = {"id"}
  Numerals = {"1"}
  Typed <- SmallExpressions
  Entities = {"", "task"}
  MaxTyped = 3
  Services = {agent, daemon}
  Credentials = {1, 2}
  Moves = 1
  Mints = 3
  Mischiefs = 1
  People = {ana, ben}
  Ids = {1, 2}
  Places = {1, 2}
  Kinds = {"new", "put", "rm", "restore", "mv", "relate", "edit", "lock", "unlock"}
  Refs = {"id", "path"}
  MaxOrders = 2
  Mishaps = 1
  FolderNames = {1, 2}
  Filed = {1, 2}
  Depth = 3
  Intervals = {0, 1, 3}
  Lifetimes = {0, 4}
  DefaultInterval = 2
  DefaultLifetime = 9
  BackOff = 2
  Latency = 1
  SlowDowns = 2
  RelationKeys = {"clients", "projects"}
  Listed <- ListsOfOne
  Added <- ListsToAdd
  Lines = {"core", "docs", "other", "blank", "nonsense"}
  MaxLines = 3
  Turns = 2
  Callers = {1, 2}
  MaxIds = 2
  MaxSaves = 2
  MaxLost = 1
  Upsets = 1
  SyncFields = {"include", "exclude", "level"}
  ConnectFields = {"creds", "clientId", "keyFile", "timeout"}
SYMMETRY AnyOfThem
CHECK_DEADLOCK FALSE
INVARIANTS CallsHonest SweepComplete FilterMeansIt RightCredential MoveHeals MadeFromRead OnceEach EditSafe LsComplete LoginHeard AddKeeps BatchHonest LinksOpen DoctorHonest LayersHold
