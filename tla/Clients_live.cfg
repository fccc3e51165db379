SPECIFICATION ClientsSpec
CONSTANTS
  p1 = p1
  p2 = p2
  None = None
  Procs = {p1, p2}
  Locks = TRUE
  Expiries = 2
  MaxTroubles = 2
  Troubles <- EveryKind
  c1 = c1
  c2 = c2
  Durable = 9
  Runs = {1, 2, 3}
  DurableRuns = {2, 3}
  Conns = {c1, c2}
  ConnOf <- ConnOfRun
  Overlap = FALSE
  Events = 2
  Undecodable = {2}
  Faults = 2
  FaultKinds = {"slow", "ack", "acklost", "handler", "cancel", "refuse", "crash", "unable"}
INVARIANTS Serial StoreLive PositionHonest NothingSkipped
PROPERTIES NotLoggedOut LockReleased Resumes
CHECK_DEADLOCK FALSE
