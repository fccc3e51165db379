SPECIFICATION Spec
CONSTANTS
  c1 = c1
  c2 = c2
  Durable = 9
  Runs = {1, 2}
  DurableRuns = {}
  Conns = {c1}
  ConnOf <- ConnOfRun
  Overlap = TRUE
  Events = 1
  Undecodable = {}
  Faults = 1
  FaultKinds = {"cancel"}
INVARIANTS Watching
CHECK_DEADLOCK FALSE
