SPECIFICATION StartupSpec
CONSTANTS
  d1 = d1
  d2 = d2
  old = old
  i1 = i1
  i2 = i2
  r1 = r1
  u1 = u1
  Daemons = {d1, d2}
  Olds = {old}
  Instances = {i1, i2}
  Roots = {r1}
  Users = {u1}
  InstanceOf <- InstanceOfEach
  RootOf <- OneRoot
  UserOf <- OneUser
  Papers = {}
  Nobody = Nobody
  Starts = 4
CHECK_DEADLOCK FALSE
INVARIANTS OldNeverRobbed
