SPECIFICATION TokenSpec
CONSTANTS
  p1 = p1
  None = None
  Procs = {p1}
  Locks = TRUE
  Expiries = 2
  MaxTroubles = 1
  Troubles = {"save"}
PROPERTIES AliveIsUsed
