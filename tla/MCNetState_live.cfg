SPECIFICATION FairSpec
CONSTANTS
  Tx = {t1}
  Iface = {nm0, wg0}
  Foreign = {wg0}
  Peer = {p1}
  Prefix = {d1}
  None = None
  Operator = Operator
  Faults = {"refuse", "undo", "boot", "save"}
  OperatorRaces = FALSE
  MaxCrashes = 1
PROPERTIES ApplyTerminates ServiceReturns
CHECK_DEADLOCK FALSE
