SPECIFICATION Spec
CONSTANTS
  Tx = {t1, t2}
  Iface = {nm0, wg0}
  Foreign = {wg0}
  Peer = {p1, p2}
  Prefix = {d1}
  None = None
  Operator = Operator
  Faults = {"refuse", "save"}
  OperatorRaces = TRUE
  MaxCrashes = 1
SYMMETRY TxSymmetry
INVARIANTS FailedLeavesNothing JournalTellsCrash
CHECK_DEADLOCK FALSE
