SPECIFICATION Spec
CONSTANTS
  Tx = {t1, t2}
  Iface = {nm0, wg0}
  Foreign = {wg0}
  Peer = {p1}
  Prefix = {d1}
  None = None
  Operator = Operator
  Faults = {"refuse", "partial", "save", "cancel", "undo", "boot"}
  OperatorRaces = FALSE
  MaxCrashes = 1
SYMMETRY TxSymmetry
INVARIANTS TypeOK HostIsJournaled NoOrphans NoStalePending CommittedSurvives
PROPERTY OperatorUntouched
CHECK_DEADLOCK FALSE
