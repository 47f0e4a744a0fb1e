SPECIFICATION Spec
CONSTANTS
  Peer = {1, 2}
  Prefix = {d1}
  Martian = {}
  Allowed <- AllAllowed
  Metric = {1, 2}
  None = None
  Validity = 3
  Hysteresis = 2
  MaxTime = 4
  MaxHeld = 2
  Reconnects = TRUE
  ApplyFails = TRUE
INVARIANT TypeOK
PROPERTIES SelectionLive NoFlap BestWins
CHECK_DEADLOCK FALSE
