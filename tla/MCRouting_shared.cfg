SPECIFICATION Spec
CONSTANTS
  Peer = {1, 2}
  Prefix = {d1}
  Martian = {}
  Allowed <- AllAllowed
  Metric = {1, 2}
  None = None
  Validity = 3
  Hysteresis = 1
  MaxTime = 2
  MaxHeld = 2
  Reconnects = FALSE
  ApplyFails = FALSE
INVARIANT InstalledIsRouted
CHECK_DEADLOCK FALSE
