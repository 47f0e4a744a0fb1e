SPECIFICATION Spec
CONSTANTS
  Relay = {r1, r2}
  Event = {e1, e2}
  Position <- Positions
  Message = {m1}
  Pushing = {r1}
  MinAcceptances = 1
  Buffer = 1
  InboxLimit = 2
  OutboxLimit = 1
  MaxLosses = 1
  None = None
INVARIANT ClosedStaysClosed
CHECK_DEADLOCK FALSE
