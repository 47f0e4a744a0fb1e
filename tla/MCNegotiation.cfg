SPECIFICATION Spec
CONSTANTS
  Node = {a, b}
  Lower = a
  None = None
  MaxAttempts = 2
  MaxCrashes = 2
  MaxHeld = 1
  Expiring = TRUE
  StoreFails = TRUE
  PublishFails = TRUE
INVARIANTS TypeOK MirrorKeys EstablishedIsMutual AnsweredOnce
PROPERTY KeepsPromise
CHECK_DEADLOCK FALSE
