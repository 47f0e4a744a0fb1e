SPECIFICATION Spec
CONSTANTS
  p1 = p1
  p2 = p2
  Peer = {p1, p2}
  Prefix = {d1}
  None = None
  Config <- Configs
  Limits = {1, 2}
  Name <- Names
  Offset <- Offsets
  Mobile = {p1}
INVARIANT RoamKeepsKey
