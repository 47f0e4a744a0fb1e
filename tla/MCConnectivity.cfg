SPECIFICATION FairSpec
CONSTANTS
  lan = lan
  map1 = map1
  map2 = map2
  dead = dead
  live = live
  other = other
  loop = loop
  Addr = {lan, map1, map2, dead, live, other, loop}
  Ip <- Ips
  Unsafe = {loop}
  Private = {lan}
  V6 = {}
  Interface = {lan, map1}
  StaticEndpoint = None
  AllowPrivate = FALSE
  AllowIPv6 = FALSE
  Servers <- Mappings
  Mapping <- Mappings
  Offers <- PeerOffers
  PeerAddr = {live, other}
  Sources <- PeerSources
  MaxCandidates = 3
  MaxThirdParty = 1
  MaxAttempts = 2
  Kept = 1
  Buffer = 1
  MaxUnasked = 1
  None = None
INVARIANTS TypeOK NominatedIsProven ExhaustedIsTried ObservedIsAsked
PROPERTIES LateProofCounts RunEnds
CHECK_DEADLOCK FALSE
