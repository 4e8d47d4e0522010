SPECIFICATION EndpointSpec
CONSTANTS
  s1 = s1  s2 = s2  v1 = v1  v2 = v2
  Servers = {s1, s2}
  Volumes = {v1, v2}
  Mounts <- MCMounts
  Conns = {c1, c2, c3}
  MaxBreaks = 2
  Addrs = {a1, a2}
  Watched = {s1}
  MaxFaults = 3
  None = None
INVARIANTS
  PeersMounted
  MountsOwned
PROPERTIES
  ClosedUnmounted
  RegisteredAgain
  EndpointsKnown
CHECK_DEADLOCK FALSE
