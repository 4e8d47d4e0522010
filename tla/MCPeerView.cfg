SPECIFICATION PeerViewFair
CONSTANTS
  Servers = {m1, m2}
  Addrs = {1, 2}
  MaxId = 3
  MaxFaults = 2
  SessionIds = {1}
  None = None
INVARIANTS
  PeersTold
  ViewRight
  SessionsRouted
PROPERTY ReachableAgain
CHECK_DEADLOCK FALSE
