SPECIFICATION CentralSpec
CONSTANTS
  r = r  d = d  q = q  b1 = b1  b2 = b2
  Paths = {r, d, q}
  Above <- MCAbove
  Volumes = {1, 2}
  BundleIds = {b1}
  Reports <- MCReported
  Commits <- MCTwoBundles
  Offsets = {0}
  Targets = {d, q}
  Connections = {c1, c2}
  TTL = 1
  MaxFiles = 2
  MaxLeases = 1
  MaxEvents = 3
  MaxTime = 0
  None = None
INVARIANTS
  PlansAddUp
  PathsFormTree
  LogReplays
SYMMETRY MCSymmetry
CHECK_DEADLOCK FALSE
