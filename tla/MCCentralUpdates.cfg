SPECIFICATION CentralSpec
CONSTANTS
  r = r  d = d  q = q  b1 = b1  b2 = b2
  Paths = {r}
  Above <- MCAbove
  Volumes = {1}
  BundleIds = {b1, b2}
  Reports <- MCStored
  Commits <- MCOneBundle
  Offsets = {0, 1}
  Targets = {r}
  Connections = {c1, c2}
  TTL = 1
  MaxFiles = 2
  MaxLeases = 2
  MaxEvents = 2
  MaxTime = 1
  None = None
INVARIANTS
  NoLostUpdate
  GrantHeld
  FilesReadable
  LogReplays
PROPERTY UpdatesAtomic
SYMMETRY MCSymmetry
CHECK_DEADLOCK FALSE
