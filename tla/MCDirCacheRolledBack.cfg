SPECIFICATION Spec
CONSTANTS
  FilePaths <- MCFilePaths
  DirPaths <- MCDirPaths
  MaxEntries = 2
  TrimTo = 1
  CommitFails = TRUE
  MaxFiles = 3
  None = None
INVARIANTS
  CachedDirsCommitted
CHECK_DEADLOCK FALSE
