SPECIFICATION Spec
CONSTANTS
  FilePaths <- MCFilePaths
  DirPaths <- MCDirPaths
  MaxEntries = 2
  TrimTo = 1
  CommitFails = FALSE
  MaxFiles = 3
  None = None
INVARIANTS
  CachedDirsCommitted
  MapsAgree
  FilesWherePut
CHECK_DEADLOCK FALSE
