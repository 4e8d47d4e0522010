SPECIFICATION VolumeSpec
CONSTANTS
  c1 = c1  c2 = c2  b1 = b1  b2 = b2
  p0 = p0  p1 = p1  p2 = p2  p4 = p4
  ChunkIds = {c1, c2}
  Payloads = {p0, p1, p2, p4}
  CompressedLen <- MCCompressedLen
  BundleIds = {b1, b2}
  BundleChunks <- MCBundleChunks
  DataFileSize = 2
  MaxBytes = 4
  Writers = {w1, w2}
  Readers = {r1}
  MaxEvents = 2
  None = None
  Torn = Torn
INVARIANTS
  NoOverlap
  WithinDataFile
  StoredChunksIntact
  ReadsIntact
  BundlesComplete
  RecordsAgree
PROPERTY RowsStable
CHECK_DEADLOCK FALSE
