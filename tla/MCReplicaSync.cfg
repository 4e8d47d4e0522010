SPECIFICATION FairSyncSpec
CONSTANTS
  c1 = c1  c2 = c2  b1 = b1  b2 = b2  p1 = p1
  Payloads = {p1}
  CompressedLen <- MCCompressedLen
  BundleChunks <- MCBundleChunks
  DataFileSize = 1
  Writers = {w1}
  Readers = {}
  Periodic = Periodic
  BatchSize = 1
  None = None
  Torn = Torn
  ChunkIds = {c1, c2}
  BundleIds = {b1, b2}
  MaxBytes = 2
  MaxEvents = 2
  Uploads = {u1}
  MaxFailures = 2
INVARIANTS
  BundlesAccounted
  ConfirmedKnown
  OffsetNotAhead
PROPERTIES
  BundlesReported
  OffsetsConverge
