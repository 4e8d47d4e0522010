SPECIFICATION TransferSpec
CONSTANTS
  t1 = t1  t2 = t2  v1 = v1  v2 = v2  h1 = h1  h2 = h2  h3 = h3
  q1 = q1  q2 = q2  q3 = q3  q4 = q4
  Requests = {q1, q2, q3, q4}
  Hashes = {h1, h2, h3}
  HashOf <- MCHashOf
  Permits = 2
  None = None
  Transfers = {t1, t2}
  Directions = {TRUE, FALSE}
  Chunks <- MCChunks
  Target <- MCTarget
  Volumes = {v1, v2}
  MaxCancels = 1
INVARIANTS
  NoStaleSlot
  OneExecution
  RemainCounts
  ChannelTruthful
  UploadWhole
PROPERTIES
  EveryRequestAnswered
  TransfersEnd
CHECK_DEADLOCK FALSE
