SPECIFICATION FairSpec
CONSTANTS
  CHUNK_SIZE = 2
  SHARD_SIZE = 3
  BATCH_DATA_CHUNKS = 2
  BATCH_PARITY_CHUNKS = 1
  CONTROL_RESEND = 2
  BUFFER_BYTE_LIMIT = 100
  LinkCapacity = 2
  MaxLost <- NoLoss
  Overwrite = TRUE
  MaxDrops = 2
  MaxErrors = 0
  MaxRestarts = 0
  MaxOutcomes = 10
  a = a
  b = b
  u = u
  v = v
  Paths = {a}
  UnsafePaths = {}
  Versions = {u, v}
  FileSize <- SizesEqual
  IoOutcomes = {TRUE}
  NoPath = NoPath
  NoFile = NoFile
  Hole = Hole
  Garbage = Garbage
PROPERTY
  LatestArrives
CHECK_DEADLOCK FALSE
