SPECIFICATION Spec
CONSTANTS
  CHUNK_SIZE = 2
  SHARD_SIZE = 3
  BATCH_DATA_CHUNKS = 2
  BATCH_PARITY_CHUNKS = 1
  CONTROL_RESEND = 2
  BUFFER_BYTE_LIMIT = 100
  LinkCapacity = 2
  MaxLost <- LossOfBatch
  Overwrite = FALSE
  MaxDrops = 1
  MaxErrors = 0
  MaxRestarts = 0
  MaxOutcomes = 10
  a = a
  b = b
  u = u
  v = v
  Paths = {a}
  UnsafePaths = {}
  Versions = {u}
  FileSize <- SizesTwoBatches
  IoOutcomes = {TRUE}
  NoPath = NoPath
  NoFile = NoFile
  Hole = Hole
  Garbage = Garbage
INVARIANT
  PublishedIntact
CHECK_DEADLOCK FALSE
