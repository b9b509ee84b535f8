SPECIFICATION Spec
CONSTANTS
  CHUNK_SIZE = 2
  SHARD_SIZE = 3
  BATCH_DATA_CHUNKS = 2
  BATCH_PARITY_CHUNKS = 1
  BUFFER_BYTE_LIMIT = 6
  MaxOutcomes = 1
  MaxTarget = 5
  a = a
  b = b
  bad = bad
  u = u
  v = v
  w = w
  Paths = {a, b}
  UnsafePaths = {bad}
  Versions = {u, v, w}
  FileSize <- MCFileSize
  Held <- MCHeld
  ParityFields = {1}
  Packets <- MCPackets
  IoOutcomes = {TRUE, FALSE}
  NoPath = NoPath
  NoFile = NoFile
  Hole = Hole
  Garbage = Garbage
INVARIANTS
  TypeOK
  IdleClean
  BufferBelongs
  WithinBufferLimit
  BytesAccounted
  PublishedIsExactPrefix
  OneOutcome
  AdvanceIsLoop
  PartialTracksBatch
PROPERTIES
  PublishedNeverRewritten
  FailureIsFinal
  RefinesContract
