SPECIFICATION Spec
CONSTANTS
  CHUNK_SIZE = 4
  SHARD_SIZE = 5
  BATCH_DATA_CHUNKS = 3
  BATCH_PARITY_CHUNKS = 1
  BUFFER_BYTE_LIMIT = 100
  MaxOutcomes = 3
  COUNT_DIGITS = 1
  HASH_LEN = 2
  MAX_U64 = 50
  QueueCapacity = 1
  DISPLAY_EVERY = 2
  a = a
  z = z
  big = big
  small = small
  Paths = {a, z}
  UnsafePaths = {}
  Versions = {big, small}
  FileSize <- MCFileSize
  Payloads <- MCPayloads
  Image <- MCImage
  Digest <- MCDigest
  Sent <- MCSent
  Datagrams <- MCDatagrams
  IoOutcomes = {TRUE, FALSE}
  NoPath = NoPath
  NoFile = NoFile
  NoPacket = NoPacket
  Hole = Hole
  Garbage = Garbage
INVARIANTS
  DecodedAsSent
  OversizeNeverPublished
  LineOneFresh
