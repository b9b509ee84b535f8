-------------------------------- MODULE Proto --------------------------------
(***************************************************************************)
(* Wire format shared by diode_send and diode_receive                      *)
(* (diode_common/src/proto.rs and the chunk arithmetic both sides use).    *)
(*                                                                         *)
(* Bytes are abstracted to the VERSION of the source file they come from:  *)
(* chunk i of version v is what read_chunk returns at offset i*CHUNK_SIZE  *)
(* while the file holds v.  Its place in the file is the packet's count,   *)
(* so a payload only records the version and its length.  An MD5 digest is *)
(* abstracted to what it is used for: path_hash to the path it digests,    *)
(* data_hash to whether it matches the payload (hash_ok).                  *)
(***************************************************************************)
EXTENDS Naturals, Sequences

CONSTANTS
  CHUNK_SIZE,           \* bytes of payload in a DATA packet
  SHARD_SIZE,           \* bytes of a Reed-Solomon shard
  BATCH_DATA_CHUNKS,    \* data chunks per FEC batch
  BATCH_PARITY_CHUNKS,  \* parity shards per FEC batch
  Paths,                \* relative paths is_safe_rel_path accepts
  UnsafePaths,          \* relative paths it rejects
  Versions,             \* contents a source file can have
  FileSize,             \* FileSize[v]: bytes of content v
  NoPath, NoFile        \* "None" for a path and for a file

ASSUME ProtoAssumption ==
  /\ CHUNK_SIZE \in Nat \ {0}
  /\ SHARD_SIZE \in Nat /\ SHARD_SIZE >= CHUNK_SIZE
  /\ BATCH_DATA_CHUNKS \in Nat \ {0}
  /\ BATCH_PARITY_CHUNKS \in Nat \ {0}
  /\ FileSize \in [Versions -> Nat]
  /\ Paths \cap UnsafePaths = {}
  /\ NoPath \notin Paths \cup UnsafePaths
  /\ NoFile \notin Versions

-----------------------------------------------------------------------------
(* Chunk arithmetic.                                                       *)

\* file_size.div_ceil(CHUNK_SIZE)
TotalChunks(size) == (size + CHUNK_SIZE - 1) \div CHUNK_SIZE

\* Length of chunk i of a file of the given size; 0 past its end.
ChunkLen(size, i) ==
  IF i * CHUNK_SIZE >= size THEN 0
  ELSE IF size - i * CHUNK_SIZE < CHUNK_SIZE THEN size - i * CHUNK_SIZE
  ELSE CHUNK_SIZE

batch_for_data(count) == count \div BATCH_DATA_CHUNKS

batch_for_parity(count) == count \div BATCH_PARITY_CHUNKS

\* Off by one at a batch boundary: a full batch counts as one short.
batch_data_size_OffByOne(batch_idx, file_size) ==
  LET total == TotalChunks(file_size)
      start == batch_idx * BATCH_DATA_CHUNKS
  IN IF start >= total THEN 0
     ELSE IF total - start < BATCH_DATA_CHUNKS THEN total - start
     ELSE BATCH_DATA_CHUNKS - 1

\* Number of data chunks of a file that fall into a batch.
batch_data_size(batch_idx, file_size) ==
  LET total == TotalChunks(file_size)
      start == batch_idx * BATCH_DATA_CHUNKS
  IN IF start >= total THEN 0
     ELSE IF total - start < BATCH_DATA_CHUNKS THEN total - start
     ELSE BATCH_DATA_CHUNKS

is_safe_rel_path(path) == path \in Paths

-----------------------------------------------------------------------------
(* Packets.  The header's count field carries the file size in START; the  *)
(* parity count rides in START's data_hash field.                          *)

DataPayload == [len: Nat, ver: Versions]

\* code: the chunks the shard was computed over, in the order they were added.
ParityPayload == [len: Nat, code: Seq(Versions)]

\* A path_hash field holds the digest of a path, or something else (NoPath).
PathHash == Paths \cup UnsafePaths \cup {NoPath}

StartPacket == [type: {"START"}, path: Paths \cup UnsafePaths, path_hash: PathHash,
                count: Nat, parity: Nat]
DataPacket == [type: {"DATA"}, path_hash: Paths, count: Nat, data: DataPayload, hash_ok: BOOLEAN]
ParityPacket == [type: {"PARITY"}, path_hash: Paths, count: Nat, data: ParityPayload, hash_ok: BOOLEAN]
EndPacket == [type: {"END"}, path: Paths, count: Nat]

\* send_start_packet: the size comes from metadata, not from what is read.
MkStart(path, filesize, parity_count) ==
  [type |-> "START", path |-> path, path_hash |-> path, count |-> filesize,
   parity |-> parity_count]

\* send_data_packet: chunk number count of content v.
MkData(path, v, count) ==
  [type |-> "DATA", path_hash |-> path, count |-> count,
   data |-> [len |-> ChunkLen(FileSize[v], count), ver |-> v], hash_ok |-> TRUE]

\* The parity counts are based on the number of data chunks.
MkParity_WrongBase(path, data_payloads, batch_idx, idx) ==
  [type |-> "PARITY", path_hash |-> path, count |-> batch_idx * BATCH_DATA_CHUNKS + idx,
   data |-> [len |-> SHARD_SIZE, code |-> data_payloads], hash_ok |-> TRUE]

\* send_parity_packets: shard idx computed over the batch's data_payloads.
MkParity(path, data_payloads, batch_idx, idx) ==
  [type |-> "PARITY", path_hash |-> path, count |-> batch_idx * BATCH_PARITY_CHUNKS + idx,
   data |-> [len |-> SHARD_SIZE, code |-> data_payloads], hash_ok |-> TRUE]

MkEnd(path, count) == [type |-> "END", path |-> path, count |-> count]

=============================================================================
