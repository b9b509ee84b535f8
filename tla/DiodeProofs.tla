----------------------------- MODULE DiodeProofs -----------------------------
(***************************************************************************)
(* The whole diode, for files, links and batches of any size and any       *)
(* number of files: as long as no more packets are lost than the repeated  *)
(* control packets and FEC make up for, what the sender deletes has been   *)
(* or will be published, and nothing else is.  The last of these holds     *)
(* however many system calls fail and however often either side restarts.  *)
(***************************************************************************)
EXTENDS Diode, FiniteSetTheorems, TLAPS

\* At least one copy of every control packet gets through, and of every batch at
\* most as many packets are lost as it has parity shards; nobody replaces a file
\* that is still to be sent.
LossBounded ==
  /\ ~Overwrite
  /\ MaxLost["START"] < CONTROL_RESEND
  /\ MaxLost["BATCH"] <= BATCH_PARITY_CHUNKS
  /\ MaxLost["END"] < CONTROL_RESEND

\* No system call fails, and neither side is restarted.
Faultless == MaxErrors = 0 /\ MaxRestarts = 0 /\ IoOutcomes = {TRUE}

\* Besides, a batch with its parity fits into the buffer.
Recoverable ==
  /\ LossBounded /\ Faultless
  /\ BUFFER_BYTE_LIMIT \in Nat
  /\ BUFFER_BYTE_LIMIT >= BATCH_DATA_CHUNKS * CHUNK_SIZE + BATCH_PARITY_CHUNKS * SHARD_SIZE

-----------------------------------------------------------------------------
(* Chunk arithmetic                                                        *)

\* The receiver's arithmetic is the sender's.
LEMMA SameArithmetic ==
  /\ \A n, size : R!batch_data_size(n, size) = batch_data_size(n, size)
  /\ \A size : R!TotalChunks(size) = TotalChunks(size)
  /\ \A size, i : R!ChunkLen(size, i) = ChunkLen(size, i)
  /\ \A i : R!batch_for_data(i) = batch_for_data(i)
  /\ \A i : R!batch_for_parity(i) = batch_for_parity(i)
BY DEF R!batch_data_size, batch_data_size, R!TotalChunks, TotalChunks, R!ChunkLen, ChunkLen,
       R!batch_for_data, batch_for_data, R!batch_for_parity, batch_for_parity

\* And so is its counting.
LEMMA SameCardinality == \A S : R!Cardinality(S) = Cardinality(S)
BY DEF R!Cardinality, Cardinality

\* The k-th element of the n-th group of B.
LEMMA DivIs ==
  ASSUME NEW B \in Nat \ {0}, NEW n \in Nat, NEW k \in Nat, k < B
  PROVE  (n * B + k) \div B = n /\ (n * B + k) % B = k
BY Z3

\* The chunks of a file are those that begin before its end.
LEMMA CeilingIs ==
  ASSUME NEW C \in Nat \ {0}, NEW size \in Nat, NEW i \in Nat
  PROVE  i < (size + C - 1) \div C <=> i * C < size
BY Z3

\* Every chunk of a file has between one byte and CHUNK_SIZE, and none after it has any.
LEMMA ChunkLenIs ==
  ASSUME NEW size \in Nat, NEW i \in Nat
  PROVE  /\ TotalChunks(size) \in Nat
         /\ ChunkLen(size, i) \in Nat
         /\ i < TotalChunks(size) => ChunkLen(size, i) \in 1 .. CHUNK_SIZE
         /\ i >= TotalChunks(size) => ChunkLen(size, i) = 0
<1> DEFINE C == CHUNK_SIZE
           at == i * C
           total == TotalChunks(size)
<1>1. C \in Nat \ {0}
  BY ProtoAssumption
<1>2. total \in Nat
  BY <1>1 DEF TotalChunks
<1>3. i < total <=> at < size
  BY <1>1, CeilingIs DEF TotalChunks
<1>4. at \in Nat
  BY <1>1
<1>5. ChunkLen(size, i) = IF at >= size THEN 0 ELSE IF size - at < C THEN size - at ELSE C
  BY DEF ChunkLen
<1> HIDE DEF at, total, C
<1>6. /\ ChunkLen(size, i) \in Nat
      /\ i < total => ChunkLen(size, i) \in 1 .. C
      /\ i >= total => ChunkLen(size, i) = 0
  BY <1>1, <1>2, <1>3, <1>4, <1>5
<1> QED
  BY <1>2, <1>6 DEF total, C

Total(x) == TotalChunks(FileSize[x])

\* The first chunk of batch n, and the number of its chunks in content x.
First(n) == n * BATCH_DATA_CHUNKS
ChunksIn(n, x) == batch_data_size(n, FileSize[x])

\* Sizes are numbers.
LEMMA SizesType ==
  /\ BATCH_DATA_CHUNKS \in Nat \ {0} /\ BATCH_PARITY_CHUNKS \in Nat \ {0}
  /\ CHUNK_SIZE \in Nat \ {0} /\ SHARD_SIZE \in Nat /\ CHUNK_SIZE <= SHARD_SIZE
  /\ CONTROL_RESEND \in Nat \ {0}
  /\ \A x \in Versions : FileSize[x] \in Nat /\ Total(x) \in Nat
  /\ \A n \in Nat : First(n) \in Nat /\ First(n + 1) = First(n) + BATCH_DATA_CHUNKS
<1>1. \A n \in Nat : First(n) \in Nat /\ First(n + 1) = First(n) + BATCH_DATA_CHUNKS
  BY ProtoAssumption DEF First
<1>2. \A x \in Versions : FileSize[x] \in Nat
  BY ProtoAssumption
<1>3. \A x \in Versions : Total(x) \in Nat
  BY <1>2, ChunkLenIs DEF Total
<1> QED
  BY <1>1, <1>2, <1>3, ProtoAssumption, SenderAssumption

\* A batch is full, or cut off by the end of the file, or past it.
LEMMA ChunksInIs ==
  ASSUME NEW n \in Nat, NEW x \in Versions
  PROVE  /\ ChunksIn(n, x) \in 0 .. BATCH_DATA_CHUNKS
         /\ ChunksIn(n, x) = 0 <=> First(n) >= Total(x)
         /\ ChunksIn(n, x) > 0 => First(n) + ChunksIn(n, x) <= Total(x)
         /\ ChunksIn(n, x) > 0 => \/ ChunksIn(n, x) = BATCH_DATA_CHUNKS
                                  \/ First(n) + ChunksIn(n, x) = Total(x)
<1>1. /\ BATCH_DATA_CHUNKS \in Nat \ {0} /\ Total(x) \in Nat /\ First(n) \in Nat
  BY SizesType
<1>2. ChunksIn(n, x) = IF First(n) >= Total(x) THEN 0
                       ELSE IF Total(x) - First(n) < BATCH_DATA_CHUNKS
                       THEN Total(x) - First(n) ELSE BATCH_DATA_CHUNKS
  BY DEF ChunksIn, batch_data_size, First, Total
<1> QED
  BY <1>1, <1>2

\* The batch before one that is not empty is not empty.
LEMMA ChunksBefore ==
  ASSUME NEW x \in Versions, NEW b \in Nat, ChunksIn(b + 1, x) > 0
  PROVE  ChunksIn(b, x) > 0
<1>1. PICK n \in Nat : n = b + 1
  OBVIOUS
<1>2. /\ First(n) = First(b) + BATCH_DATA_CHUNKS
      /\ First(n) \in Nat /\ First(b) \in Nat /\ Total(x) \in Nat /\ BATCH_DATA_CHUNKS \in Nat
  BY <1>1, SizesType
<1>3. ~(First(n) >= Total(x))
  BY <1>1, ChunksInIs
<1>4. ~(First(b) >= Total(x))
  BY <1>2, <1>3
<1> QED
  BY <1>4, ChunksInIs

-----------------------------------------------------------------------------
(* The receiver's buffers                                                  *)

BatchSet(n, x) == First(n) .. First(n) + ChunksIn(n, x) - 1

\* What a data packet and a parity packet of content x carry.
DataOf(x, i) == [len |-> ChunkLen(FileSize[x], i), ver |-> x]
Codeword(n, x) == [k \in 1 .. ChunksIn(n, x) |-> x]
ShardOf(n, x) == [len |-> SHARD_SIZE, code |-> Codeword(n, x)]

\* ReceiveState in batch n of content x under p, with data chunks D and parity
\* shards E of the batch.
RxState(p, x, n, D, E, bytes, sum) ==
  [file_path |-> p, path_hash |-> p, file_size |-> FileSize[x],
   parity_per_batch |-> BATCH_PARITY_CHUNKS, current_batch |-> n,
   data_buffer |-> [i \in D |-> DataOf(x, i)], parity_buffer |-> [j \in E |-> ShardOf(n, x)],
   bytes_buffered |-> bytes, bytes_transferred |-> sum, failed |-> FALSE, output |-> TRUE]

\* got packets of batch n arrived, all of them among the first k of it.
Collected(x, n, k, got, D, E, bytes) ==
  /\ D \subseteq BatchSet(n, x) /\ \A i \in D : i < First(n) + k
  /\ E \subseteq 0 .. BATCH_PARITY_CHUNKS - 1 /\ \A j \in E : ChunksIn(n, x) + j < k
  /\ Cardinality(D) + Cardinality(E) = got
  /\ bytes \in Nat /\ bytes <= Cardinality(D) * CHUNK_SIZE + Cardinality(E) * SHARD_SIZE

\* The file of content x with the batches before n written.
UpTo(x, n) ==
  [size |-> FileSize[x], chunk |-> [i \in 0 .. Total(x) - 1 |-> IF i < First(n) THEN x ELSE Hole]]

\* A batch has as many chunks as it has.
LEMMA BatchCard ==
  ASSUME NEW n \in Nat, NEW x \in Versions
  PROVE  IsFiniteSet(BatchSet(n, x)) /\ Cardinality(BatchSet(n, x)) = ChunksIn(n, x)
<1> DEFINE lo == First(n)
           hi == First(n) + ChunksIn(n, x) - 1
<1>1. lo \in Nat /\ ChunksIn(n, x) \in Nat
  BY SizesType, ChunksInIs
<1>2. lo \in Int /\ hi \in Int
  BY <1>1
<1>3. BatchSet(n, x) = lo .. hi
  BY DEF BatchSet
<1>4. hi - lo + 1 = ChunksIn(n, x) /\ (lo > hi <=> ChunksIn(n, x) = 0)
  BY <1>1
<1> HIDE DEF lo, hi
<1>5. IsFiniteSet(lo .. hi) /\ Cardinality(lo .. hi) = IF lo > hi THEN 0 ELSE hi - lo + 1
  BY <1>2, FS_Interval
<1> QED
  BY <1>3, <1>4, <1>5

\* A batch has BATCH_PARITY_CHUNKS shards.
LEMMA ShardCard ==
  /\ IsFiniteSet(0 .. BATCH_PARITY_CHUNKS - 1)
  /\ Cardinality(0 .. BATCH_PARITY_CHUNKS - 1) = BATCH_PARITY_CHUNKS
<1> DEFINE hi == BATCH_PARITY_CHUNKS - 1
<1>1. hi \in Nat /\ hi + 1 = BATCH_PARITY_CHUNKS
  BY SizesType
<1> HIDE DEF hi
<1>2. IsFiniteSet(0 .. hi) /\ Cardinality(0 .. hi) = IF 0 > hi THEN 0 ELSE hi - 0 + 1
  BY <1>1, FS_Interval
<1> QED
  BY <1>1, <1>2 DEF hi

\* How many chunks and shards can be buffered.
LEMMA CollectedCards ==
  ASSUME NEW n \in Nat, NEW x \in Versions,
         NEW D \in SUBSET BatchSet(n, x), NEW E \in SUBSET (0 .. BATCH_PARITY_CHUNKS - 1)
  PROVE  /\ IsFiniteSet(D) /\ Cardinality(D) \in Nat /\ Cardinality(D) <= ChunksIn(n, x)
         /\ IsFiniteSet(E) /\ Cardinality(E) \in Nat /\ Cardinality(E) <= BATCH_PARITY_CHUNKS
         /\ Cardinality(D) = ChunksIn(n, x) => D = BatchSet(n, x)
<1>1. IsFiniteSet(D) /\ Cardinality(D) <= ChunksIn(n, x)
      /\ (Cardinality(D) = ChunksIn(n, x) => D = BatchSet(n, x))
  BY BatchCard, FS_Subset
<1>2. IsFiniteSet(E) /\ Cardinality(E) <= BATCH_PARITY_CHUNKS
  BY ShardCard, FS_Subset
<1> QED
  BY <1>1, <1>2, FS_CardinalityType

\* The fields of the payloads.
LEMMA Payloads ==
  /\ \A x, i : DataOf(x, i).len = ChunkLen(FileSize[x], i) /\ DataOf(x, i).ver = x
  /\ \A n, x : ShardOf(n, x).len = SHARD_SIZE /\ ShardOf(n, x).code = Codeword(n, x)
BY DEF DataOf, ShardOf

\* The batch as the receiver sees it.
LEMMA RxBatch ==
  ASSUME NEW p, NEW x \in Versions, NEW n \in Nat, NEW bytes, NEW sum,
         NEW D \in SUBSET BatchSet(n, x), NEW E \in SUBSET (0 .. BATCH_PARITY_CHUNKS - 1),
         NEW s, s = RxState(p, x, n, D, E, bytes, sum)
  PROVE  /\ R!batch_data_size(s.current_batch, s.file_size) = ChunksIn(n, x)
         /\ R!BatchStart(s) = First(n)
         /\ R!BatchChunks(s) = BatchSet(n, x)
         /\ R!Originals(s) = D
         /\ R!Recoveries(s) = E
         /\ R!NeedsFec(s) <=> Cardinality(D) < ChunksIn(n, x)
         /\ R!FecPossible(s) <=> Cardinality(D) + Cardinality(E) >= ChunksIn(n, x)
<1>1. s.current_batch = n /\ s.file_size = FileSize[x]
      /\ s.parity_per_batch = BATCH_PARITY_CHUNKS
      /\ DOMAIN s.data_buffer = D /\ DOMAIN s.parity_buffer = E
  BY DEF RxState
<1>2. R!batch_data_size(s.current_batch, s.file_size) = ChunksIn(n, x)
  BY <1>1, SameArithmetic DEF ChunksIn
<1>3. R!BatchStart(s) = First(n)
  BY <1>1 DEF R!BatchStart, First
<1>4. First(n) \in Nat /\ ChunksIn(n, x) \in Nat
  BY SizesType, ChunksInIs
<1>5. R!BatchChunks(s) = BatchSet(n, x)
  <2>1. R!BatchChunks(s) = {i \in First(n) .. First(n) + ChunksIn(n, x) - 1 : ChunksIn(n, x) > 0}
    BY <1>2, <1>3 DEF R!BatchChunks
  <2> QED
    BY <1>4, <2>1 DEF BatchSet
<1>6. R!Originals(s) = D
  BY <1>1, <1>5 DEF R!Originals
<1>7. R!Recoveries(s) = E
  <2>1. \A j \in E : j < BATCH_PARITY_CHUNKS
    BY SizesType
  <2> QED
    BY <1>1, <2>1 DEF R!Recoveries
<1>8. BATCH_PARITY_CHUNKS > 0
  BY SizesType
<1>9. R!NeedsFec(s) <=> Cardinality(D) < ChunksIn(n, x)
  BY <1>1, <1>2, SameCardinality DEF R!NeedsFec
<1>10. R!FecPossible(s) <=> Cardinality(D) + Cardinality(E) >= ChunksIn(n, x)
  BY <1>1, <1>2, <1>6, <1>7, <1>8, SameCardinality DEF R!FecPossible
<1> QED
  BY <1>2, <1>3, <1>5, <1>6, <1>7, <1>9, <1>10

\* A batch of which enough packets arrived can be finalized.
LEMMA FinalizeOk ==
  ASSUME NEW p, NEW x \in Versions, NEW n \in Nat, NEW bytes, NEW sum,
         NEW D \in SUBSET BatchSet(n, x), NEW E \in SUBSET (0 .. BATCH_PARITY_CHUNKS - 1),
         Cardinality(D) + Cardinality(E) >= ChunksIn(n, x),
         NEW s, s = RxState(p, x, n, D, E, bytes, sum), NEW io, io.write
  PROVE  R!finalize_ok(s, io)
<1>1. /\ R!BatchChunks(s) = BatchSet(n, x)
      /\ R!NeedsFec(s) <=> Cardinality(D) < ChunksIn(n, x)
      /\ R!FecPossible(s)
  BY RxBatch
<1>2. s.output /\ DOMAIN s.data_buffer = D /\ s.file_size = FileSize[x]
      /\ \A i \in D : s.data_buffer[i] = DataOf(x, i)
  BY DEF RxState
<1>3. ASSUME NEW i \in BatchSet(n, x)
      PROVE  IF i \in DOMAIN s.data_buffer
             THEN s.data_buffer[i].len >= R!ChunkLen(s.file_size, i) ELSE R!NeedsFec(s)
  <2>1. CASE i \in D
    <3>1. i \in Nat
      BY SizesType, ChunksInIs DEF BatchSet
    <3>2. ChunkLen(FileSize[x], i) \in Nat
      BY <3>1, SizesType, ChunkLenIs
    <3>3. s.data_buffer[i].len = ChunkLen(FileSize[x], i)
      BY <1>2, <2>1, Payloads
    <3> QED
      BY <1>2, <2>1, <3>2, <3>3, SameArithmetic
  <2>2. CASE i \notin D
    <3>1. Cardinality(D) # ChunksIn(n, x) /\ Cardinality(D) <= ChunksIn(n, x)
          /\ Cardinality(D) \in Nat /\ ChunksIn(n, x) \in Nat
      BY <2>2, CollectedCards, ChunksInIs
    <3> QED
      BY <1>1, <1>2, <2>2, <3>1
  <2> QED
    BY <2>1, <2>2
<1> QED
  BY <1>1, <1>2, <1>3 DEF R!finalize_ok

\* FEC restores the missing chunk.
LEMMA RestoredIs ==
  ASSUME NEW p, NEW x \in Versions, NEW n \in Nat, NEW bytes, NEW sum,
         NEW D \in SUBSET BatchSet(n, x), NEW E \in SUBSET (0 .. BATCH_PARITY_CHUNKS - 1),
         NEW s, s = RxState(p, x, n, D, E, bytes, sum), E # {}, NEW i \in BatchSet(n, x)
  PROVE  R!Restored(s, i) = x
<1> DEFINE start == First(n)
           code == Codeword(n, x)
           codes == {s.parity_buffer[j].code : j \in E}
           Matches(c) ==
             /\ codes = {c}
             /\ Len(c) = ChunksIn(n, x)
             /\ \A k \in D : s.data_buffer[k].ver = c[k - start + 1]
<1>1. /\ R!batch_data_size(s.current_batch, s.file_size) = ChunksIn(n, x)
      /\ R!BatchStart(s) = start
      /\ R!Originals(s) = D
      /\ R!Recoveries(s) = E
  BY RxBatch
<1>2. /\ \A k \in D : s.data_buffer[k] = DataOf(x, k)
      /\ \A j \in E : s.parity_buffer[j] = ShardOf(n, x)
  BY DEF RxState
<1>3. start \in Nat /\ ChunksIn(n, x) \in Nat
  BY SizesType, ChunksInIs
<1>4. \A k \in BatchSet(n, x) : k - start + 1 \in 1 .. ChunksIn(n, x)
  BY <1>3 DEF BatchSet
<1>5. Len(code) = ChunksIn(n, x) /\ \A k \in 1 .. ChunksIn(n, x) : code[k] = x
  BY <1>3 DEF Codeword
<1>6. \A j \in E : s.parity_buffer[j].code = code
  BY <1>2, Payloads
<1> HIDE DEF start, code
<1>7. codes = {code}
  BY <1>6
<1>8. \A k \in D : s.data_buffer[k].ver = code[k - start + 1]
  <2>1. \A k \in D : s.data_buffer[k].ver = x
    BY <1>2, Payloads
  <2>2. \A k \in D : code[k - start + 1] = x
    BY <1>4, <1>5
  <2> QED
    BY <2>1, <2>2
<1>9. Matches(code)
  BY <1>5, <1>7, <1>8
<1>10. R!Restored(s, i) = IF \E c \in codes : Matches(c)
                          THEN (CHOOSE c \in codes : Matches(c))[i - start + 1] ELSE Garbage
  BY <1>1 DEF R!Restored
<1> HIDE DEF Matches
<1>11. \E c \in codes : Matches(c)
  BY <1>7, <1>9
<1>12. (CHOOSE c \in codes : Matches(c)) \in codes
  BY <1>11
<1>13. (CHOOSE c \in codes : Matches(c)) = code
  BY <1>7, <1>12
<1> HIDE DEF codes
<1> QED
  BY <1>4, <1>5, <1>10, <1>11, <1>13

\* Writing a batch of which enough packets arrived completes the file up to it.
LEMMA WrittenIs ==
  ASSUME NEW p, NEW x \in Versions, NEW n \in Nat, NEW bytes, NEW sum,
         NEW D \in SUBSET BatchSet(n, x), NEW E \in SUBSET (0 .. BATCH_PARITY_CHUNKS - 1),
         Cardinality(D) + Cardinality(E) >= ChunksIn(n, x),
         NEW s, s = RxState(p, x, n, D, E, bytes, sum)
  PROVE  R!Written(s, UpTo(x, n)) = UpTo(x, n + 1)
<1> DEFINE chunks == 0 .. Total(x) - 1
           old == [i \in chunks |-> IF i < First(n) THEN x ELSE Hole]
           new == [i \in chunks |-> IF i < First(n + 1) THEN x ELSE Hole]
           written == [i \in chunks |->
                         IF i \notin R!BatchChunks(s) THEN old[i]
                         ELSE IF i \in DOMAIN s.data_buffer THEN s.data_buffer[i].ver
                         ELSE R!Restored(s, i)]
<1>1. R!Written(s, UpTo(x, n)) = [size |-> FileSize[x], chunk |-> written]
  <2>1. UpTo(x, n) = [size |-> FileSize[x], chunk |-> old]
    BY DEF UpTo
  <2> HIDE DEF old
  <2>2. DOMAIN UpTo(x, n).chunk = chunks /\ UpTo(x, n).chunk = old
    BY <2>1 DEF old
  <2>3. R!Written(s, UpTo(x, n)) = [UpTo(x, n) EXCEPT !.chunk = written]
    BY <2>2 DEF R!Written
  <2> HIDE DEF written
  <2> QED
    BY <2>1, <2>3
<1>2. R!BatchChunks(s) = BatchSet(n, x)
  BY RxBatch
<1>3. DOMAIN s.data_buffer = D /\ \A i \in D : s.data_buffer[i] = DataOf(x, i)
  BY DEF RxState
<1>4. ASSUME NEW i \in chunks
      PROVE  written[i] = new[i]
  <2>1. /\ i \in Nat /\ i < Total(x) /\ First(n) \in Nat /\ ChunksIn(n, x) \in Nat
        /\ First(n + 1) = First(n) + BATCH_DATA_CHUNKS /\ BATCH_DATA_CHUNKS \in Nat
        /\ Total(x) \in Nat
    BY SizesType, ChunksInIs
  <2>2. i \in BatchSet(n, x) <=> First(n) <= i /\ i < First(n + 1)
    <3>1. i \in BatchSet(n, x) <=> First(n) <= i /\ i < First(n) + ChunksIn(n, x)
      BY <2>1 DEF BatchSet
    <3>2. CASE ChunksIn(n, x) = 0
      <4>1. First(n) >= Total(x)
        BY <3>2, ChunksInIs
      <4> QED
        BY <2>1, <3>1, <3>2, <4>1
    <3>3. CASE ChunksIn(n, x) > 0
      <4>1. /\ ChunksIn(n, x) <= BATCH_DATA_CHUNKS
            /\ \/ ChunksIn(n, x) = BATCH_DATA_CHUNKS
               \/ First(n) + ChunksIn(n, x) = Total(x)
        BY <3>3, ChunksInIs
      <4> QED
        BY <2>1, <3>1, <4>1
    <3> QED
      BY <2>1, <3>2, <3>3
  <2>3. CASE i \notin BatchSet(n, x)
    <3>1. written[i] = old[i]
      BY <1>2, <2>3
    <3> QED
      BY <2>1, <2>2, <2>3, <3>1
  <2>4. CASE i \in D
    <3>1. written[i] = x
      BY <1>2, <1>3, <2>4, Payloads
    <3> QED
      BY <2>2, <2>4, <3>1
  <2>5. CASE i \in BatchSet(n, x) \ D
    <3>1. Cardinality(D) # ChunksIn(n, x) /\ Cardinality(D) <= ChunksIn(n, x)
          /\ Cardinality(D) \in Nat
      BY <2>5, CollectedCards
    <3>2. E # {}
      BY <2>1, <3>1, FS_EmptySet
    <3>3. R!Restored(s, i) = x
      BY <2>5, <3>2, RestoredIs
    <3>4. written[i] = x
      BY <1>2, <1>3, <2>5, <3>3
    <3> QED
      BY <2>2, <2>5, <3>4
  <2> QED
    BY <2>3, <2>4, <2>5
<1>5. written = new
  <2>1. written = [i \in chunks |-> written[i]] /\ new = [i \in chunks |-> new[i]]
    OBVIOUS
  <2> HIDE DEF written, new
  <2> QED
    BY <1>4, <2>1
<1> HIDE DEF written
<1> QED
  BY <1>1, <1>5 DEF UpTo

-----------------------------------------------------------------------------
(* The trace: where sender, link and receiver stand                        *)
(*                                                                         *)
(* Every packet the link carries, and the last one the receiver handled,   *)
(* has a mark: whose content it belongs to, its batch, its place in the    *)
(* batch (data chunks, then parity shards) and how many packets of its     *)
(* batch the link took, up to and including it.  The first mark of a trace *)
(* is that of the packet handled last, the others are those of the link.   *)

NoMark == [kind |-> "NONE", path |-> NoPath, ver |-> NoFile, batch |-> 0, slot |-> 0, got |-> 0]
StartMark(p, x) == [kind |-> "START", path |-> p, ver |-> x, batch |-> 0, slot |-> 0, got |-> 0]
ChunkMark(p, x, n, k, got) ==
  [kind |-> "CHUNK", path |-> p, ver |-> x, batch |-> n, slot |-> k, got |-> got]
EndMark(p, x) == [kind |-> "END", path |-> p, ver |-> x, batch |-> 0, slot |-> 0, got |-> 0]

Marks == {NoMark} \cup [kind: {"START", "CHUNK", "END"}, path: Paths, ver: Versions,
                        batch: Nat, slot: Nat, got: Nat]

\* Packet number k of batch n of content x under p: a data chunk or a parity shard.
ChunkPacket(p, x, n, k) ==
  IF k < ChunksIn(n, x) THEN MkData(p, x, First(n) + k)
  ELSE MkParity(p, Codeword(n, x), n, k - ChunksIn(n, x))

\* The packet has this mark.
Carries(packet, m) ==
  \/ m.kind = "START" /\ packet = MkStart(m.path, FileSize[m.ver], BATCH_PARITY_CHUNKS)
  \/ /\ m.kind = "CHUNK" /\ packet = ChunkPacket(m.path, m.ver, m.batch, m.slot)
     /\ ChunksIn(m.batch, m.ver) > 0
     /\ m.slot < ChunksIn(m.batch, m.ver) + BATCH_PARITY_CHUNKS
  \/ m.kind = "END" /\ packet = MkEnd(m.path, Total(m.ver))

\* No transfer is open after m.
Quiet(m) == m.kind \in {"NONE", "END"}

\* The transfer of m broke off, and its file still waits to be sent.
Abandoned(m) == ~Faultless /\ source[m.path] = m.ver

\* The sender is between two transfers after m.
Between(m) == Quiet(m) \/ Abandoned(m)

\* m is in batch n of content x under p.
InBatch(m, p, x, n) == m.kind = "CHUNK" /\ m.path = p /\ m.ver = x /\ m.batch = n

\* After m, all batches before n have got enough packets.
Complete(m, p, x, n) ==
  \/ n = 0 /\ m = StartMark(p, x)
  \/ n > 0 /\ InBatch(m, p, x, n - 1) /\ m.got >= ChunksIn(n - 1, x)

\* What may come after m: transfers follow each other whole, or begin again where
\* something fails, and a batch is begun once enough packets of the one before it
\* have got through.
Follows(m, next) ==
  \/ /\ next.kind = "START"
     /\ Quiet(m) \/ m = next \/ (~Faultless /\ (m.path = next.path => m.ver = next.ver))
  \/ /\ next.kind = "CHUNK"
     /\ \/ Complete(m, next.path, next.ver, next.batch) /\ next.got = 1
        \/ /\ InBatch(m, next.path, next.ver, next.batch)
           /\ m.slot < next.slot /\ next.got = m.got + 1
  \/ /\ next.kind = "END"
     /\ \/ m = next
        \/ \E n \in Nat : Complete(m, next.path, next.ver, n) /\ ChunksIn(n, next.ver) = 0

\* In state s the receiver is in batch n of content x under p and has got
\* packets of it, all of them among the first k.
Collects(s, p, x, n, k, got) ==
  \E D \in SUBSET Nat, E \in SUBSET Nat, bytes \in Nat, sum \in Nat :
    s = RxState(p, x, n, D, E, bytes, sum) /\ Collected(x, n, k, got, D, E, bytes)

\* So it is now, with the batches before n on disk.
Collecting(p, x, n, k, got) ==
  partial[p] = UpTo(x, n) /\ Collects(state, p, x, n, k, got)

\* The receiver after the packet with mark m.
Rx(m) ==
  /\ Quiet(m) => state = R!NewState
  /\ m.kind = "START" => Collecting(m.path, m.ver, 0, 0, 0)
  /\ m.kind = "CHUNK" => Collecting(m.path, m.ver, m.batch, m.slot + 1, m.got)
  /\ m.kind = "END" => final[m.path] = Exactly(m.ver)

\* The losses among the first k packets of the current group of a kind.
Lost(kind, k) == IF k = 0 THEN 0 ELSE lost[kind]

\* The content that is being sent, and the place of the next packet in its batch.
Content == source[snd.path]
Slot == Len(snd.batch_payloads) + snd.sent

TxStart(m) ==
  /\ snd.filesize = FileSize[Content] /\ snd.sent < CONTROL_RESEND
  /\ Lost("START", snd.sent) <= snd.sent /\ Lost("START", snd.sent) <= MaxLost["START"]
  /\ IF snd.sent = Lost("START", snd.sent) THEN Between(m) ELSE m = StartMark(snd.path, Content)

\* The part of TxChunk that does not depend on m.
TxBatch ==
  /\ snd.reading = Content
  /\ snd.count = First(snd.batch_idx) + Len(snd.batch_payloads)
  /\ snd.count <= Total(Content)
  /\ \A k \in 1 .. Len(snd.batch_payloads) : snd.batch_payloads[k] = Content
  /\ snd.pc = "read" => snd.sent = 0 /\ Len(snd.batch_payloads) < BATCH_DATA_CHUNKS
  /\ snd.pc # "read" => snd.sent < BATCH_PARITY_CHUNKS
  /\ snd.pc = "parity" => Len(snd.batch_payloads) = BATCH_DATA_CHUNKS
  /\ snd.pc = "last_parity" => /\ Len(snd.batch_payloads) \in 1 .. BATCH_DATA_CHUNKS
                               /\ snd.count = Total(Content)

TxChunk(m) ==
  /\ TxBatch
  /\ Lost("BATCH", Slot) <= Slot /\ Lost("BATCH", Slot) <= MaxLost["BATCH"]
  /\ IF Slot = Lost("BATCH", Slot) THEN Complete(m, snd.path, Content, snd.batch_idx)
     ELSE /\ InBatch(m, snd.path, Content, snd.batch_idx)
          /\ m.slot < Slot /\ m.got = Slot - Lost("BATCH", Slot)

TxEnd(m) ==
  /\ snd.count = Total(Content)
  /\ ChunksIn(snd.batch_idx, Content) = 0
  /\ snd.sent < CONTROL_RESEND
  /\ Lost("END", snd.sent) <= snd.sent /\ Lost("END", snd.sent) <= MaxLost["END"]
  /\ IF snd.sent = Lost("END", snd.sent) THEN Complete(m, snd.path, Content, snd.batch_idx)
     ELSE m = EndMark(snd.path, Content)

\* The sender, m being the mark of the last packet the link took.
Tx(m) ==
  /\ snd.pc \in {"idle", "watch", "stat"} => Between(m)
  /\ snd.pc \in {"idle", "watch", "stat", "start", "open"} =>
       snd.count = 0 /\ snd.batch_idx = 0 /\ snd.batch_payloads = <<>>
  /\ snd.pc \in {"idle", "watch", "stat", "open", "remove"} => snd.sent = 0
  /\ snd.pc = "start" => TxStart(m)
  /\ snd.pc = "open" => m = StartMark(snd.path, Content)
  /\ snd.pc \in {"read", "parity", "last_parity"} => TxChunk(m)
  /\ snd.pc = "end" => TxEnd(m)
  /\ snd.pc = "remove" => m = EndMark(snd.path, Content)

\* A file that was sent and deleted is published, or its END is still under way;
\* nothing else of that path comes after that.
Settled(g, p) ==
  dropped[p] # NoFile /\ source[p] = NoFile =>
    \/ (\A i \in 2 .. Len(g) : g[i].path # p) /\ final[p] = Exactly(dropped[p])
    \/ \E i \in 2 .. Len(g) : /\ g[i] = EndMark(p, dropped[p])
                              /\ \A j \in i + 1 .. Len(g) : g[j].path # p

\* The marks g fit the packets of the link and the sender.
Marked(g) ==
  /\ Len(g) = Len(link) + 1
  /\ \A i \in 1 .. Len(link) : Carries(link[i], g[i + 1]) /\ Follows(g[i], g[i + 1])
  /\ Tx(g[Len(g)])

Trace(g) == Marked(g) /\ Rx(g[1]) /\ \A p \in Paths : Settled(g, p)

PacketType == StartPacket \cup DataPacket \cup ParityPacket \cup EndPacket

SndType ==
  [pc: {"idle", "watch", "stat", "start", "open", "read", "parity", "last_parity", "end", "remove"},
   todo: SUBSET Paths, path: Paths \cup {NoPath}, initial: Nat, filesize: Nat,
   reading: Versions \cup {NoFile}, count: Nat, batch_idx: Nat,
   batch_payloads: Seq(Versions), sent: Nat]

SenderOK ==
  /\ snd \in SndType
  /\ snd.pc # "idle" => snd.path \in Paths /\ source[snd.path] \in Versions
  /\ source \in [Paths -> Versions \cup {NoFile}]
  /\ dropped \in [Paths -> Versions \cup {NoFile}]
  /\ \A p \in Paths : source[p] # NoFile => dropped[p] = source[p]
  /\ used \in [drops: Nat, errors: Nat]
  /\ lost \in [Kinds -> Nat]
  /\ link \in Seq(PacketType)

\* The output directory: what is published is somebody's content.
DiskOK ==
  /\ partial = [p \in Paths |-> partial[p]]
  /\ final = [p \in Paths |-> final[p]]
  /\ PublishedIntact
  /\ NoFalseFailure

DiodeInv ==
  /\ SenderOK /\ DiskOK
  /\ restarts = 0
  /\ \E g \in Seq(Marks) : Trace(g)

\* Fewer of the same take no more room.
LEMMA TimesMono ==
  ASSUME NEW a \in Nat, NEW b \in Nat, NEW c \in Nat, a <= b
  PROVE  a * c <= b * c
<1>1. b * c = a * c + (b - a) * c
  BY Z3
<1>2. (b - a) * c \in Nat
  <2>1. b - a \in Nat
    OBVIOUS
  <2> QED
    BY <2>1
<1>3. a * c \in Nat /\ b * c \in Nat
  OBVIOUS
<1> QED
  BY <1>1, <1>2, <1>3

-----------------------------------------------------------------------------
(* The receiver's steps                                                    *)

\* Buffering one more data chunk.
LEMMA BufferData ==
  ASSUME NEW p, NEW x \in Versions, NEW n \in Nat, NEW k \in Nat, NEW got \in Nat, Recoverable,
         NEW slot \in Nat, k <= slot, slot < ChunksIn(n, x), NEW s, Collects(s, p, x, n, k, got)
  PROVE  Collects(R!buffer_data(s, MkData(p, x, First(n) + slot)), p, x, n, slot + 1, got + 1)
<1> PICK D \in SUBSET Nat, E \in SUBSET Nat, bytes \in Nat, sum \in Nat :
      s = RxState(p, x, n, D, E, bytes, sum) /\ Collected(x, n, k, got, D, E, bytes)
  BY DEF Collects
<1> DEFINE i == First(n) + slot
           D2 == D \cup {i}
           len == ChunkLen(FileSize[x], i)
           packet == MkData(p, x, i)
<1>1. /\ First(n) \in Nat /\ ChunksIn(n, x) \in Nat /\ ChunksIn(n, x) <= BATCH_DATA_CHUNKS
      /\ BATCH_DATA_CHUNKS \in Nat /\ BATCH_PARITY_CHUNKS \in Nat
      /\ CHUNK_SIZE \in Nat /\ SHARD_SIZE \in Nat /\ BUFFER_BYTE_LIMIT \in Nat
      /\ BUFFER_BYTE_LIMIT >= BATCH_DATA_CHUNKS * CHUNK_SIZE + BATCH_PARITY_CHUNKS * SHARD_SIZE
  BY SizesType, ChunksInIs DEF Recoverable
<1>2. D \in SUBSET BatchSet(n, x) /\ E \in SUBSET (0 .. BATCH_PARITY_CHUNKS - 1)
  BY DEF Collected
<1>3. i \in Nat /\ i \in BatchSet(n, x) /\ i \notin D
  <2>1. \A d \in D : d < First(n) + k
    BY DEF Collected
  <2> QED
    BY <1>1, <2>1 DEF BatchSet
<1>4. BatchSet(n, x) \subseteq Nat
  BY <1>1 DEF BatchSet
<1>5. D2 \in SUBSET BatchSet(n, x) /\ D2 \in SUBSET Nat
  BY <1>2, <1>3, <1>4
<1>6. len \in Nat /\ len <= CHUNK_SIZE
  <2>1. /\ FileSize[x] \in Nat /\ len \in Nat
        /\ i < Total(x) => len \in 1 .. CHUNK_SIZE
        /\ i >= Total(x) => len = 0
    BY <1>3, SizesType, ChunkLenIs DEF Total
  <2>2. Total(x) \in Nat
    BY SizesType
  <2> HIDE DEF i, len
  <2> QED
    BY <1>1, <1>3, <2>1, <2>2
<1>7. packet.count = i /\ packet.data = DataOf(x, i) /\ packet.data.len = len
  BY Payloads DEF MkData, DataOf
<1>8. /\ s.data_buffer = [d \in D |-> DataOf(x, d)] /\ DOMAIN s.data_buffer = D
      /\ s.bytes_buffered = bytes /\ s.bytes_transferred = sum
  BY DEF RxState
<1> HIDE DEF i, len, packet
<1>9. Cardinality(D2) = Cardinality(D) + 1
  BY <1>2, <1>3, CollectedCards, FS_AddElement
<1>10. /\ Cardinality(D) \in Nat /\ Cardinality(E) \in Nat
       /\ Cardinality(D2) \in Nat /\ Cardinality(D2) <= ChunksIn(n, x)
       /\ Cardinality(E) <= BATCH_PARITY_CHUNKS
  BY <1>2, <1>5, CollectedCards
<1> HIDE DEF D2
<1>11. bytes + len \in Nat
       /\ bytes + len <= Cardinality(D2) * CHUNK_SIZE + Cardinality(E) * SHARD_SIZE
  <2>1. bytes <= Cardinality(D) * CHUNK_SIZE + Cardinality(E) * SHARD_SIZE
    BY DEF Collected
  <2>2. Cardinality(D2) * CHUNK_SIZE = Cardinality(D) * CHUNK_SIZE + CHUNK_SIZE
    BY <1>1, <1>9, <1>10
  <2>3. Cardinality(D) * CHUNK_SIZE \in Nat /\ Cardinality(E) * SHARD_SIZE \in Nat
    BY <1>1, <1>10
  <2> QED
    BY <1>1, <1>6, <2>1, <2>2, <2>3
<1>12. bytes + len <= BUFFER_BYTE_LIMIT
  <2>1. Cardinality(D2) <= BATCH_DATA_CHUNKS
    BY <1>1, <1>10
  <2>2. Cardinality(D2) * CHUNK_SIZE <= BATCH_DATA_CHUNKS * CHUNK_SIZE
    BY <1>1, <1>10, <2>1, TimesMono
  <2>3. Cardinality(E) * SHARD_SIZE <= BATCH_PARITY_CHUNKS * SHARD_SIZE
    BY <1>1, <1>10, TimesMono
  <2>4. /\ Cardinality(D2) * CHUNK_SIZE \in Nat /\ Cardinality(E) * SHARD_SIZE \in Nat
        /\ BATCH_DATA_CHUNKS * CHUNK_SIZE \in Nat /\ BATCH_PARITY_CHUNKS * SHARD_SIZE \in Nat
    BY <1>1, <1>10
  <2> QED
    BY <1>1, <1>11, <2>2, <2>3, <2>4
<1>13. R!buffer_data(s, packet) =
         [s EXCEPT !.bytes_buffered = bytes + len, !.bytes_transferred = sum + len,
                   !.data_buffer = R!Insert(s.data_buffer, i, DataOf(x, i))]
  <2>1. ~(packet.count \in DOMAIN s.data_buffer)
    BY <1>3, <1>7, <1>8
  <2>2. ~(s.bytes_buffered + packet.data.len > BUFFER_BYTE_LIMIT)
    BY <1>1, <1>7, <1>8, <1>11, <1>12
  <2> QED
    BY <1>7, <1>8, <2>1, <2>2 DEF R!buffer_data
<1>14. R!Insert(s.data_buffer, i, DataOf(x, i)) = [d \in D2 |-> DataOf(x, d)]
  BY <1>8 DEF R!Insert, D2
<1>15. R!buffer_data(s, packet) = RxState(p, x, n, D2, E, bytes + len, sum + len)
  BY <1>13, <1>14 DEF RxState
<1>16. Collected(x, n, slot + 1, got + 1, D2, E, bytes + len)
  <2>1. \A d \in D2 : d < First(n) + (slot + 1)
    <3>1. \A d \in D : d < First(n) + k /\ d \in Nat
      BY <1>2, <1>4 DEF Collected
    <3> QED
      BY <1>1, <3>1 DEF D2, i
  <2>2. \A j \in E : j \in Nat /\ ChunksIn(n, x) + j < slot + 1
    BY <1>1 DEF Collected
  <2>3. Cardinality(D2) + Cardinality(E) = got + 1
    <3>1. Cardinality(D) + Cardinality(E) = got
      BY DEF Collected
    <3> QED
      BY <1>9, <1>10, <3>1
  <2> QED
    BY <1>2, <1>5, <1>11, <2>1, <2>2, <2>3 DEF Collected
<1>17. sum + len \in Nat
  BY <1>6
<1> QED
  BY <1>5, <1>11, <1>15, <1>16, <1>17 DEF packet, i, Collects

\* Buffering one more parity shard.
LEMMA BufferParity ==
  ASSUME NEW p, NEW x \in Versions, NEW n \in Nat, NEW k \in Nat, NEW got \in Nat, Recoverable,
         NEW j \in 0 .. BATCH_PARITY_CHUNKS - 1, k <= ChunksIn(n, x) + j,
         NEW s, Collects(s, p, x, n, k, got)
  PROVE  Collects(R!buffer_parity(s, MkParity(p, Codeword(n, x), n, j), j), p, x, n,
                  ChunksIn(n, x) + j + 1, got + 1)
<1> PICK D \in SUBSET Nat, E \in SUBSET Nat, bytes \in Nat, sum \in Nat :
      s = RxState(p, x, n, D, E, bytes, sum) /\ Collected(x, n, k, got, D, E, bytes)
  BY DEF Collects
<1> DEFINE E2 == E \cup {j}
           packet == MkParity(p, Codeword(n, x), n, j)
<1>1. /\ First(n) \in Nat /\ ChunksIn(n, x) \in Nat /\ ChunksIn(n, x) <= BATCH_DATA_CHUNKS
      /\ BATCH_DATA_CHUNKS \in Nat /\ BATCH_PARITY_CHUNKS \in Nat
      /\ CHUNK_SIZE \in Nat /\ SHARD_SIZE \in Nat /\ BUFFER_BYTE_LIMIT \in Nat
      /\ BUFFER_BYTE_LIMIT >= BATCH_DATA_CHUNKS * CHUNK_SIZE + BATCH_PARITY_CHUNKS * SHARD_SIZE
  BY SizesType, ChunksInIs DEF Recoverable
<1>2. D \in SUBSET BatchSet(n, x) /\ E \in SUBSET (0 .. BATCH_PARITY_CHUNKS - 1)
  BY DEF Collected
<1>3. j \in Nat /\ j \notin E
  <2>1. \A e \in E : ChunksIn(n, x) + e < k
    BY DEF Collected
  <2> QED
    BY <1>1, <2>1
<1>4. E2 \in SUBSET (0 .. BATCH_PARITY_CHUNKS - 1) /\ E2 \in SUBSET Nat
  BY <1>1, <1>2
<1>5. packet.data = ShardOf(n, x) /\ packet.data.len = SHARD_SIZE
  BY Payloads DEF MkParity, ShardOf
<1>6. /\ s.parity_buffer = [e \in E |-> ShardOf(n, x)] /\ DOMAIN s.parity_buffer = E
      /\ s.bytes_buffered = bytes
  BY DEF RxState
<1> HIDE DEF packet
<1>7. Cardinality(E2) = Cardinality(E) + 1
  BY <1>2, <1>3, CollectedCards, FS_AddElement
<1>8. /\ Cardinality(D) \in Nat /\ Cardinality(E) \in Nat
      /\ Cardinality(E2) \in Nat /\ Cardinality(D) <= ChunksIn(n, x)
      /\ Cardinality(E2) <= BATCH_PARITY_CHUNKS
  BY <1>2, <1>4, CollectedCards
<1> HIDE DEF E2
<1>9. bytes + SHARD_SIZE \in Nat
      /\ bytes + SHARD_SIZE <= Cardinality(D) * CHUNK_SIZE + Cardinality(E2) * SHARD_SIZE
  <2>1. bytes <= Cardinality(D) * CHUNK_SIZE + Cardinality(E) * SHARD_SIZE
    BY DEF Collected
  <2>2. Cardinality(E2) * SHARD_SIZE = Cardinality(E) * SHARD_SIZE + SHARD_SIZE
    BY <1>1, <1>7, <1>8
  <2>3. Cardinality(D) * CHUNK_SIZE \in Nat /\ Cardinality(E) * SHARD_SIZE \in Nat
    BY <1>1, <1>8
  <2> QED
    BY <1>1, <2>1, <2>2, <2>3
<1>10. bytes + SHARD_SIZE <= BUFFER_BYTE_LIMIT
  <2>1. Cardinality(D) <= BATCH_DATA_CHUNKS
    BY <1>1, <1>8
  <2>2. Cardinality(D) * CHUNK_SIZE <= BATCH_DATA_CHUNKS * CHUNK_SIZE
    BY <1>1, <1>8, <2>1, TimesMono
  <2>3. Cardinality(E2) * SHARD_SIZE <= BATCH_PARITY_CHUNKS * SHARD_SIZE
    BY <1>1, <1>8, TimesMono
  <2>4. /\ Cardinality(D) * CHUNK_SIZE \in Nat /\ Cardinality(E2) * SHARD_SIZE \in Nat
        /\ BATCH_DATA_CHUNKS * CHUNK_SIZE \in Nat /\ BATCH_PARITY_CHUNKS * SHARD_SIZE \in Nat
    BY <1>1, <1>8
  <2> QED
    BY <1>1, <1>9, <2>2, <2>3, <2>4
<1>11. R!buffer_parity(s, packet, j) =
         [s EXCEPT !.bytes_buffered = bytes + SHARD_SIZE,
                   !.parity_buffer = R!Insert(s.parity_buffer, j, ShardOf(n, x))]
  <2>1. ~(j \in DOMAIN s.parity_buffer)
    BY <1>3, <1>6
  <2>2. ~(s.bytes_buffered + packet.data.len > BUFFER_BYTE_LIMIT)
    BY <1>1, <1>5, <1>6, <1>9, <1>10
  <2> QED
    BY <1>5, <1>6, <2>1, <2>2 DEF R!buffer_parity
<1>12. R!Insert(s.parity_buffer, j, ShardOf(n, x)) = [e \in E2 |-> ShardOf(n, x)]
  BY <1>6 DEF R!Insert, E2
<1>13. R!buffer_parity(s, packet, j) = RxState(p, x, n, D, E2, bytes + SHARD_SIZE, sum)
  BY <1>11, <1>12 DEF RxState
<1>14. Collected(x, n, ChunksIn(n, x) + j + 1, got + 1, D, E2, bytes + SHARD_SIZE)
  <2>1. \A d \in D : d < First(n) + (ChunksIn(n, x) + j + 1)
    <3>1. \A d \in D : d < First(n) + k /\ d \in Nat
      BY <1>1 DEF Collected, BatchSet
    <3> QED
      BY <1>1, <1>3, <3>1
  <2>2. \A e \in E2 : ChunksIn(n, x) + e < ChunksIn(n, x) + j + 1
    <3>1. \A e \in E : ChunksIn(n, x) + e < k /\ e \in Nat
      BY <1>1 DEF Collected
    <3> QED
      BY <1>1, <1>3, <3>1 DEF E2
  <2>3. Cardinality(D) + Cardinality(E2) = got + 1
    BY <1>7, <1>8 DEF Collected
  <2> QED
    BY <1>2, <1>4, <1>9, <2>1, <2>2, <2>3 DEF Collected
<1> QED
  BY <1>4, <1>9, <1>13, <1>14 DEF packet, Collects

\* The receiver took the packet marked next: it stands where next says, and only
\* next's path can look different in the output directory.
Took(next) ==
  /\ Rx(next)' /\ DiskOK'
  /\ \A p \in Paths \ {next.path} : final'[p] = final[p]

\* The fields of a mark.
LEMMA MarkFields ==
  ASSUME NEW m \in Marks, m.kind # "NONE"
  PROVE  /\ m.kind \in {"START", "CHUNK", "END"} /\ m.path \in Paths /\ m.ver \in Versions
         /\ m.batch \in Nat /\ m.slot \in Nat /\ m.got \in Nat
         /\ m.path # NoPath
BY ProtoAssumption DEF Marks, NoMark

\* The file operations succeed.
LEMMA IoWell ==
  ASSUME Recoverable
  PROVE  /\ \A io \in R!Io : io.write /\ io.rename
         /\ FALSE \notin IoOutcomes
         /\ \A ps : \A qs \in R!Fails(ps) : qs = {}
<1>1. IoOutcomes = {TRUE}
  BY DEF Recoverable, Faultless
<1>2. ASSUME NEW ps, NEW qs \in R!Fails(ps)
      PROVE  qs = {}
  <2>1. qs \in SUBSET ps /\ \A q \in ps : (q \notin qs) \in IoOutcomes
    BY <1>2 DEF R!Fails
  <2>2. \A q \in ps : q \notin qs
    BY <1>1, <2>1
  <2> QED
    BY <2>1, <2>2
<1> QED
  BY <1>1, <1>2 DEF R!Io

\* A START takes files away from the output directory and puts none there.
LEMMA ClearWayIs ==
  ASSUME NEW packet, NEW marked, R!ClearWay(packet, marked)
  PROVE  /\ final' = [q \in Paths |-> final'[q]]
         /\ \A q \in Paths : final'[q] \in {NoFile, final[q]}
<1>1. PICK ps : final' = R!Without(final, ps)
  BY DEF R!ClearWay
<1> QED
  BY <1>1 DEF R!Without

\* So does a transfer that fails.
LEMMA MarkFailureIs ==
  ASSUME NEW ps, R!mark_failure(ps)
  PROVE  /\ final' = [q \in Paths |-> final'[q]]
         /\ \A q \in Paths : final'[q] \in {NoFile, final[q]}
<1>1. PICK qs : final' = R!Without(final, qs)
  BY DEF R!mark_failure
<1> QED
  BY <1>1 DEF R!Without

\* What clearing .partial files leaves.
LEMMA PartialsClearedIs ==
  ASSUME NEW ps, NEW left \in R!PartialsCleared(ps)
  PROVE  /\ left = [q \in Paths |-> left[q]]
         /\ ps = {} => left = [q \in Paths |-> partial[q]]
<1>1. PICK qs : left = R!Without(partial, ps \ qs)
  BY DEF R!PartialsCleared
<1> QED
  BY <1>1 DEF R!Without

\* If nothing fails, a START takes its path's old file away, and no other.
LEMMA ClearWayWell ==
  ASSUME Recoverable, marker = {}, R!Aborted = {}, NEW packet, R!ClearWay(packet, {})
  PROVE  /\ final' = [q \in Paths |-> IF q = packet.path THEN NoFile ELSE final[q]]
         /\ marker' = {}
<1>1. PICK kept \in R!Fails(R!Present(final, R!FinalsCleared(packet))),
           stale \in R!Fails(marker \cap {packet.path}), unmarked \in R!Fails({}) :
        /\ final' = R!Without(final, R!FinalsCleared(packet) \ kept)
        /\ marker' = (marker \ ({packet.path} \ stale)) \cup ({} \ unmarked)
  BY DEF R!ClearWay
<1>2. kept = {} /\ R!FinalsCleared(packet) = {packet.path}
  BY <1>1, IoWell DEF R!FinalsCleared
<1>3. R!FinalsCleared(packet) \ kept = {packet.path}
  BY <1>2
<1>4. final' = R!Without(final, {packet.path})
  BY <1>1, <1>3
<1> QED
  BY <1>1, <1>4 DEF R!Without

\* A batch of which enough has arrived is finalized and written.
LEMMA BatchDone ==
  ASSUME NEW p, NEW x \in Versions, NEW n \in Nat, NEW k \in Nat, NEW got \in Nat,
         got >= ChunksIn(n, x), NEW s, Collects(s, p, x, n, k, got)
  PROVE  /\ \A io : io.write => R!finalize_ok(s, io)
         /\ R!Written(s, UpTo(x, n)) = UpTo(x, n + 1)
<1> PICK D \in SUBSET Nat, E \in SUBSET Nat, bytes \in Nat, sum \in Nat :
      s = RxState(p, x, n, D, E, bytes, sum) /\ Collected(x, n, k, got, D, E, bytes)
  BY DEF Collects
<1>1. /\ D \in SUBSET BatchSet(n, x) /\ E \in SUBSET (0 .. BATCH_PARITY_CHUNKS - 1)
      /\ Cardinality(D) + Cardinality(E) >= ChunksIn(n, x)
  BY DEF Collected
<1>2. ASSUME NEW io, io.write
      PROVE  R!finalize_ok(s, io)
  BY <1>1, <1>2, FinalizeOk
<1>3. R!Written(s, UpTo(x, n)) = UpTo(x, n + 1)
  BY <1>1, WrittenIs
<1> QED
  BY <1>2, <1>3

\* Moving on to the next batch.
LEMMA EnterNext ==
  ASSUME NEW p, NEW x \in Versions, NEW n \in Nat, NEW k \in Nat, NEW got \in Nat,
         NEW s, Collects(s, p, x, n, k, got), NEW io, R!finalize_ok(s, io)
  PROVE  Collects(R!EnterBatch(s, n + 1, io), p, x, n + 1, 0, 0)
<1> PICK D \in SUBSET Nat, E \in SUBSET Nat, bytes \in Nat, sum \in Nat :
      s = RxState(p, x, n, D, E, bytes, sum) /\ Collected(x, n, k, got, D, E, bytes)
  BY DEF Collects
<1>1. s.current_batch = n
  BY DEF RxState
<1>2. n + 1 > n /\ ~(n + 1 < n + 1)
  OBVIOUS
<1>3. R!EnterBatch(s, n + 1, io) = [R!clear_batch(s) EXCEPT !.current_batch = n + 1]
  BY <1>1, <1>2 DEF R!EnterBatch, R!advance_to_batch
<1>4. <<>> = [d \in {} |-> DataOf(x, d)] /\ <<>> = [e \in {} |-> ShardOf(n + 1, x)]
  OBVIOUS
<1>5. R!EnterBatch(s, n + 1, io) = RxState(p, x, n + 1, {}, {}, 0, sum)
  BY <1>3, <1>4 DEF R!clear_batch, RxState
<1>6. Collected(x, n + 1, 0, 0, {}, {}, 0)
  BY FS_EmptySet, SizesType DEF Collected
<1> QED
  BY <1>5, <1>6 DEF Collects

\* A START arrives.
LEMMA TakeStart ==
  ASSUME Recoverable, DiskOK, NEW m \in Marks, NEW next \in Marks, next.kind = "START",
         Rx(m), Follows(m, next), NEW packet, Carries(packet, next), R!Handle(packet)
  PROVE  Took(next)
<1> DEFINE p == next.path
           x == next.ver
<1>1. p \in Paths /\ x \in Versions /\ p # NoPath
  BY MarkFields
<1>2. packet = MkStart(p, FileSize[x], BATCH_PARITY_CHUNKS)
  BY DEF Carries
<1>3. /\ packet.type = "START" /\ packet.path = p /\ packet.path_hash = p
      /\ packet.count = FileSize[x] /\ packet.parity = BATCH_PARITY_CHUNKS
  BY <1>2 DEF MkStart
<1>4. CASE m = next
  <2>1. Collecting(p, x, 0, 0, 0)
    BY <1>4 DEF Rx
  <2>2. state.file_path = p
    BY <2>1 DEF Collecting, Collects, RxState
  <2>3. UNCHANGED <<state, stats, final, partial, marker>>
    BY <1>3, <2>2 DEF R!Handle, R!HandleData, R!HandleParity, R!StartAgain, R!StartRejected,
       R!StartNotOpened, R!StartOpened, R!EndStored, R!EndFailed, R!Ignore, R!NewStart, R!vars, R!disk
  <2> QED
    BY <1>4, <2>3 DEF Took, Rx, Collecting, Collects, DiskOK, PublishedIntact, NoFalseFailure
<1>5. CASE Quiet(m)
  <2>1. state = R!NewState
    BY <1>5 DEF Rx
  <2>2. state.file_path = NoPath
    BY <2>1 DEF R!NewState
  <2>3. R!StartRejected(packet) \/ R!StartNotOpened(packet) \/ R!StartOpened(packet)
    BY <1>1, <1>3, <2>2 DEF R!Handle, R!HandleData, R!HandleParity, R!StartAgain, R!EndStored,
       R!EndFailed, R!Ignore
  <2>4. R!StartOpened(packet)
    BY <1>1, <1>3, <2>3, IoWell DEF R!StartRejected, R!StartNotOpened, R!is_safe_rel_path
  <2>5. /\ R!Aborted = {} /\ R!AfterAbort = R!NewState
        /\ R!FailuresAfterAbort = stats.files_failed + 0
    BY <2>1, <2>2 DEF R!Aborted, R!AfterAbort, R!FailuresAfterAbort, R!Receiving
  <2>6. state' = RxState(p, x, 0, {}, {}, 0, 0)
    <3>1. <<>> = [d \in {} |-> DataOf(x, d)] /\ <<>> = [e \in {} |-> ShardOf(0, x)]
      OBVIOUS
    <3> QED
      BY <1>3, <2>4, <2>5, <3>1 DEF R!StartOpened, R!NewState, RxState
  <2>7. Collected(x, 0, 0, 0, {}, {}, 0)
    BY FS_EmptySet, SizesType DEF Collected
  <2>8. partial' = [[q \in Paths |-> partial[q]] EXCEPT ![p] = UpTo(x, 0)]
    <3>1. R!FreshFile(FileSize[x]) = UpTo(x, 0)
      <4>1. \A i \in 0 .. Total(x) - 1 : ~(i < First(0))
        BY SizesType, <1>1 DEF First
      <4> QED
        BY <4>1, SameArithmetic DEF R!FreshFile, UpTo, Total
    <3>2. PICK left \in R!PartialsCleared(R!Aborted) :
            partial' = [left EXCEPT ![p] = R!FreshFile(FileSize[x])]
      BY <1>3, <2>4 DEF R!StartOpened
    <3>3. left = [q \in Paths |-> partial[q]]
      BY <2>5, <3>2, PartialsClearedIs
    <3> QED
      BY <3>1, <3>2, <3>3
  <2>9. /\ final' = [q \in Paths |-> IF q = p THEN NoFile ELSE final[q]]
        /\ marker' = {}
    <3>1. R!ClearWay(packet, {})
      BY <2>4, <2>5 DEF R!StartOpened
    <3>2. marker = {}
      BY DEF DiskOK, NoFalseFailure
    <3> HIDE DEF p
    <3> QED
      BY <1>3, <2>5, <3>1, <3>2, ClearWayWell
  <2>10. marker' = {} /\ stats'.files_failed = 0
    <3>1. stats.files_failed = 0
      BY DEF DiskOK, NoFalseFailure
    <3> QED
      BY <2>4, <2>5, <2>9, <3>1 DEF R!StartOpened
  <2>11. Rx(next)'
    <3>1. partial'[p] = UpTo(x, 0)
      BY <1>1, <2>8
    <3>2. Collecting(p, x, 0, 0, 0)'
      BY <2>6, <2>7, <3>1 DEF Collecting, Collects
    <3> QED
      BY <3>2 DEF Rx, Quiet
  <2>12. DiskOK'
    <3>1. PublishedIntact'
      BY <2>9 DEF DiskOK, PublishedIntact
    <3>2. partial' = [q \in Paths |-> partial'[q]]
      BY <2>8
    <3>3. final' = [q \in Paths |-> final'[q]]
      BY <2>9
    <3> QED
      BY <2>10, <3>1, <3>2, <3>3 DEF DiskOK, NoFalseFailure
  <2> QED
    BY <2>9, <2>11, <2>12 DEF Took
<1> QED
  BY <1>4, <1>5 DEF Follows, Recoverable

\* The file is whole once all its batches are written.
LEMMA UpToWhole ==
  ASSUME NEW x \in Versions, NEW n \in Nat, First(n) >= Total(x)
  PROVE  UpTo(x, n) = Exactly(x)
<1>1. \A i \in 0 .. Total(x) - 1 : i < First(n)
  BY SizesType
<1> QED
  BY <1>1 DEF UpTo, Exactly, Total

\* The receiver as END finds it: in the last batch, of which enough has arrived.
LEMMA LastBatch ==
  ASSUME NEW m \in Marks, NEW p, NEW x \in Versions, Rx(m),
         NEW n \in Nat, Complete(m, p, x, n), ChunksIn(n, x) = 0
  PROVE  \E b \in Nat, k \in Nat, got \in Nat :
           /\ Collecting(p, x, b, k, got) /\ got >= ChunksIn(b, x)
           /\ First(b + 1) >= Total(x)
<1>1. /\ BATCH_DATA_CHUNKS \in Nat /\ Total(x) \in Nat /\ First(n) >= Total(x)
      /\ \A k \in Nat : First(k) \in Nat /\ First(k + 1) = First(k) + BATCH_DATA_CHUNKS
  BY SizesType, ChunksInIs
<1>2. CASE n = 0 /\ m = StartMark(p, x)
  <2>1. m.kind = "START" /\ m.path = p /\ m.ver = x
    BY <1>2 DEF StartMark
  <2>2. Collecting(p, x, 0, 0, 0)
    BY <2>1 DEF Rx
  <2>3. First(0 + 1) >= Total(x)
    BY <1>1, <1>2
  <2>4. 0 \in Nat /\ 0 >= ChunksIn(0, x)
    BY <1>2
  <2> QED
    BY <2>2, <2>3, <2>4
<1>3. CASE n > 0 /\ InBatch(m, p, x, n - 1) /\ m.got >= ChunksIn(n - 1, x)
  <2> DEFINE b == n - 1
  <2>1. b \in Nat /\ b + 1 = n
    BY <1>3
  <2> HIDE DEF b
  <2>2. m.kind = "CHUNK" /\ m.path = p /\ m.ver = x /\ m.batch = b /\ m.got >= ChunksIn(b, x)
    BY <1>3 DEF InBatch, b
  <2>3. Collecting(p, x, b, m.slot + 1, m.got)
    BY <2>2 DEF Rx
  <2>4. m.slot + 1 \in Nat /\ m.got \in Nat
    BY <2>2, MarkFields
  <2>5. First(b + 1) >= Total(x)
    BY <1>1, <2>1
  <2> QED
    BY <2>1, <2>2, <2>3, <2>4, <2>5
<1> QED
  BY <1>2, <1>3 DEF Complete

\* An END arrives.
LEMMA TakeEnd ==
  ASSUME Recoverable, DiskOK, NEW m \in Marks, NEW next \in Marks, next.kind = "END",
         Rx(m), Follows(m, next), NEW packet, Carries(packet, next), R!Handle(packet)
  PROVE  Took(next)
<1> DEFINE p == next.path
           x == next.ver
<1>1. p \in Paths /\ x \in Versions /\ p # NoPath
  BY MarkFields
<1>2. packet.type = "END"
  BY DEF Carries, MkEnd
<1>3. CASE m = next
  <2>1. state = R!NewState
    BY <1>3 DEF Rx, Quiet
  <2>2. ~R!Receiving
    BY <2>1 DEF R!NewState, R!Receiving
  <2>3. UNCHANGED <<state, stats, final, partial, marker>>
    BY <1>2, <2>2 DEF R!Handle, R!HandleData, R!HandleParity, R!StartAgain, R!StartRejected,
       R!StartNotOpened, R!StartOpened, R!EndStored, R!EndFailed, R!Ignore, R!NewStart, R!vars, R!disk
  <2> QED
    BY <1>3, <2>3 DEF Took, Rx, Collecting, Collects, DiskOK, PublishedIntact, NoFalseFailure
<1>4. CASE \E n \in Nat : Complete(m, p, x, n) /\ ChunksIn(n, x) = 0
  <2>0. PICK n \in Nat : Complete(m, p, x, n) /\ ChunksIn(n, x) = 0
    BY <1>4
  <2> HIDE DEF p, x
  <2>1. PICK b \in Nat, k \in Nat, got \in Nat :
           /\ Collecting(p, x, b, k, got) /\ got >= ChunksIn(b, x)
           /\ First(b + 1) >= Total(x)
    BY <1>1, <2>0, LastBatch
  <2> USE DEF p, x
  <2>2. state.file_path = p /\ ~state.failed
    BY <2>1 DEF Collecting, Collects, RxState
  <2>3. R!Receiving
    BY <1>1, <2>2 DEF R!Receiving
  <2>4. PICK io \in R!Io : R!EndStored(packet, io) \/ R!EndFailed(packet, io)
    BY <1>2, <2>3 DEF R!Handle, R!HandleData, R!HandleParity, R!StartAgain, R!StartRejected,
       R!StartNotOpened, R!StartOpened, R!Ignore, R!NewStart
  <2>5. R!finalize_ok(state, io) /\ R!Written(state, UpTo(x, b)) = UpTo(x, b + 1)
    <3>1. Collects(state, p, x, b, k, got)
      BY <2>1 DEF Collecting
    <3> HIDE DEF p, x
    <3> QED
      BY <1>1, <2>1, <2>4, <3>1, BatchDone, IoWell
  <2>6. R!EndStored(packet, io)
    BY <2>2, <2>4, <2>5, IoWell DEF R!EndFailed, R!FinishOk
  <2>7. R!Completed = Exactly(x)
    <3>1. UpTo(x, b + 1) = Exactly(x)
      <4>1. b + 1 \in Nat
        OBVIOUS
      <4> QED
        BY <1>1, <2>1, <4>1, UpToWhole
    <3> QED
      BY <2>1, <2>2, <2>5, <3>1 DEF R!Completed, Collecting
  <2>8. final' = [q \in Paths |-> IF q = p THEN Exactly(x) ELSE final[q]]
    <3>1. final = [q \in Paths |-> final[q]]
      BY DEF DiskOK
    <3>2. final' = [final EXCEPT ![p] = Exactly(x)]
      BY <2>2, <2>6, <2>7 DEF R!EndStored
    <3> QED
      BY <1>1, <3>1, <3>2
  <2>9. partial' = [q \in Paths |-> IF q = p THEN NoFile ELSE partial[q]]
    BY <2>2, <2>6 DEF R!EndStored, R!Without
  <2>10. marker' = {} /\ stats'.files_failed = 0
    <3>1. marker = {} /\ stats.files_failed = 0
      BY DEF DiskOK, NoFalseFailure
    <3>2. PICK stale : marker' = marker \ (R!StaleMarkers \ stale)
      BY <2>6 DEF R!EndStored
    <3>3. stats'.files_failed = stats.files_failed
      BY <2>6 DEF R!EndStored
    <3> QED
      BY <3>1, <3>2, <3>3
  <2>11. Rx(next)'
    <3>1. state' = R!NewState
      BY <2>6 DEF R!EndStored, R!reset_transfer
    <3>2. final'[p] = Exactly(x)
      BY <1>1, <2>8
    <3> QED
      BY <3>1, <3>2 DEF Rx
  <2>12. DiskOK'
    <3>1. PublishedIntact'
      <4> SUFFICES ASSUME NEW q \in Paths, final'[q] # NoFile
                   PROVE  \E y \in Versions : final'[q] = Exactly(y)
        BY DEF PublishedIntact, Exactly
      <4> QED
        BY <1>1, <2>8 DEF DiskOK, PublishedIntact
    <3>2. partial' = [q \in Paths |-> partial'[q]]
      BY <2>9
    <3>3. final' = [q \in Paths |-> final'[q]]
      BY <2>8
    <3> QED
      BY <2>10, <3>1, <3>2, <3>3 DEF DiskOK, NoFalseFailure
  <2>13. \A q \in Paths \ {p} : final'[q] = final[q]
    BY <2>8
  <2> QED
    BY <2>11, <2>12, <2>13 DEF Took
<1> QED
  BY <1>3, <1>4 DEF Follows

\* What the receiver reads in the data packets of a batch.
LEMMA DataPacketIs ==
  ASSUME NEW p, NEW x \in Versions, NEW n \in Nat, NEW slot \in Nat, slot < ChunksIn(n, x)
  PROVE  LET packet == ChunkPacket(p, x, n, slot)
         IN  /\ packet = MkData(p, x, First(n) + slot)
             /\ packet.type = "DATA" /\ packet.path_hash = p /\ packet.hash_ok
             /\ packet.data.len \in 1 .. CHUNK_SIZE
             /\ R!batch_for_data(packet.count) = n
<1>1. /\ First(n) \in Nat /\ ChunksIn(n, x) \in Nat /\ ChunksIn(n, x) <= BATCH_DATA_CHUNKS
      /\ ChunksIn(n, x) > 0 => First(n) + ChunksIn(n, x) <= Total(x)
      /\ Total(x) \in Nat /\ BATCH_DATA_CHUNKS \in Nat \ {0}
  BY SizesType, ChunksInIs
<1> DEFINE i == First(n) + slot
           packet == ChunkPacket(p, x, n, slot)
<1>2. packet = MkData(p, x, i)
  BY DEF ChunkPacket
<1> HIDE DEF packet
<1>3. /\ packet.path_hash = p /\ packet.hash_ok /\ packet.type = "DATA"
      /\ packet.count = i /\ packet.data.len = ChunkLen(FileSize[x], i)
  BY <1>2 DEF MkData
<1>4. i \in Nat /\ i < Total(x)
  BY <1>1
<1>5. ChunkLen(FileSize[x], i) \in 1 .. CHUNK_SIZE
  BY <1>4, SizesType, ChunkLenIs DEF Total
<1>6. slot < BATCH_DATA_CHUNKS
  BY <1>1
<1>7. (n * BATCH_DATA_CHUNKS + slot) \div BATCH_DATA_CHUNKS = n
  BY <1>1, <1>6, DivIs
<1>8. R!batch_for_data(i) = n
  BY <1>7 DEF R!batch_for_data, First
<1> HIDE DEF i
<1> QED
  BY <1>2, <1>3, <1>5, <1>8 DEF i, packet

\* What it reads in the parity packets.
LEMMA ParityPacketIs ==
  ASSUME NEW p, NEW x \in Versions, NEW n \in Nat, NEW slot \in Nat,
         ~(slot < ChunksIn(n, x)), slot < ChunksIn(n, x) + BATCH_PARITY_CHUNKS
  PROVE  LET packet == ChunkPacket(p, x, n, slot)
             j == slot - ChunksIn(n, x)
         IN  /\ packet = MkParity(p, Codeword(n, x), n, j)
             /\ packet.type = "PARITY" /\ packet.path_hash = p /\ packet.hash_ok
             /\ packet.data.len = SHARD_SIZE
             /\ R!batch_for_parity(packet.count) = n
             /\ packet.count % BATCH_PARITY_CHUNKS = j
             /\ j \in 0 .. BATCH_PARITY_CHUNKS - 1
<1>1. ChunksIn(n, x) \in Nat /\ BATCH_PARITY_CHUNKS \in Nat \ {0}
  BY SizesType, ChunksInIs
<1> DEFINE j == slot - ChunksIn(n, x)
           packet == ChunkPacket(p, x, n, slot)
<1>2. packet = MkParity(p, Codeword(n, x), n, j)
  BY DEF ChunkPacket
<1> HIDE DEF packet
<1>3. /\ packet.path_hash = p /\ packet.hash_ok /\ packet.type = "PARITY"
      /\ packet.count = n * BATCH_PARITY_CHUNKS + j /\ packet.data.len = SHARD_SIZE
  BY <1>2 DEF MkParity
<1>4. j \in Nat /\ j < BATCH_PARITY_CHUNKS /\ j \in 0 .. BATCH_PARITY_CHUNKS - 1
  BY <1>1
<1> HIDE DEF j
<1>5. /\ (n * BATCH_PARITY_CHUNKS + j) \div BATCH_PARITY_CHUNKS = n
      /\ (n * BATCH_PARITY_CHUNKS + j) % BATCH_PARITY_CHUNKS = j
  BY <1>1, <1>4, DivIs
<1>6. R!batch_for_parity(packet.count) = n /\ packet.count % BATCH_PARITY_CHUNKS = j
  BY <1>3, <1>5 DEF R!batch_for_parity
<1> QED
  BY <1>2, <1>3, <1>4, <1>6 DEF j, packet

\* Filing the packet in the batch it belongs to.
Filed(s, packet, x, n, slot) ==
  IF slot < ChunksIn(n, x) THEN R!buffer_data(s, packet)
  ELSE R!buffer_parity(s, packet, slot - ChunksIn(n, x))

\* The receiver takes every packet of the transfer it is in.
LEMMA HandleChunk ==
  ASSUME NEW p \in Paths, NEW x \in Versions, NEW n \in Nat, NEW slot \in Nat,
         NEW packet, packet = ChunkPacket(p, x, n, slot),
         ChunksIn(n, x) > 0, slot < ChunksIn(n, x) + BATCH_PARITY_CHUNKS,
         state.file_path = p, state.path_hash = p, ~state.failed,
         R!Handle(packet)
  PROVE  \E io \in R!Io :
           /\ R!WriteThrough(n, io)
           /\ UNCHANGED <<stats, final, marker>>
           /\ LET s == R!EnterBatch(state, n, io)
              IN  state' = IF ~s.failed /\ n = s.current_batch THEN Filed(s, packet, x, n, slot) ELSE s
<1>1. R!Receiving
  BY ProtoAssumption DEF R!Receiving
<1>2. CASE slot < ChunksIn(n, x)
  <2>1. /\ packet.type = "DATA" /\ packet.path_hash = p /\ packet.hash_ok
        /\ packet.data.len \in 1 .. CHUNK_SIZE /\ R!batch_for_data(packet.count) = n
    BY <1>2, DataPacketIs
  <2>2. R!Accepts(packet)
    BY <1>1, <2>1 DEF R!Accepts, R!is_chunk_valid
  <2>3. PICK io \in R!Io : R!HandleData(packet, io)
    BY <2>1, <2>2 DEF R!Handle, R!HandleParity, R!StartAgain, R!StartRejected, R!StartNotOpened,
       R!StartOpened, R!EndStored, R!EndFailed, R!Ignore, R!NewStart
  <2> QED
    BY <1>2, <2>1, <2>3 DEF R!HandleData, Filed
<1>3. CASE ~(slot < ChunksIn(n, x))
  <2>1. /\ packet.type = "PARITY" /\ packet.path_hash = p /\ packet.hash_ok
        /\ packet.data.len = SHARD_SIZE /\ R!batch_for_parity(packet.count) = n
        /\ packet.count % BATCH_PARITY_CHUNKS = slot - ChunksIn(n, x)
    BY <1>3, ParityPacketIs
  <2>2. R!Accepts(packet)
    BY <1>1, <2>1 DEF R!Accepts, R!is_chunk_valid
  <2>3. PICK io \in R!Io : R!HandleParity(packet, io)
    BY <2>1, <2>2 DEF R!Handle, R!HandleData, R!StartAgain, R!StartRejected, R!StartNotOpened,
       R!StartOpened, R!EndStored, R!EndFailed, R!Ignore, R!NewStart
  <2> QED
    BY <1>3, <2>1, <2>3 DEF R!HandleParity, Filed
<1> QED
  BY <1>2, <1>3

\* Filing the next packet of a batch adds it to what has been collected.
LEMMA FiledIs ==
  ASSUME Recoverable, NEW p \in Paths, NEW x \in Versions, NEW n \in Nat, NEW slot \in Nat,
         NEW packet, packet = ChunkPacket(p, x, n, slot),
         slot < ChunksIn(n, x) + BATCH_PARITY_CHUNKS,
         NEW k \in Nat, k <= slot, NEW got \in Nat, NEW s, Collects(s, p, x, n, k, got)
  PROVE  Collects(Filed(s, packet, x, n, slot), p, x, n, slot + 1, got + 1)
<1>1. CASE slot < ChunksIn(n, x)
  <2>1. packet = MkData(p, x, First(n) + slot)
    BY <1>1, DataPacketIs
  <2> QED
    BY <1>1, <2>1, BufferData DEF Filed
<1>2. CASE ~(slot < ChunksIn(n, x))
  <2> DEFINE j == slot - ChunksIn(n, x)
  <2>1. packet = MkParity(p, Codeword(n, x), n, j) /\ j \in 0 .. BATCH_PARITY_CHUNKS - 1
    BY <1>2, ParityPacketIs
  <2>2. ChunksIn(n, x) + j = slot
    BY ChunksInIs
  <2> HIDE DEF j
  <2>3. Collects(R!buffer_parity(s, packet, j), p, x, n, ChunksIn(n, x) + j + 1, got + 1)
    BY <2>1, <2>2, BufferParity
  <2> QED
    BY <1>2, <2>2, <2>3 DEF Filed, j
<1> QED
  BY <1>1, <1>2

\* A data or parity packet arrives.
LEMMA TakeChunk ==
  ASSUME Recoverable, DiskOK, NEW m \in Marks, NEW next \in Marks, next.kind = "CHUNK",
         Rx(m), Follows(m, next), NEW packet, Carries(packet, next), R!Handle(packet)
  PROVE  Took(next)
<1>1. PICK p \in Paths, x \in Versions, n \in Nat, slot \in Nat, got \in Nat :
        /\ p = next.path /\ x = next.ver /\ n = next.batch /\ slot = next.slot /\ got = next.got
  BY MarkFields
<1>2. /\ packet = ChunkPacket(p, x, n, slot) /\ ChunksIn(n, x) > 0
      /\ slot < ChunksIn(n, x) + BATCH_PARITY_CHUNKS
  BY <1>1 DEF Carries
\* Before the packet the receiver is in this batch, or in the one before it.
<1>3. \/ \E k \in Nat, g \in Nat : Collecting(p, x, n, k, g) /\ k <= slot /\ got = g + 1
      \/ \E b \in Nat, k \in Nat, g \in Nat :
           n = b + 1 /\ Collecting(p, x, b, k, g) /\ g >= ChunksIn(b, x) /\ got = 1
  <2>1. CASE n = 0 /\ m = StartMark(p, x) /\ got = 1
    <3>1. Collecting(p, x, n, 0, 0)
      BY <2>1 DEF Rx, StartMark
    <3>2. 0 \in Nat /\ 0 <= slot /\ got = 0 + 1
      BY <2>1
    <3> QED
      BY <3>1, <3>2
  <2>2. CASE n > 0 /\ InBatch(m, p, x, n - 1) /\ m.got >= ChunksIn(n - 1, x) /\ got = 1
    <3> DEFINE b == n - 1
    <3>1. b \in Nat /\ n = b + 1
      BY <2>2
    <3> HIDE DEF b
    <3>2. m.kind = "CHUNK" /\ m.path = p /\ m.ver = x /\ m.batch = b /\ m.got >= ChunksIn(b, x)
      BY <2>2 DEF InBatch, b
    <3>3. Collecting(p, x, b, m.slot + 1, m.got)
      BY <3>2 DEF Rx
    <3>4. m.slot + 1 \in Nat /\ m.got \in Nat
      BY <3>2, MarkFields
    <3> QED
      BY <2>2, <3>1, <3>2, <3>3, <3>4
  <2>3. CASE InBatch(m, p, x, n) /\ m.slot < slot /\ got = m.got + 1
    <3>1. m.kind = "CHUNK" /\ m.path = p /\ m.ver = x /\ m.batch = n
      BY <2>3 DEF InBatch
    <3>2. Collecting(p, x, n, m.slot + 1, m.got)
      BY <3>1 DEF Rx
    <3>3. m.slot \in Nat /\ m.got \in Nat
      BY <3>1, MarkFields
    <3>4. m.slot + 1 \in Nat /\ m.slot + 1 <= slot
      BY <2>3, <3>3
    <3> QED
      BY <2>3, <3>2, <3>3, <3>4
  <2> QED
    BY <1>1, <2>1, <2>2, <2>3 DEF Follows, Complete
<1>4. state.file_path = p /\ state.path_hash = p /\ ~state.failed
  BY <1>3 DEF Collecting, Collects, RxState
<1>5. PICK io \in R!Io :
        /\ R!WriteThrough(n, io)
        /\ UNCHANGED <<stats, final, marker>>
        /\ LET s == R!EnterBatch(state, n, io)
           IN  state' = IF ~s.failed /\ n = s.current_batch THEN Filed(s, packet, x, n, slot) ELSE s
  BY <1>2, <1>4, HandleChunk
\* Either way it is in this batch once EnterBatch is done.
<1> DEFINE Entered(k, g) ==
             /\ Collects(R!EnterBatch(state, n, io), p, x, n, k, g) /\ k <= slot /\ got = g + 1
             /\ partial'[p] = UpTo(x, n) /\ partial' = [q \in Paths |-> partial'[q]]
<1>6. \E k \in Nat, g \in Nat : Entered(k, g)
  <2>0. partial = [q \in Paths |-> partial[q]]
    BY DEF DiskOK
  <2>1. ASSUME NEW k \in Nat, NEW g \in Nat,
               Collecting(p, x, n, k, g), k <= slot, got = g + 1
        PROVE  \E i \in Nat, j \in Nat : Entered(i, j)
    <3>1. state.current_batch = n
      BY <2>1 DEF Collecting, Collects, RxState
    <3>2. ~(n > state.current_batch)
      BY <3>1
    <3>3. R!EnterBatch(state, n, io) = state /\ UNCHANGED partial
      BY <1>5, <3>2 DEF R!EnterBatch, R!WriteThrough
    <3>4. Collects(R!EnterBatch(state, n, io), p, x, n, k, g) /\ partial'[p] = UpTo(x, n)
      BY <2>1, <3>3 DEF Collecting
    <3>5. partial' = [q \in Paths |-> partial'[q]]
      BY <2>0, <3>3
    <3> QED
      BY <2>1, <3>4, <3>5
  <2>2. ASSUME NEW b \in Nat, NEW k \in Nat, NEW g \in Nat,
               n = b + 1, Collecting(p, x, b, k, g), g >= ChunksIn(b, x), got = 1
        PROVE  \E i \in Nat, j \in Nat : Entered(i, j)
    <3>1. state.current_batch = b /\ state.file_size = FileSize[x]
      BY <2>2 DEF Collecting, Collects, RxState
    <3>2. n > state.current_batch
      BY <2>2, <3>1
    <3>3. partial[p] = UpTo(x, b) /\ Collects(state, p, x, b, k, g)
      BY <2>2 DEF Collecting
    <3>4. R!finalize_ok(state, io) /\ R!Written(state, UpTo(x, b)) = UpTo(x, b + 1)
      BY <2>2, <3>3, BatchDone, IoWell
    <3>5. R!batch_data_size(state.current_batch, state.file_size) > 0
      <4>1. ChunksIn(b, x) > 0
        BY <1>2, <2>2, ChunksBefore
      <4> QED
        BY <3>1, <4>1, SameArithmetic DEF ChunksIn
    <3>6. partial' = [partial EXCEPT ![p] = UpTo(x, n)]
      BY <1>4, <1>5, <2>2, <3>2, <3>3, <3>4, <3>5 DEF R!WriteThrough
    <3>7. partial'[p] = UpTo(x, n) /\ partial' = [q \in Paths |-> partial'[q]]
      BY <2>0, <3>6
    <3>8. Collects(R!EnterBatch(state, n, io), p, x, n, 0, 0)
      BY <2>2, <3>3, <3>4, EnterNext
    <3>9. 0 \in Nat /\ 0 <= slot /\ got = 0 + 1
      BY <2>2
    <3> QED
      BY <3>7, <3>8, <3>9
  <2> QED
    BY <1>3, <2>1, <2>2
<1>7. PICK k \in Nat, g \in Nat : Entered(k, g)
  BY <1>6
<1>8. Collects(state', p, x, n, slot + 1, got)
  <2> DEFINE s == R!EnterBatch(state, n, io)
  <2>1. ~s.failed /\ s.current_batch = n
    BY <1>7 DEF Collects, RxState
  <2>2. state' = Filed(s, packet, x, n, slot)
    BY <1>5, <2>1
  <2>3. Collects(s, p, x, n, k, g)
    BY <1>7
  <2> HIDE DEF s
  <2>4. Collects(Filed(s, packet, x, n, slot), p, x, n, slot + 1, g + 1)
    BY <1>2, <1>7, <2>3, FiledIs
  <2> QED
    BY <1>7, <2>2, <2>4
<1>9. Rx(next)'
  <2>1. Collecting(p, x, n, slot + 1, got)'
    BY <1>7, <1>8 DEF Collecting
  <2> QED
    BY <1>1, <2>1 DEF Rx, Quiet
<1>10. DiskOK'
  BY <1>5, <1>7 DEF DiskOK, PublishedIntact, NoFalseFailure
<1> QED
  BY <1>5, <1>9, <1>10 DEF Took

\* Whatever the link carries, the receiver takes it.
LEMMA TakeAny ==
  ASSUME Recoverable, DiskOK, NEW m \in Marks, NEW next \in Marks,
         Rx(m), Follows(m, next), NEW packet, Carries(packet, next), R!Handle(packet)
  PROVE  Took(next)
<1>1. next.kind \in {"START", "CHUNK", "END"}
  BY DEF Carries
<1> QED
  BY <1>1, TakeStart, TakeChunk, TakeEnd

-----------------------------------------------------------------------------
(* The sender's steps                                                      *)

\* One step of the sender after mark m, which leaves the directory alone: it
\* keeps its promises, and a packet it hands to the link comes with a mark that
\* continues the trace.
Emits(m, packet, next) ==
  /\ link' = Append(link, packet)
  /\ Carries(packet, next) /\ Follows(m, next) /\ Tx(next)'
  /\ next.path \in Paths /\ source[next.path] # NoFile

Goes(m) ==
  /\ SenderOK' /\ UNCHANGED <<source, dropped>>
  /\ \/ UNCHANGED link /\ Tx(m)'
     \/ \E packet \in PacketType, next \in Marks : Emits(m, packet, next)

\* The marks the sender sets.
LEMMA NewMarks ==
  ASSUME NEW p \in Paths, NEW x \in Versions
  PROVE  /\ StartMark(p, x) \in Marks /\ EndMark(p, x) \in Marks
         /\ \A n, k, got \in Nat : ChunkMark(p, x, n, k, got) \in Marks
         /\ ~Quiet(StartMark(p, x)) /\ Quiet(EndMark(p, x))
         /\ StartMark(p, x).path = p /\ EndMark(p, x).path = p
         /\ StartMark(p, x).ver = x /\ EndMark(p, x).ver = x
         /\ StartMark(p, x).kind = "START" /\ EndMark(p, x).kind = "END"
BY DEF StartMark, EndMark, ChunkMark, Marks, Quiet

\* One more of the packets that are sent together.
LEMMA CountedMore ==
  ASSUME NEW s \in SndType, NEW t, t = [s EXCEPT !.sent = s.sent + 1]
  PROVE  /\ t \in SndType /\ t.sent = s.sent + 1 /\ t.pc = s.pc
         /\ t.todo = s.todo /\ t.path = s.path /\ t.initial = s.initial
         /\ t.filesize = s.filesize /\ t.reading = s.reading /\ t.count = s.count
         /\ t.batch_idx = s.batch_idx /\ t.batch_payloads = s.batch_payloads
BY DEF SndType

\* The link takes the packet or loses it, before packets of its group being lost.
Handed(packet, kind, before) ==
  \/ link' = Append(link, packet) /\ lost' = [lost EXCEPT ![kind] = before]
  \/ /\ before < MaxLost[kind] /\ UNCHANGED link
     /\ lost' = [lost EXCEPT ![kind] = before + 1]

\* Which of the two it was can be told from the losses counted.
LEMMA HandedIs ==
  ASSUME SenderOK, NEW packet \in PacketType, NEW kind \in Kinds, NEW before \in Nat,
         Handed(packet, kind, before)
  PROVE  /\ lost' \in [Kinds -> Nat] /\ link' \in Seq(PacketType)
         /\ \/ link' = Append(link, packet) /\ lost'[kind] = before
            \/ before < MaxLost[kind] /\ UNCHANGED link /\ lost'[kind] = before + 1
<1>1. lost \in [Kinds -> Nat] /\ link \in Seq(PacketType)
  BY DEF SenderOK
<1>2. CASE link' = Append(link, packet) /\ lost' = [lost EXCEPT ![kind] = before]
  BY <1>1, <1>2
<1>3. CASE /\ before < MaxLost[kind] /\ UNCHANGED link
           /\ lost' = [lost EXCEPT ![kind] = before + 1]
  BY <1>1, <1>3
<1> QED
  BY <1>2, <1>3 DEF Handed

\* send_start_packet
LEMMA GoStart ==
  ASSUME LossBounded, SenderOK, NEW m \in Marks, Tx(m), send_start_packet
  PROVE  Goes(m)
<1>1. snd.pc = "start" /\ snd \in SndType /\ lost \in [Kinds -> Nat] /\ link \in Seq(PacketType)
  BY DEF SenderOK, send_start_packet
<1>2. PICK p \in Paths, x \in Versions : p = snd.path /\ x = source[p]
  BY <1>1 DEF SenderOK
<1>3. PICK before \in Nat, sent \in Nat : before = Lost("START", snd.sent) /\ sent = snd.sent
  BY <1>1 DEF SndType, Lost, Kinds
<1> DEFINE next == StartMark(p, x)
           packet == MkStart(p, FileSize[x], BATCH_PARITY_CHUNKS)
<1>4. TxStart(m) /\ snd.count = 0 /\ snd.batch_idx = 0 /\ snd.batch_payloads = <<>>
  BY <1>1 DEF Tx
<1>5. /\ snd.filesize = FileSize[x] /\ sent < CONTROL_RESEND
      /\ before <= sent /\ before <= MaxLost["START"]
      /\ IF sent = before THEN Between(m) ELSE m = next
      /\ "START" \in Kinds /\ CONTROL_RESEND \in Nat
      /\ MaxLost["START"] \in Nat /\ MaxLost["START"] < CONTROL_RESEND
  BY <1>2, <1>3, <1>4, SizesType, LinkAssumption DEF TxStart, Content, Kinds, LossBounded
<1>6. /\ snd' = Counted(snd, CONTROL_RESEND, "open")
      /\ UNCHANGED <<source, dropped, used>>
      /\ Transmit(packet, "START", sent = 0)
  BY <1>2, <1>3, <1>5 DEF send_start_packet
<1>7. /\ snd' \in SndType /\ snd'.path = p /\ snd'.filesize = FileSize[x]
      /\ snd'.count = 0 /\ snd'.batch_idx = 0 /\ snd'.batch_payloads = <<>>
      /\ IF sent + 1 < CONTROL_RESEND THEN snd'.sent = sent + 1 /\ snd'.pc = "start"
         ELSE snd'.sent = 0 /\ snd'.pc = "open"
  <2>1. CASE sent + 1 < CONTROL_RESEND
    <3>1. snd' = [snd EXCEPT !.sent = snd.sent + 1]
      BY <1>3, <1>6, <2>1 DEF Counted
    <3>2. /\ snd' \in SndType /\ snd'.sent = snd.sent + 1 /\ snd'.pc = snd.pc
          /\ snd'.path = snd.path /\ snd'.filesize = snd.filesize /\ snd'.count = snd.count
          /\ snd'.batch_idx = snd.batch_idx /\ snd'.batch_payloads = snd.batch_payloads
      BY <1>1, <3>1, CountedMore
    <3> QED
      BY <1>1, <1>2, <1>3, <1>4, <1>5, <2>1, <3>2
  <2>2. CASE ~(sent + 1 < CONTROL_RESEND)
    <3>1. snd' = [snd EXCEPT !.sent = 0, !.pc = "open"]
      BY <1>3, <1>6, <2>2 DEF Counted
    <3>2. /\ snd' \in SndType /\ snd'.sent = 0 /\ snd'.pc = "open"
          /\ snd'.path = snd.path /\ snd'.filesize = snd.filesize /\ snd'.count = snd.count
          /\ snd'.batch_idx = snd.batch_idx /\ snd'.batch_payloads = snd.batch_payloads
      BY <1>1, <3>1 DEF SndType
    <3> QED
      BY <1>1, <1>2, <1>3, <1>4, <1>5, <2>2, <3>2
  <2> QED
    BY <2>1, <2>2
<1>8. Content' = x
  BY <1>2, <1>6, <1>7 DEF Content
<1>9. Handed(packet, "START", before)
  BY <1>3, <1>6 DEF Transmit, Lost, Handed
<1>10. packet \in PacketType
  BY SizesType DEF PacketType, MkStart, StartPacket, PathHash
<1> HIDE DEF next, packet
<1>11. /\ lost' \in [Kinds -> Nat] /\ link' \in Seq(PacketType)
      /\ \/ link' = Append(link, packet) /\ lost'["START"] = before
         \/ before < MaxLost["START"] /\ UNCHANGED link /\ lost'["START"] = before + 1
  BY <1>5, <1>9, <1>10, HandedIs
<1>12. SenderOK'
  <2>1. snd'.path \in Paths /\ source'[snd'.path] \in Versions
    BY <1>2, <1>6, <1>7
  <2> QED
    BY <1>6, <1>7, <1>11, <2>1 DEF SenderOK
<1>13. ASSUME NEW o, NEW l \in Nat, lost'["START"] = l, l <= sent + 1, l <= MaxLost["START"],
              IF sent + 1 = l THEN Between(o) ELSE o = next
       PROVE  Tx(o)'
  <2>0. Between(o) => Between(o)'
    BY <1>6 DEF Between, Abandoned
  <2>1. CASE sent + 1 < CONTROL_RESEND
    <3>1. snd'.sent = sent + 1 /\ snd'.pc = "start"
      BY <1>7, <2>1
    <3>2. Lost("START", snd.sent)' = l
      BY <1>3, <1>13, <3>1 DEF Lost
    <3>3. TxStart(o)'
      BY <1>5, <1>7, <1>8, <1>13, <2>0, <2>1, <3>1, <3>2 DEF TxStart, next
    <3> QED
      BY <1>7, <3>1, <3>3 DEF Tx
  <2>2. CASE ~(sent + 1 < CONTROL_RESEND)
    <3>1. snd'.sent = 0 /\ snd'.pc = "open"
      BY <1>7, <2>2
    <3>2. o = next
      BY <1>5, <1>13, <2>2
    <3> QED
      BY <1>7, <1>8, <3>1, <3>2 DEF Tx, next
  <2> QED
    BY <2>1, <2>2
<1>14. CASE link' = Append(link, packet) /\ lost'["START"] = before
  <2>1. before <= sent + 1 /\ before # sent + 1
    BY <1>5
  <2>2. Tx(next)'
    BY <1>5, <1>13, <1>14, <2>1
  <2>3. /\ next \in Marks /\ next.kind = "START" /\ next.path = p /\ next.ver = x
    BY <1>2, NewMarks DEF next
  <2>4. Carries(packet, next)
    BY <1>5, <2>3 DEF Carries, packet
  <2>5. Follows(m, next)
    BY <1>2, <1>5, <2>3 DEF Follows, Between, Abandoned
  <2>6. next.path \in Paths /\ source[next.path] # NoFile
    BY <1>2, <2>3, ProtoAssumption
  <2> QED
    BY <1>6, <1>10, <1>12, <1>14, <2>2, <2>3, <2>4, <2>5, <2>6 DEF Goes, Emits
<1>15. CASE before < MaxLost["START"] /\ UNCHANGED link /\ lost'["START"] = before + 1
  <2>1. /\ before + 1 \in Nat /\ before + 1 <= sent + 1 /\ before + 1 <= MaxLost["START"]
        /\ sent + 1 = before + 1 <=> sent = before
    BY <1>5, <1>15
  <2>2. Tx(m)'
    BY <1>5, <1>13, <1>15, <2>1
  <2> QED
    BY <1>6, <1>12, <1>15, <2>2 DEF Goes
<1> QED
  BY <1>11, <1>14, <1>15

\* send_end_packet
LEMMA GoEnd ==
  ASSUME LossBounded, SenderOK, NEW m \in Marks, Tx(m), send_end_packet
  PROVE  Goes(m)
<1>1. snd.pc = "end" /\ snd \in SndType
  BY DEF SenderOK, send_end_packet
<1>2. PICK p \in Paths, x \in Versions, n \in Nat :
        p = snd.path /\ x = source[p] /\ n = snd.batch_idx
  BY <1>1 DEF SenderOK, SndType
<1>3. PICK before \in Nat, sent \in Nat : before = Lost("END", snd.sent) /\ sent = snd.sent
  BY <1>1 DEF SenderOK, SndType, Lost, Kinds
<1> DEFINE next == EndMark(p, x)
           packet == MkEnd(p, Total(x))
<1>4. TxEnd(m)
  BY <1>1 DEF Tx
<1>5. /\ snd.count = Total(x) /\ ChunksIn(n, x) = 0 /\ sent < CONTROL_RESEND
      /\ before <= sent /\ before <= MaxLost["END"]
      /\ IF sent = before THEN Complete(m, p, x, n) ELSE m = next
      /\ "END" \in Kinds /\ CONTROL_RESEND \in Nat
      /\ MaxLost["END"] \in Nat /\ MaxLost["END"] < CONTROL_RESEND
  BY <1>2, <1>3, <1>4, SizesType, LinkAssumption DEF TxEnd, Content, Kinds, LossBounded
<1>6. /\ snd' = Counted(snd, CONTROL_RESEND, "remove")
      /\ UNCHANGED <<source, dropped, used>>
      /\ Transmit(packet, "END", sent = 0)
  BY <1>2, <1>3, <1>5 DEF send_end_packet
<1>7. /\ snd' \in SndType /\ snd'.path = p /\ snd'.count = Total(x) /\ snd'.batch_idx = n
      /\ IF sent + 1 < CONTROL_RESEND THEN snd'.sent = sent + 1 /\ snd'.pc = "end"
         ELSE snd'.sent = 0 /\ snd'.pc = "remove"
  <2>1. CASE sent + 1 < CONTROL_RESEND
    <3>1. snd' = [snd EXCEPT !.sent = snd.sent + 1]
      BY <1>3, <1>6, <2>1 DEF Counted
    <3>2. /\ snd' \in SndType /\ snd'.sent = snd.sent + 1 /\ snd'.pc = snd.pc
          /\ snd'.path = snd.path /\ snd'.count = snd.count /\ snd'.batch_idx = snd.batch_idx
      BY <1>1, <3>1, CountedMore
    <3> QED
      BY <1>1, <1>2, <1>3, <1>5, <2>1, <3>2
  <2>2. CASE ~(sent + 1 < CONTROL_RESEND)
    <3>1. snd' = [snd EXCEPT !.sent = 0, !.pc = "remove"]
      BY <1>3, <1>6, <2>2 DEF Counted
    <3>2. /\ snd' \in SndType /\ snd'.sent = 0 /\ snd'.pc = "remove"
          /\ snd'.path = snd.path /\ snd'.count = snd.count /\ snd'.batch_idx = snd.batch_idx
      BY <1>1, <3>1 DEF SndType
    <3> QED
      BY <1>1, <1>2, <1>3, <1>5, <2>2, <3>2
  <2> QED
    BY <2>1, <2>2
<1>8. Content' = x
  BY <1>2, <1>6, <1>7 DEF Content
<1>9. Handed(packet, "END", before)
  BY <1>3, <1>6 DEF Transmit, Lost, Handed
<1>10. packet \in PacketType
  BY SizesType DEF PacketType, MkEnd, EndPacket
<1> HIDE DEF next, packet
<1>11. /\ lost' \in [Kinds -> Nat] /\ link' \in Seq(PacketType)
       /\ \/ link' = Append(link, packet) /\ lost'["END"] = before
          \/ before < MaxLost["END"] /\ UNCHANGED link /\ lost'["END"] = before + 1
  BY <1>5, <1>9, <1>10, HandedIs
<1>12. SenderOK'
  <2>1. snd'.path \in Paths /\ source'[snd'.path] \in Versions
    BY <1>2, <1>6, <1>7
  <2> QED
    BY <1>6, <1>7, <1>11, <2>1 DEF SenderOK
<1>13. ASSUME NEW o, NEW l \in Nat, lost'["END"] = l, l <= sent + 1, l <= MaxLost["END"],
              IF sent + 1 = l THEN Complete(o, p, x, n) ELSE o = next
       PROVE  Tx(o)'
  <2>1. CASE sent + 1 < CONTROL_RESEND
    <3>1. snd'.sent = sent + 1 /\ snd'.pc = "end"
      BY <1>7, <2>1
    <3>2. Lost("END", snd.sent)' = l
      BY <1>3, <1>13, <3>1 DEF Lost
    <3>3. TxEnd(o)'
      BY <1>5, <1>7, <1>8, <1>13, <2>1, <3>1, <3>2 DEF TxEnd, next
    <3> QED
      BY <3>1, <3>3 DEF Tx
  <2>2. CASE ~(sent + 1 < CONTROL_RESEND)
    <3>1. snd'.sent = 0 /\ snd'.pc = "remove"
      BY <1>7, <2>2
    <3>2. o = next
      BY <1>5, <1>13, <2>2
    <3> QED
      BY <1>7, <1>8, <3>1, <3>2 DEF Tx, next
  <2> QED
    BY <2>1, <2>2
<1>14. CASE link' = Append(link, packet) /\ lost'["END"] = before
  <2>1. before <= sent + 1 /\ before # sent + 1
    BY <1>5
  <2>2. Tx(next)'
    BY <1>5, <1>13, <1>14, <2>1
  <2>3. next \in Marks /\ next.kind = "END" /\ next.path = p /\ next.ver = x
    BY NewMarks DEF next
  <2>4. Carries(packet, next)
    BY <2>3 DEF Carries, packet
  <2>5. Follows(m, next)
    BY <1>5, <2>3 DEF Follows
  <2>6. next.path \in Paths /\ source[next.path] # NoFile
    BY <1>2, <2>3, ProtoAssumption
  <2> QED
    BY <1>6, <1>10, <1>12, <1>14, <2>2, <2>3, <2>4, <2>5, <2>6 DEF Goes, Emits
<1>15. CASE before < MaxLost["END"] /\ UNCHANGED link /\ lost'["END"] = before + 1
  <2>1. /\ before + 1 \in Nat /\ before + 1 <= sent + 1 /\ before + 1 <= MaxLost["END"]
        /\ sent + 1 = before + 1 <=> sent = before
    BY <1>5, <1>15
  <2>2. Tx(m)'
    BY <1>5, <1>13, <1>15, <2>1
  <2> QED
    BY <1>6, <1>12, <1>15, <2>2 DEF Goes
<1> QED
  BY <1>11, <1>14, <1>15

\* send_data_packet
LEMMA GoData ==
  ASSUME SenderOK, NEW m \in Marks, Tx(m), send_data_packet
  PROVE  Goes(m)
<1>1. /\ snd.pc = "read" /\ snd \in SndType /\ lost \in [Kinds -> Nat]
      /\ snd.batch_payloads \in Seq(Versions) /\ TxChunk(m) /\ "BATCH" \in Kinds
  BY DEF SenderOK, send_data_packet, Tx, SndType, Kinds
<1>2. PICK p \in Paths, x \in Versions, n \in Nat, len \in Nat :
        /\ p = snd.path /\ x = source[p] /\ n = snd.batch_idx
        /\ len = Len(snd.batch_payloads)
  BY <1>1 DEF SenderOK, SndType
<1>3. /\ snd.reading = x /\ snd.count = First(n) + len /\ snd.sent = 0
      /\ len < BATCH_DATA_CHUNKS /\ \A k \in 1 .. len : snd.batch_payloads[k] = x
  BY <1>1, <1>2 DEF TxChunk, TxBatch, Content
<1>4. Slot = len
  BY <1>2, <1>3 DEF Slot
<1>5. PICK before \in Nat : before = Lost("BATCH", len)
  BY <1>1 DEF Lost
<1> DEFINE next == ChunkMark(p, x, n, len, len - before + 1)
           packet == MkData(p, x, First(n) + len)
<1>6. /\ before <= len /\ before <= MaxLost["BATCH"]
      /\ IF len = before THEN Complete(m, p, x, n)
         ELSE InBatch(m, p, x, n) /\ m.slot < len /\ m.got = len - before
  BY <1>1, <1>2, <1>4, <1>5 DEF TxChunk, Content
<1>7. /\ First(n) \in Nat /\ Total(x) \in Nat /\ FileSize[x] \in Nat
      /\ BATCH_DATA_CHUNKS \in Nat \ {0} /\ BATCH_PARITY_CHUNKS \in Nat /\ MaxLost["BATCH"] \in Nat
  BY <1>1, SizesType, LinkAssumption
<1>8. First(n) + len < Total(x)
  <2>1. ChunkLen(FileSize[x], First(n) + len) > 0
    BY <1>3 DEF send_data_packet, Remaining
  <2>2. PICK i \in Nat : i = First(n) + len
    BY <1>7
  <2>3. i >= Total(x) => ChunkLen(FileSize[x], i) = 0
    BY <1>7, ChunkLenIs DEF Total
  <2> QED
    BY <1>7, <2>1, <2>2, <2>3
<1>9. len < ChunksIn(n, x) /\ ChunksIn(n, x) \in Nat
  <2>1. /\ ChunksIn(n, x) \in 0 .. BATCH_DATA_CHUNKS
        /\ ChunksIn(n, x) = 0 <=> First(n) >= Total(x)
        /\ ChunksIn(n, x) > 0 => \/ ChunksIn(n, x) = BATCH_DATA_CHUNKS
                                 \/ First(n) + ChunksIn(n, x) = Total(x)
    BY ChunksInIs
  <2> QED
    BY <1>3, <1>7, <1>8, <2>1
<1>10. /\ snd' = [snd EXCEPT !.count = snd.count + 1,
                             !.batch_payloads = Append(snd.batch_payloads, x),
                             !.pc = IF len + 1 = BATCH_DATA_CHUNKS THEN "parity" ELSE "read"]
       /\ UNCHANGED <<source, dropped, used>>
       /\ Transmit(packet, "BATCH", snd.batch_payloads = <<>>)
  BY <1>2, <1>3 DEF send_data_packet
<1>11. /\ snd'.path = p /\ snd'.batch_idx = n /\ snd'.reading = x /\ snd'.sent = 0
       /\ snd'.count = First(n) + len + 1 /\ snd'.batch_payloads = Append(snd.batch_payloads, x)
       /\ snd'.pc = IF len + 1 = BATCH_DATA_CHUNKS THEN "parity" ELSE "read"
  BY <1>1, <1>2, <1>3, <1>10 DEF SndType
<1>12. snd' \in SndType
  <2>1. Append(snd.batch_payloads, x) \in Seq(Versions) /\ snd.count + 1 \in Nat
    BY <1>1 DEF SndType
  <2> QED
    BY <1>1, <1>10, <2>1 DEF SndType
<1>13. /\ Len(snd'.batch_payloads) = len + 1
       /\ \A k \in 1 .. len + 1 : snd'.batch_payloads[k] = x
  BY <1>1, <1>2, <1>3, <1>11
<1>14. Content' = x
  BY <1>2, <1>10, <1>11 DEF Content
<1>15. Handed(packet, "BATCH", before)
  <2>1. snd.batch_payloads = <<>> <=> len = 0
    BY <1>1, <1>2
  <2> QED
    BY <1>5, <1>10, <2>1 DEF Transmit, Lost, Handed
<1>16. packet \in PacketType
  <2>1. PICK i \in Nat : i = First(n) + len
    BY <1>7
  <2>2. ChunkLen(FileSize[x], i) \in Nat
    BY <1>7, ChunkLenIs
  <2> QED
    BY <2>1, <2>2 DEF PacketType, MkData, DataPacket, DataPayload
<1> HIDE DEF next, packet
<1>17. /\ lost' \in [Kinds -> Nat] /\ link' \in Seq(PacketType)
       /\ \/ link' = Append(link, packet) /\ lost'["BATCH"] = before
          \/ before < MaxLost["BATCH"] /\ UNCHANGED link /\ lost'["BATCH"] = before + 1
  BY <1>1, <1>15, <1>16, HandedIs
<1>18. SenderOK'
  <2>1. snd'.path \in Paths /\ source'[snd'.path] \in Versions
    BY <1>2, <1>10, <1>11
  <2> QED
    BY <1>10, <1>12, <1>17, <2>1 DEF SenderOK
<1>19. TxBatch' /\ snd'.pc \in {"read", "parity"}
  <2>1. snd'.count = First(n) + (len + 1) /\ First(n) + (len + 1) <= Total(x)
    <3>1. PICK i \in Nat, total \in Nat : i = First(n) /\ total = Total(x)
      BY <1>7
    <3>2. i + len < total /\ snd'.count = i + len + 1
      BY <1>8, <1>11, <3>1
    <3>3. i + len + 1 = i + (len + 1) /\ i + (len + 1) <= total
      BY <3>2
    <3> QED
      BY <3>1, <3>2, <3>3
  <2>2. len + 1 < BATCH_DATA_CHUNKS \/ len + 1 = BATCH_DATA_CHUNKS
    BY <1>3, <1>7
  <2>3. BATCH_PARITY_CHUNKS > 0
    BY SizesType
  <2> QED
    BY <1>11, <1>13, <1>14, <2>1, <2>2, <2>3 DEF TxBatch
<1>20. ASSUME NEW o, NEW l \in Nat, lost'["BATCH"] = l, l <= len + 1, l <= MaxLost["BATCH"],
              IF len + 1 = l THEN Complete(o, p, x, n)
              ELSE InBatch(o, p, x, n) /\ o.slot < len + 1 /\ o.got = len + 1 - l
       PROVE  Tx(o)'
  <2>1. Slot' = len + 1
    BY <1>11, <1>13 DEF Slot
  <2>2. Lost("BATCH", Slot)' = l
    BY <1>20, <2>1 DEF Lost
  <2>3. TxChunk(o)'
    BY <1>11, <1>14, <1>19, <1>20, <2>1, <2>2 DEF TxChunk
  <2> QED
    BY <1>19, <2>3 DEF Tx
<1>21. CASE link' = Append(link, packet) /\ lost'["BATCH"] = before
  <2>1. before <= len + 1 /\ before # len + 1 /\ len - before + 1 = len + 1 - before
        /\ len - before + 1 \in Nat
    BY <1>6
  <2>2. /\ next \in Marks /\ InBatch(next, p, x, n) /\ next.slot = len
        /\ next.got = len - before + 1
    BY <2>1, NewMarks DEF next, ChunkMark, InBatch
  <2>3. Tx(next)'
    <3>1. next.slot < len + 1 /\ next.got = len + 1 - before
      BY <2>1, <2>2
    <3> QED
      BY <1>6, <1>20, <1>21, <2>1, <2>2, <3>1
  <2>4. Carries(packet, next)
    <3>1. ChunksIn(n, x) > 0 /\ len < ChunksIn(n, x) + BATCH_PARITY_CHUNKS
      BY <1>7, <1>9
    <3>2. packet = ChunkPacket(p, x, n, len)
      BY <1>9 DEF packet, ChunkPacket
    <3> QED
      BY <2>2, <3>1, <3>2 DEF Carries, InBatch
  <2>5. Follows(m, next)
    <3>1. CASE len = before
      <4>1. next.got = 1 /\ Complete(m, p, x, n)
        BY <1>6, <2>2, <3>1
      <4> QED
        BY <2>2, <4>1 DEF Follows, InBatch
    <3>2. CASE len # before
      <4>1. InBatch(m, p, x, n) /\ m.slot < next.slot /\ next.got = m.got + 1
        BY <1>6, <2>2, <3>2
      <4> QED
        BY <2>2, <4>1 DEF Follows, InBatch
    <3> QED
      BY <3>1, <3>2
  <2>6. next.path \in Paths /\ source[next.path] # NoFile
    BY <1>2, <2>2, ProtoAssumption DEF InBatch
  <2> QED
    BY <1>10, <1>16, <1>18, <1>21, <2>2, <2>3, <2>4, <2>5, <2>6 DEF Goes, Emits
<1>22. CASE before < MaxLost["BATCH"] /\ UNCHANGED link /\ lost'["BATCH"] = before + 1
  <2>1. /\ before + 1 \in Nat /\ before + 1 <= len + 1 /\ before + 1 <= MaxLost["BATCH"]
        /\ len + 1 = before + 1 <=> len = before
        /\ len + 1 - (before + 1) = len - before
    BY <1>6, <1>7, <1>22
  <2>2. len # before => m.slot < len + 1
    <3>1. len # before => m.slot \in Nat
      BY <1>6, MarkFields DEF InBatch
    <3> QED
      BY <1>6, <3>1
  <2>3. Tx(m)'
    BY <1>6, <1>20, <1>22, <2>1, <2>2
  <2> QED
    BY <1>10, <1>18, <1>22, <2>3 DEF Goes
<1> QED
  BY <1>17, <1>21, <1>22

\* One shard of send_parity_packets
LEMMA GoParity ==
  ASSUME LossBounded, SenderOK, NEW m \in Marks, Tx(m), send_parity_packets
  PROVE  Goes(m)
<1>1. /\ snd.pc \in {"parity", "last_parity"} /\ snd \in SndType /\ lost \in [Kinds -> Nat]
      /\ snd.batch_payloads \in Seq(Versions) /\ TxChunk(m) /\ "BATCH" \in Kinds
  BY DEF SenderOK, send_parity_packets, Tx, SndType, Kinds
<1>2. PICK p \in Paths, x \in Versions, n \in Nat, len \in Nat, sent \in Nat, slot \in Nat :
        /\ p = snd.path /\ x = source[p] /\ n = snd.batch_idx
        /\ len = Len(snd.batch_payloads) /\ sent = snd.sent /\ slot = len + sent
  <2>1. snd.path \in Paths /\ source[snd.path] \in Versions /\ snd.batch_idx \in Nat /\ snd.sent \in Nat
    BY <1>1 DEF SenderOK, SndType
  <2>2. Len(snd.batch_payloads) \in Nat
    BY <1>1
  <2> QED
    BY <2>1, <2>2
<1>3. /\ First(n) \in Nat /\ Total(x) \in Nat /\ First(n + 1) = First(n) + BATCH_DATA_CHUNKS
      /\ BATCH_DATA_CHUNKS \in Nat \ {0} /\ BATCH_PARITY_CHUNKS \in Nat \ {0}
      /\ CONTROL_RESEND \in Nat \ {0} /\ MaxLost["BATCH"] \in Nat /\ MaxLost["END"] \in Nat
      /\ MaxLost["BATCH"] <= BATCH_PARITY_CHUNKS
  BY <1>1, SizesType, LinkAssumption DEF LossBounded, Kinds
<1>4. /\ snd.reading = x /\ snd.count = First(n) + len /\ First(n) + len <= Total(x)
      /\ sent < BATCH_PARITY_CHUNKS /\ len \in 1 .. BATCH_DATA_CHUNKS
      /\ snd.pc = "parity" => len = BATCH_DATA_CHUNKS
      /\ snd.pc = "last_parity" => First(n) + len = Total(x)
      /\ \A k \in 1 .. len : snd.batch_payloads[k] = x
  <2>1. /\ snd.reading = x /\ snd.count = First(n) + len /\ snd.count <= Total(x)
        /\ sent < BATCH_PARITY_CHUNKS
        /\ snd.pc = "parity" => len = BATCH_DATA_CHUNKS
        /\ snd.pc = "last_parity" => len \in 1 .. BATCH_DATA_CHUNKS /\ snd.count = Total(x)
        /\ \A k \in 1 .. len : snd.batch_payloads[k] = x
    BY <1>1, <1>2 DEF TxChunk, TxBatch, Content
  <2>2. len \in 1 .. BATCH_DATA_CHUNKS
    BY <1>1, <1>3, <2>1
  <2> QED
    BY <2>1, <2>2
<1>5. ChunksIn(n, x) = len
  <2>1. /\ ChunksIn(n, x) \in 0 .. BATCH_DATA_CHUNKS
        /\ ChunksIn(n, x) = 0 <=> First(n) >= Total(x)
        /\ ChunksIn(n, x) > 0 => First(n) + ChunksIn(n, x) <= Total(x)
        /\ ChunksIn(n, x) > 0 => \/ ChunksIn(n, x) = BATCH_DATA_CHUNKS
                                 \/ First(n) + ChunksIn(n, x) = Total(x)
    BY ChunksInIs
  <2> QED
    BY <1>1, <1>3, <1>4, <2>1
<1>6. snd.batch_payloads = Codeword(n, x)
  <2>1. snd.batch_payloads \in [1 .. len -> Versions]
    BY <1>1, <1>2
  <2>2. snd.batch_payloads = [k \in 1 .. len |-> snd.batch_payloads[k]]
    BY <2>1
  <2>3. snd.batch_payloads = [k \in 1 .. len |-> x]
    BY <1>4, <2>2
  <2> QED
    BY <1>5, <2>3 DEF Codeword
<1>7. Slot = slot /\ slot # 0 /\ slot = len + sent /\ len > 0 /\ sent < BATCH_PARITY_CHUNKS
  <2>1. len > 0 /\ sent < BATCH_PARITY_CHUNKS /\ slot = len + sent
    BY <1>2, <1>3, <1>4
  <2> QED
    BY <1>2, <2>1 DEF Slot
<1>8. PICK before \in Nat : before = lost["BATCH"]
  BY <1>1
<1> DEFINE next == ChunkMark(p, x, n, slot, slot - before + 1)
           packet == MkParity(p, Codeword(n, x), n, sent)
<1>9. /\ before <= slot /\ before <= MaxLost["BATCH"]
      /\ IF slot = before THEN Complete(m, p, x, n)
         ELSE InBatch(m, p, x, n) /\ m.slot < slot /\ m.got = slot - before
  <2>1. Lost("BATCH", Slot) = before
    BY <1>7, <1>8 DEF Lost
  <2> QED
    BY <1>1, <1>2, <1>7, <2>1 DEF TxChunk, Content
<1>10. /\ UNCHANGED <<source, dropped, used>>
       /\ Transmit(packet, "BATCH", FALSE)
       /\ LET s == Counted(snd, BATCH_PARITY_CHUNKS, IF snd.pc = "parity" THEN "read" ELSE "end")
          IN  snd' = IF s.pc = snd.pc THEN s
                     ELSE [s EXCEPT !.batch_payloads = <<>>, !.batch_idx = s.batch_idx + 1]
  BY <1>2, <1>6 DEF send_parity_packets
\* Another shard is to come.
<1>11. ASSUME sent + 1 < BATCH_PARITY_CHUNKS
       PROVE  /\ snd' \in SndType /\ snd'.sent = sent + 1 /\ snd'.pc = snd.pc
              /\ snd'.path = p /\ snd'.reading = x /\ snd'.count = snd.count
              /\ snd'.batch_idx = n /\ snd'.batch_payloads = snd.batch_payloads
  <2> DEFINE s == [snd EXCEPT !.sent = snd.sent + 1]
  <2>1. Counted(snd, BATCH_PARITY_CHUNKS, IF snd.pc = "parity" THEN "read" ELSE "end") = s
    BY <1>2, <1>11 DEF Counted
  <2> HIDE DEF s
  <2>2. /\ s \in SndType /\ s.sent = snd.sent + 1 /\ s.pc = snd.pc
        /\ s.path = snd.path /\ s.reading = snd.reading /\ s.count = snd.count
        /\ s.batch_idx = snd.batch_idx /\ s.batch_payloads = snd.batch_payloads
    BY <1>1, CountedMore DEF s
  <2>3. snd' = s
    BY <1>10, <2>1, <2>2
  <2> QED
    BY <1>2, <1>4, <2>2, <2>3
\* This is the last shard of the batch.
<1>12. ASSUME ~(sent + 1 < BATCH_PARITY_CHUNKS)
       PROVE  /\ snd' \in SndType /\ snd'.sent = 0
              /\ snd'.pc = IF snd.pc = "parity" THEN "read" ELSE "end"
              /\ snd'.path = p /\ snd'.reading = x /\ snd'.count = snd.count
              /\ snd'.batch_idx = n + 1 /\ snd'.batch_payloads = <<>>
  <2> DEFINE pc == IF snd.pc = "parity" THEN "read" ELSE "end"
             s == [snd EXCEPT !.sent = 0, !.pc = pc]
  <2>1. Counted(snd, BATCH_PARITY_CHUNKS, pc) = s
    BY <1>2, <1>12 DEF Counted
  <2>2. s.pc = pc /\ pc # snd.pc /\ s.batch_idx = snd.batch_idx
    BY <1>1 DEF SndType
  <2>3. snd' = [s EXCEPT !.batch_payloads = <<>>, !.batch_idx = snd.batch_idx + 1]
    BY <1>10, <2>1, <2>2
  <2>4. snd' = [snd EXCEPT !.sent = 0, !.pc = pc, !.batch_payloads = <<>>,
                           !.batch_idx = snd.batch_idx + 1]
    BY <1>1, <2>3 DEF SndType
  <2>5. /\ snd'.sent = 0 /\ snd'.pc = pc /\ snd'.path = snd.path /\ snd'.reading = snd.reading
        /\ snd'.count = snd.count /\ snd'.batch_idx = snd.batch_idx + 1
        /\ snd'.batch_payloads = <<>>
    BY <1>1, <2>4 DEF SndType
  <2>6. snd' \in SndType
    <3>1. <<>> \in Seq(Versions) /\ snd.batch_idx + 1 \in Nat /\ pc \in {"read", "end"}
      BY <1>1 DEF SndType
    <3> HIDE DEF pc
    <3> QED
      BY <1>1, <2>4, <3>1 DEF SndType
  <2> QED
    BY <1>2, <1>4, <2>5, <2>6
<1>13. snd' \in SndType /\ snd'.path = p /\ Content' = x
  BY <1>2, <1>10, <1>11, <1>12 DEF Content
<1>14. Handed(packet, "BATCH", before)
  BY <1>8, <1>10 DEF Transmit, Handed
<1>15. packet \in PacketType
  <2>1. Codeword(n, x) \in Seq(Versions)
    BY <1>1, <1>6
  <2>2. n * BATCH_PARITY_CHUNKS + sent \in Nat
    BY <1>3
  <2> QED
    BY <2>1, <2>2, SizesType DEF PacketType, MkParity, ParityPacket, ParityPayload
<1> HIDE DEF next, packet
<1>16. /\ lost' \in [Kinds -> Nat] /\ link' \in Seq(PacketType)
       /\ \/ link' = Append(link, packet) /\ lost'["BATCH"] = before
          \/ before < MaxLost["BATCH"] /\ UNCHANGED link /\ lost'["BATCH"] = before + 1
  BY <1>1, <1>14, <1>15, HandedIs
<1>17. SenderOK'
  <2>1. snd'.path \in Paths /\ source'[snd'.path] \in Versions
    BY <1>2, <1>10, <1>13
  <2> QED
    BY <1>10, <1>13, <1>16, <2>1 DEF SenderOK
<1>18. ASSUME NEW o, NEW l \in Nat, lost'["BATCH"] = l, l <= slot + 1, l <= MaxLost["BATCH"],
              IF slot + 1 = l THEN Complete(o, p, x, n)
              ELSE InBatch(o, p, x, n) /\ o.slot < slot + 1 /\ o.got = slot + 1 - l
       PROVE  Tx(o)'
  <2>1. CASE sent + 1 < BATCH_PARITY_CHUNKS
    <3>1. Slot' = slot + 1
      BY <1>2, <1>11, <2>1 DEF Slot
    <3>2. Lost("BATCH", Slot)' = l
      BY <1>18, <3>1 DEF Lost
    <3>3. TxBatch'
      BY <1>1, <1>2, <1>4, <1>11, <1>13, <2>1 DEF TxBatch
    <3>4. TxChunk(o)'
      BY <1>11, <1>13, <1>18, <2>1, <3>1, <3>2, <3>3 DEF TxChunk
    <3> QED
      BY <1>1, <1>11, <2>1, <3>4 DEF Tx
  <2>2. CASE ~(sent + 1 < BATCH_PARITY_CHUNKS)
    <3>1. slot + 1 = len + BATCH_PARITY_CHUNKS
      BY <1>3, <1>7, <2>2
    <3>2. InBatch(o, p, x, n) /\ o.got >= ChunksIn(n, x)
      BY <1>3, <1>5, <1>7, <1>18, <3>1
    <3>3. n + 1 > 0 /\ (n + 1) - 1 = n /\ n + 1 \in Nat
      OBVIOUS
    <3>4. Complete(o, p, x, n + 1)
      BY <3>2, <3>3 DEF Complete
    <3>5. CASE snd.pc = "parity"
      <4>1. snd'.pc = "read" /\ Len(snd'.batch_payloads) = 0 /\ snd'.batch_idx = n + 1
            /\ snd'.sent = 0 /\ snd'.count = snd.count /\ snd'.reading = x
        BY <1>12, <2>2, <3>5
      <4>2. Slot' = 0
        BY <4>1 DEF Slot
      <4>3. TxBatch'
        BY <1>3, <1>4, <1>13, <3>5, <4>1 DEF TxBatch
      <4>4. Lost("BATCH", Slot)' = 0
        BY <4>2 DEF Lost
      <4>5. TxChunk(o)'
        BY <1>3, <1>13, <3>4, <4>1, <4>2, <4>3, <4>4 DEF TxChunk
      <4> QED
        BY <4>1, <4>5 DEF Tx
    <3>6. CASE snd.pc = "last_parity"
      <4>1. snd'.pc = "end" /\ snd'.batch_idx = n + 1 /\ snd'.sent = 0 /\ snd'.count = snd.count
        BY <1>12, <2>2, <3>6
      <4>2. ChunksIn(n + 1, x) = 0
        <5>1. First(n + 1) >= Total(x)
          BY <1>3, <1>4, <3>6
        <5> QED
          BY <3>3, <5>1, ChunksInIs
      <4>3. Lost("END", snd.sent)' = 0
        BY <4>1 DEF Lost
      <4>4. TxEnd(o)'
        BY <1>3, <1>4, <1>13, <3>4, <3>6, <4>1, <4>2, <4>3 DEF TxEnd
      <4> QED
        BY <4>1, <4>4 DEF Tx
    <3> QED
      BY <1>1, <3>5, <3>6
  <2> QED
    BY <2>1, <2>2
<1>19. CASE link' = Append(link, packet) /\ lost'["BATCH"] = before
  <2>1. before <= slot + 1 /\ before # slot + 1 /\ slot - before + 1 = slot + 1 - before
        /\ slot - before + 1 \in Nat
    BY <1>9
  <2>2. /\ next \in Marks /\ InBatch(next, p, x, n) /\ next.slot = slot
        /\ next.got = slot - before + 1
    BY <2>1, NewMarks DEF next, ChunkMark, InBatch
  <2>3. Tx(next)'
    <3>1. next.slot < slot + 1 /\ next.got = slot + 1 - before
      BY <2>1, <2>2
    <3> QED
      BY <1>9, <1>18, <1>19, <2>1, <2>2, <3>1
  <2>4. Carries(packet, next)
    <3>1. /\ ChunksIn(n, x) > 0 /\ slot < ChunksIn(n, x) + BATCH_PARITY_CHUNKS
          /\ ~(slot < ChunksIn(n, x)) /\ slot - ChunksIn(n, x) = sent
      BY <1>3, <1>5, <1>7
    <3>2. packet = ChunkPacket(p, x, n, slot)
      BY <3>1 DEF packet, ChunkPacket
    <3> QED
      BY <2>2, <3>1, <3>2 DEF Carries, InBatch
  <2>5. Follows(m, next)
    <3>1. CASE slot = before
      <4>1. next.got = 1 /\ Complete(m, p, x, n)
        BY <1>9, <2>2, <3>1
      <4> QED
        BY <2>2, <4>1 DEF Follows, InBatch
    <3>2. CASE slot # before
      <4>1. InBatch(m, p, x, n) /\ m.slot < next.slot /\ next.got = m.got + 1
        BY <1>9, <2>2, <3>2
      <4> QED
        BY <2>2, <4>1 DEF Follows, InBatch
    <3> QED
      BY <3>1, <3>2
  <2>6. next.path \in Paths /\ source[next.path] # NoFile
    BY <1>2, <2>2, ProtoAssumption DEF InBatch
  <2> QED
    BY <1>10, <1>15, <1>17, <1>19, <2>2, <2>3, <2>4, <2>5, <2>6 DEF Goes, Emits
<1>20. CASE before < MaxLost["BATCH"] /\ UNCHANGED link /\ lost'["BATCH"] = before + 1
  <2>1. /\ before + 1 \in Nat /\ before + 1 <= slot + 1 /\ before + 1 <= MaxLost["BATCH"]
        /\ slot + 1 = before + 1 <=> slot = before
        /\ slot + 1 - (before + 1) = slot - before
    BY <1>3, <1>9, <1>20
  <2>2. slot # before => m.slot < slot + 1
    <3>1. slot # before => m.slot \in Nat
      BY <1>9, MarkFields DEF InBatch
    <3> QED
      BY <1>9, <3>1
  <2>3. Tx(m)'
    BY <1>9, <1>18, <1>20, <2>1, <2>2
  <2> QED
    BY <1>10, <1>17, <1>20, <2>3 DEF Goes
<1> QED
  BY <1>16, <1>19, <1>20

\* Between two files.
LEMMA IdleIs ==
  ASSUME NEW todo \in SUBSET Paths
  PROVE  /\ Idle(todo) \in SndType /\ Idle(todo).pc = "idle" /\ Idle(todo).count = 0
         /\ Idle(todo).batch_idx = 0 /\ Idle(todo).batch_payloads = <<>> /\ Idle(todo).sent = 0
<1>1. <<>> \in Seq(Versions)
  OBVIOUS
<1> QED
  BY <1>1 DEF Idle, SndType

\* The sender turns to its list of files.
LEMMA GoIdle ==
  ASSUME SenderOK, NEW m \in Marks, Between(m), NEW todo \in SUBSET Paths, snd' = Idle(todo),
         UNCHANGED <<source, dropped, link, lost>>, used' \in [drops: Nat, errors: Nat]
  PROVE  Goes(m)
<1>1. /\ snd' \in SndType /\ snd'.pc = "idle" /\ snd'.count = 0 /\ snd'.batch_idx = 0
      /\ snd'.batch_payloads = <<>> /\ snd'.sent = 0
  BY IdleIs
<1>2. SenderOK'
  BY <1>1 DEF SenderOK
<1>3. Tx(m)'
  BY <1>1 DEF Tx, Between, Abandoned
<1> QED
  BY <1>2, <1>3 DEF Goes

\* The sender's steps that send nothing and remove nothing.
LEMMA GoSilent ==
  ASSUME SenderOK, NEW m \in Marks, Tx(m),
         \/ Scan \/ \E p \in Paths : Watch(p)
         \/ Settle \/ Stat \/ OpenFile \/ Vanished \/ EndOfFile
  PROVE  Goes(m)
<1>1. snd \in SndType /\ snd.todo \in SUBSET Paths
  BY DEF SenderOK, SndType
<1>2. UNCHANGED <<source, dropped, used, link, lost>>
  BY DEF Scan, Watch, Settle, Stat, OpenFile, Vanished, EndOfFile
\* It goes back to idle, or stays with its file.
<1>3. ASSUME NEW todo \in SUBSET Paths, snd' = Idle(todo), Between(m)
      PROVE  Goes(m)
  <2>1. used' \in [drops: Nat, errors: Nat]
    BY <1>2 DEF SenderOK
  <2> QED
    BY <1>2, <1>3, <2>1, GoIdle
<1>0. Between(m) => Between(m)'
  BY <1>2 DEF Between, Abandoned
<1>4. ASSUME snd' \in SndType, snd'.path \in Paths, source[snd'.path] \in Versions, Tx(m)'
      PROVE  Goes(m)
  <2>1. SenderOK'
    BY <1>2, <1>4 DEF SenderOK
  <2> QED
    BY <1>2, <1>4, <2>1 DEF Goes
<1>5. snd.pc # "idle" => snd.path \in Paths /\ source[snd.path] \in Versions
                         /\ source[snd.path] # NoFile /\ FileSize[source[snd.path]] \in Nat
  BY ProtoAssumption DEF SenderOK
<1>6. CASE Scan
  <2>1. snd' = Idle({p \in Paths : source[p] # NoFile}) /\ snd.pc = "idle"
    BY <1>6 DEF Scan
  <2>2. Between(m)
    BY <2>1 DEF Tx
  <2>3. {p \in Paths : source[p] # NoFile} \in SUBSET Paths
    OBVIOUS
  <2> QED
    BY <1>3, <2>1, <2>2, <2>3
<1>7. ASSUME NEW p \in Paths, Watch(p) PROVE Goes(m)
  <2>1. snd.pc = "idle" /\ Between(m)
    BY <1>7 DEF Watch, Tx
  <2>2. CASE source[p] = NoFile
    <3>1. snd' = Idle(snd.todo \ {p}) /\ snd.todo \ {p} \in SUBSET Paths
      BY <1>1, <1>7, <2>2 DEF Watch
    <3> QED
      BY <1>3, <2>1, <3>1
  <2>3. CASE source[p] # NoFile
    <3>1. source[p] \in Versions /\ FileSize[source[p]] \in Nat
      BY <2>3, ProtoAssumption DEF SenderOK
    <3>2. snd' = [snd EXCEPT !.pc = "watch", !.todo = snd.todo \ {p}, !.path = p,
                             !.initial = FileSize[source[p]]]
      BY <1>7, <2>3 DEF Watch
    <3>3. /\ snd'.pc = "watch" /\ snd'.path = p /\ snd'.count = snd.count
          /\ snd'.batch_idx = snd.batch_idx /\ snd'.batch_payloads = snd.batch_payloads
          /\ snd'.sent = snd.sent
      BY <1>1, <3>2 DEF SndType
    <3>4. snd' \in SndType
      BY <1>1, <3>1, <3>2 DEF SndType
    <3>5. Tx(m)'
      BY <1>0, <2>1, <3>3 DEF Tx
    <3> QED
      BY <1>4, <3>1, <3>3, <3>4, <3>5
  <2> QED
    BY <2>2, <2>3
<1>8. CASE Settle
  <2>1. snd.pc = "watch" /\ Between(m)
    BY <1>8 DEF Settle, Tx
  <2>2. CASE FileSize[source[snd.path]] = snd.initial
    <3>1. snd' = [snd EXCEPT !.pc = "stat"]
      BY <1>5, <1>8, <2>1, <2>2 DEF Settle
    <3>2. /\ snd' \in SndType /\ snd'.pc = "stat" /\ snd'.path = snd.path /\ snd'.count = snd.count
          /\ snd'.batch_idx = snd.batch_idx /\ snd'.batch_payloads = snd.batch_payloads
          /\ snd'.sent = snd.sent
      BY <1>1, <3>1 DEF SndType
    <3>3. Tx(m)'
      BY <1>0, <2>1, <3>2 DEF Tx
    <3> QED
      BY <1>4, <1>5, <2>1, <3>2, <3>3
  <2>3. CASE FileSize[source[snd.path]] # snd.initial
    <3>1. snd' = Idle(snd.todo)
      BY <1>8, <2>3 DEF Settle
    <3> QED
      BY <1>1, <1>3, <2>1, <3>1
  <2> QED
    BY <2>2, <2>3
<1>9. CASE Stat
  <2>1. snd.pc = "stat" /\ Between(m)
    BY <1>9 DEF Stat, Tx
  <2>2. snd' = [snd EXCEPT !.pc = "start", !.filesize = FileSize[source[snd.path]]]
    BY <1>9 DEF Stat
  <2>3. /\ snd'.pc = "start" /\ snd'.path = snd.path /\ snd'.count = snd.count
        /\ snd'.batch_idx = snd.batch_idx /\ snd'.batch_payloads = snd.batch_payloads
        /\ snd'.sent = snd.sent /\ snd'.filesize = FileSize[source[snd.path]]
    BY <1>1, <2>2 DEF SndType
  <2>4. snd' \in SndType
    BY <1>1, <1>5, <2>1, <2>2 DEF SndType
  <2>5. /\ snd'.sent = 0 /\ snd'.count = 0 /\ snd'.batch_idx = 0 /\ snd'.batch_payloads = <<>>
    BY <2>1, <2>3 DEF Tx
  <2>6. TxStart(m)'
    <3>1. Content' = source[snd.path]
      BY <1>2, <2>3 DEF Content
    <3>2. Lost("START", snd.sent)' = 0
      BY <2>5 DEF Lost
    <3>3. 0 < CONTROL_RESEND /\ 0 <= MaxLost["START"]
      BY SizesType, LinkAssumption DEF Kinds
    <3> QED
      BY <1>0, <2>1, <2>3, <2>5, <3>1, <3>2, <3>3 DEF TxStart
  <2>7. Tx(m)'
    BY <2>3, <2>5, <2>6 DEF Tx
  <2> QED
    BY <1>4, <1>5, <2>1, <2>3, <2>4, <2>7
<1>10. CASE OpenFile
  <2>1. PICK p \in Paths, x \in Versions : snd.pc = "open" /\ snd.path = p /\ source[p] = x
    BY <1>5, <1>10 DEF OpenFile
  <2>2. snd' = [snd EXCEPT !.pc = "read", !.reading = x]
    BY <1>10, <2>1 DEF OpenFile
  <2>3. /\ snd' \in SndType /\ snd'.pc = "read" /\ snd'.path = p /\ snd'.count = snd.count
        /\ snd'.batch_idx = snd.batch_idx /\ snd'.batch_payloads = snd.batch_payloads
        /\ snd'.sent = snd.sent /\ snd'.reading = x
    BY <1>1, <2>1, <2>2 DEF SndType
  <2>4. /\ snd'.sent = 0 /\ snd'.count = 0 /\ snd'.batch_idx = 0 /\ snd'.batch_payloads = <<>>
        /\ m = StartMark(p, x)
    BY <2>1, <2>3 DEF Tx, Content
  <2>5. Len(snd'.batch_payloads) = 0 /\ Slot' = 0 /\ Content' = x
    BY <1>2, <2>1, <2>3, <2>4 DEF Slot, Content
  <2>6. TxBatch'
    <3>1. First(0) = 0 /\ 0 = First(0) + 0 /\ 0 <= Total(x) /\ 0 < BATCH_DATA_CHUNKS
      BY SizesType DEF First
    <3> QED
      BY <2>3, <2>4, <2>5, <3>1 DEF TxBatch
  <2>7. TxChunk(m)'
    <3>1. Lost("BATCH", Slot)' = 0
      BY <2>5 DEF Lost
    <3>2. 0 <= MaxLost["BATCH"]
      BY LinkAssumption DEF Kinds
    <3>3. Complete(m, p, x, 0)
      BY <2>4 DEF Complete
    <3> QED
      BY <2>3, <2>4, <2>5, <2>6, <3>1, <3>2, <3>3 DEF TxChunk
  <2>8. Tx(m)'
    BY <2>3, <2>7 DEF Tx
  <2> QED
    BY <1>4, <2>1, <2>3, <2>8
<1>11. CASE Vanished
  BY <1>5, <1>11 DEF Vanished
<1>12. CASE EndOfFile
  <2>1. snd.pc = "read" /\ TxChunk(m) /\ snd.batch_payloads \in Seq(Versions)
    BY <1>1, <1>12 DEF EndOfFile, Tx, SndType
  <2>2. PICK p \in Paths, x \in Versions, n \in Nat, len \in Nat :
          /\ p = snd.path /\ x = source[p] /\ n = snd.batch_idx
          /\ len = Len(snd.batch_payloads)
    BY <1>1, <1>5, <2>1 DEF SndType
  <2>3. /\ snd.reading = x /\ snd.count = First(n) + len /\ snd.count <= Total(x) /\ snd.sent = 0
        /\ len < BATCH_DATA_CHUNKS /\ \A k \in 1 .. len : snd.batch_payloads[k] = x
    BY <2>1, <2>2 DEF TxChunk, TxBatch, Content
  <2>4. /\ First(n) \in Nat /\ Total(x) \in Nat /\ FileSize[x] \in Nat
        /\ BATCH_DATA_CHUNKS \in Nat /\ BATCH_PARITY_CHUNKS \in Nat \ {0}
        /\ CONTROL_RESEND \in Nat \ {0} /\ MaxLost["END"] \in Nat
    BY SizesType, LinkAssumption DEF Kinds
  <2>5. First(n) + len = Total(x) /\ snd.count = Total(x)
    <3>1. PICK i \in Nat : i = First(n) + len
      BY <2>4
    <3>2. ChunkLen(FileSize[x], i) = 0
      BY <1>12, <2>3, <3>1 DEF EndOfFile, Remaining
    <3>3. i < Total(x) => ChunkLen(FileSize[x], i) \in 1 .. CHUNK_SIZE
      BY <2>4, ChunkLenIs DEF Total
    <3>4. ~(i < Total(x))
      BY <3>2, <3>3
    <3> QED
      BY <2>3, <2>4, <3>1, <3>4
  <2>6. snd' = [snd EXCEPT !.pc = IF snd.batch_payloads = <<>> THEN "end" ELSE "last_parity"]
    BY <1>12 DEF EndOfFile
  <2>7. /\ snd' \in SndType /\ snd'.path = p /\ snd'.count = snd.count
        /\ snd'.batch_idx = n /\ snd'.batch_payloads = snd.batch_payloads
        /\ snd'.sent = 0 /\ snd'.reading = x
        /\ snd'.pc = IF len = 0 THEN "end" ELSE "last_parity"
    <3>1. snd.batch_payloads = <<>> <=> len = 0
      BY <2>1, <2>2
    <3> QED
      BY <1>1, <2>2, <2>3, <2>6, <3>1 DEF SndType
  <2>8. Content' = x /\ Content = x
    BY <1>2, <2>2, <2>7 DEF Content
  <2>9. CASE len = 0
    <3>1. Slot = 0
      BY <2>2, <2>3, <2>9 DEF Slot
    <3>2. Complete(m, p, x, n)
      BY <2>1, <2>2, <2>8, <3>1 DEF TxChunk, Lost
    <3>3. ChunksIn(n, x) = 0
      BY <2>4, <2>5, <2>9, ChunksInIs
    <3>4. Lost("END", snd.sent)' = 0
      BY <2>7 DEF Lost
    <3>5. TxEnd(m)'
      BY <2>4, <2>5, <2>7, <2>8, <3>2, <3>3, <3>4 DEF TxEnd
    <3>6. Tx(m)'
      BY <2>7, <2>9, <3>5 DEF Tx
    <3> QED
      BY <1>4, <2>2, <2>7, <3>6
  <2>10. CASE len # 0
    <3>1. snd'.pc = "last_parity"
      BY <2>7, <2>10
    <3>2. TxBatch'
      <4>1. len \in 1 .. BATCH_DATA_CHUNKS
        BY <2>3, <2>4, <2>10
      <4> QED
        BY <2>2, <2>3, <2>4, <2>5, <2>7, <2>8, <3>1, <4>1 DEF TxBatch
    <3>3. Slot' = Slot
      BY <2>3, <2>7 DEF Slot
    <3>4. Lost("BATCH", Slot)' = Lost("BATCH", Slot)
      BY <1>2, <3>3 DEF Lost
    <3>5. TxChunk(m)'
      BY <2>1, <2>2, <2>7, <2>8, <3>2, <3>3, <3>4 DEF TxChunk
    <3>6. Tx(m)'
      BY <3>1, <3>5 DEF Tx
    <3> QED
      BY <1>4, <2>2, <2>7, <3>6
  <2> QED
    BY <2>9, <2>10
<1> QED
  BY <1>6, <1>7, <1>8, <1>9, <1>10, <1>11, <1>12

\* In the middle of a file, the mark is that of this file, or of none.
LEMMA TxMark ==
  ASSUME SenderOK, NEW m \in Marks, Tx(m), snd.pc # "idle", ~Faultless
  PROVE  Between(m)
<1>1. PICK p, x : p = snd.path /\ x = source[p] /\ x = Content
  BY DEF Content
<1>2. \A n : Complete(m, p, x, n) \/ InBatch(m, p, x, n) => m.path = p /\ m.ver = x
  BY DEF Complete, InBatch, StartMark
<1>3. m = StartMark(p, x) => m.path = p /\ m.ver = x
  BY DEF StartMark
<1>4. m = EndMark(p, x) => Quiet(m)
  BY DEF EndMark, Quiet
<1>5. m.path = p /\ m.ver = x => Between(m)
  BY <1>1 DEF Between, Abandoned
<1>6. CASE snd.pc \in {"watch", "stat"}
  BY <1>6 DEF Tx
<1>7. CASE snd.pc = "start"
  BY <1>1, <1>3, <1>5, <1>7 DEF Tx, TxStart
<1>8. CASE snd.pc = "open"
  BY <1>1, <1>3, <1>5, <1>8 DEF Tx
<1>9. CASE snd.pc \in {"read", "parity", "last_parity"}
  BY <1>1, <1>2, <1>5, <1>9 DEF Tx, TxChunk
<1>10. CASE snd.pc = "end"
  BY <1>1, <1>2, <1>4, <1>5, <1>10 DEF Tx, TxEnd, Between
<1>11. CASE snd.pc = "remove"
  BY <1>1, <1>4, <1>11 DEF Tx, Between
<1> QED
  BY <1>6, <1>7, <1>8, <1>9, <1>10, <1>11 DEF SenderOK, SndType

\* A system call of the sender fails, or the sender is started again.
LEMMA GoFail ==
  ASSUME SenderOK, NEW m \in Marks, Tx(m), SendError \/ SenderRestart
  PROVE  Goes(m)
<1>1. /\ snd.pc # "idle" /\ used.errors < MaxErrors
      /\ UNCHANGED <<source, dropped, link, lost>>
      /\ used' = [used EXCEPT !.errors = used.errors + 1]
  BY DEF SendError, SenderRestart
<1>0. used \in [drops: Nat, errors: Nat] /\ used.errors \in Nat
  BY DEF SenderOK
<1>2. ~Faultless
  <2>1. PICK errors \in Nat : errors = used.errors
    BY <1>0
  <2>2. MaxErrors # 0
    BY <1>1, <2>1
  <2> QED
    BY <2>2 DEF Faultless
<1>3. Between(m)
  BY <1>1, <1>2, TxMark
<1>4. used' \in [drops: Nat, errors: Nat]
  BY <1>0, <1>1
<1>5. PICK todo \in SUBSET Paths : snd' = Idle(todo)
  BY DEF SendError, SenderRestart, SenderOK, SndType
<1> QED
  BY <1>1, <1>3, <1>4, <1>5, GoIdle


-----------------------------------------------------------------------------
(* The trace goes on                                                       *)

\* What the sender is at depends on its file and its losses alone.
LEMMA TxKept ==
  ASSUME SenderOK, NEW m \in Marks, Tx(m), UNCHANGED <<snd, lost>>,
         \A p \in Paths : source[p] \in Versions => source'[p] = source[p]
  PROVE  Tx(m)'
<1>1. Between(m) => Between(m)'
  <2>1. ~Quiet(m) => m.path \in Paths /\ m.ver \in Versions
    BY MarkFields DEF Quiet
  <2> QED
    BY <2>1 DEF Between, Abandoned
<1>2. CASE snd.pc = "idle"
  BY <1>1, <1>2 DEF Tx
<1>3. CASE snd.pc # "idle"
  <2>0. source'[snd.path] = source[snd.path]
    BY <1>3 DEF SenderOK
  <2>1. Content' = Content /\ Slot' = Slot
    BY <2>0 DEF Content, Slot
  <2>2. /\ Lost("START", snd.sent)' = Lost("START", snd.sent)
        /\ Lost("BATCH", Slot)' = Lost("BATCH", Slot)
        /\ Lost("END", snd.sent)' = Lost("END", snd.sent)
    BY <2>1 DEF Lost
  <2>3. TxStart(m) => TxStart(m)'
    BY <1>1, <2>1, <2>2 DEF TxStart
  <2>4. TxChunk(m) => TxChunk(m)'
    BY <2>1, <2>2 DEF TxChunk, TxBatch
  <2>5. TxEnd(m) => TxEnd(m)'
    BY <2>1, <2>2 DEF TxEnd
  <2> QED
    BY <1>1, <2>1, <2>3, <2>4, <2>5 DEF Tx
<1> QED
  BY <1>2, <1>3

\* h continues the marks g: what was settled stays settled.
Continues(g, h) ==
  /\ Marked(h)' /\ h[1] = g[1]
  /\ \A p \in Paths : Settled(g, p) /\ UNCHANGED final => Settled(h, p)'

\* A step of the sender continues the marks.
LEMMA MarkedGoes ==
  ASSUME NEW g \in Seq(Marks), Marked(g), link \in Seq(PacketType), Goes(g[Len(g)])
  PROVE  \E h \in Seq(Marks) : Continues(g, h)
<1>1. /\ Len(g) = Len(link) + 1 /\ Len(link) \in Nat /\ Len(g) \in Nat \ {0}
      /\ \A i \in 1 .. Len(link) : Carries(link[i], g[i + 1]) /\ Follows(g[i], g[i + 1])
  BY DEF Marked
<1>2. UNCHANGED <<source, dropped>>
  BY DEF Goes
<1>3. CASE UNCHANGED link /\ Tx(g[Len(g)])'
  <2>1. ASSUME NEW p \in Paths, Settled(g, p), UNCHANGED final
        PROVE  Settled(g, p)'
    BY <1>2, <2>1 DEF Settled
  <2>2. Marked(g)'
    BY <1>1, <1>3 DEF Marked
  <2> QED
    BY <2>1, <2>2 DEF Continues
<1>4. ASSUME NEW packet \in PacketType, NEW next \in Marks, Emits(g[Len(g)], packet, next)
      PROVE  \E h \in Seq(Marks) : Continues(g, h)
  <2> DEFINE h == Append(g, next)
  <2>1. PICK n \in Nat : n = Len(g)
    BY <1>1
  <2>2. /\ h \in Seq(Marks) /\ Len(h) = n + 1 /\ h[n + 1] = next
        /\ \A i \in 1 .. n : h[i] = g[i]
    BY <2>1
  <2>3. /\ link' = Append(link, packet) /\ Carries(packet, next) /\ Follows(g[n], next)
        /\ Tx(next)' /\ source[next.path] # NoFile
    BY <1>4, <2>1 DEF Emits
  <2>4. /\ Len(link') = n /\ link'[n] = packet /\ n \in Nat \ {0} /\ n - 1 = Len(link)
        /\ \A i \in 1 .. n - 1 : link'[i] = link[i]
    BY <1>1, <2>1, <2>3
  <2> HIDE DEF h
  <2>5. ASSUME NEW i \in 1 .. Len(link')
        PROVE  Carries(link'[i], h[i + 1]) /\ Follows(h[i], h[i + 1])
    <3>1. CASE i = n
      BY <2>2, <2>3, <2>4, <3>1
    <3>2. CASE i # n
      <4>1. i \in 1 .. n - 1 /\ i \in 1 .. n /\ i + 1 \in 1 .. n
        BY <2>4, <3>2
      <4> QED
        BY <1>1, <2>2, <2>4, <4>1
    <3> QED
      BY <3>1, <3>2
  <2>6. ASSUME NEW p \in Paths, Settled(g, p), UNCHANGED final
        PROVE  Settled(h, p)'
    <3>1. SUFFICES ASSUME dropped[p] # NoFile, source[p] = NoFile
                   PROVE  \/ (\A i \in 2 .. Len(h) : h[i].path # p) /\ final[p] = Exactly(dropped[p])
                          \/ \E i \in 2 .. Len(h) : /\ h[i] = EndMark(p, dropped[p])
                                                    /\ \A j \in i + 1 .. Len(h) : h[j].path # p
      BY <1>2, <2>6 DEF Settled
    <3>2. next.path # p
      BY <2>3, <3>1
    <3>3. CASE (\A i \in 2 .. Len(g) : g[i].path # p) /\ final[p] = Exactly(dropped[p])
      <4>1. \A i \in 2 .. n + 1 : i = n + 1 \/ (i \in 2 .. n /\ i \in 1 .. n)
        BY <2>1
      <4>2. \A i \in 2 .. n + 1 : h[i].path # p
        BY <2>1, <2>2, <3>2, <3>3, <4>1
      <4> QED
        BY <2>2, <3>3, <4>2
    <3>4. CASE \E i \in 2 .. Len(g) : /\ g[i] = EndMark(p, dropped[p])
                                      /\ \A j \in i + 1 .. Len(g) : g[j].path # p
      <4>1. PICK i \in 2 .. n : /\ g[i] = EndMark(p, dropped[p])
                                /\ \A j \in i + 1 .. n : g[j].path # p
        BY <2>1, <3>4
      <4>2. i \in 2 .. n + 1 /\ i \in 1 .. n
            /\ \A j \in i + 1 .. n + 1 : j = n + 1 \/ (j \in i + 1 .. n /\ j \in 1 .. n)
        BY <2>1
      <4>3. \A j \in i + 1 .. n + 1 : h[j].path # p
        BY <2>2, <3>2, <4>1, <4>2
      <4> QED
        BY <2>2, <4>1, <4>2, <4>3
    <3> QED
      BY <2>6, <3>1, <3>3, <3>4 DEF Settled
  <2>7. Marked(h)'
    <3>1. Tx(h[Len(h)])'
      BY <2>2, <2>3
    <3>2. Len(h) = Len(link') + 1
      BY <2>2, <2>4
    <3> QED
      BY <2>5, <3>1, <3>2 DEF Marked
  <2>8. h[1] = g[1]
    BY <2>2, <2>4
  <2> QED
    BY <2>2, <2>6, <2>7, <2>8 DEF Continues
<1> QED
  BY <1>3, <1>4 DEF Goes

\* fs::remove_file after the last END: the mark is that of the file.
LEMMA MarkedRemoves ==
  ASSUME SenderOK, NEW g \in Seq(Marks), Marked(g), RemoveSent
  PROVE  /\ SenderOK' /\ Marked(g)'
         /\ \E p \in Paths, x \in Versions :
              /\ x = dropped[p] /\ g[Len(g)] = EndMark(p, x)
              /\ \A q \in Paths \ {p} : source'[q] = source[q]
<1>1. /\ snd.pc = "remove" /\ snd \in SndType /\ snd.todo \in SUBSET Paths
      /\ snd' = Idle(snd.todo) /\ UNCHANGED <<dropped, used, link, lost>>
      /\ source \in [Paths -> Versions \cup {NoFile}] /\ link \in Seq(PacketType)
  BY DEF SenderOK, RemoveSent, SndType
<1>2. PICK p \in Paths, x \in Versions : p = snd.path /\ x = source[p] /\ x = dropped[p]
  BY <1>1, ProtoAssumption DEF SenderOK
<1>3. /\ source' = [source EXCEPT ![p] = NoFile] /\ source'[p] = NoFile
      /\ source' \in [Paths -> Versions \cup {NoFile}]
      /\ \A q \in Paths \ {p} : source'[q] = source[q]
  BY <1>1, <1>2 DEF RemoveSent
<1>4. /\ snd' \in SndType /\ snd'.pc = "idle" /\ snd'.count = 0 /\ snd'.batch_idx = 0
      /\ snd'.batch_payloads = <<>> /\ snd'.sent = 0
  BY <1>1, IdleIs
<1>5. SenderOK'
  BY <1>1, <1>3, <1>4 DEF SenderOK
<1>6. PICK n \in Nat \ {0} : n = Len(g)
  BY <1>1 DEF Marked
<1>7. g[n] = EndMark(p, x)
  BY <1>1, <1>2, <1>6 DEF Marked, Tx, Content
<1>8. Tx(g[n])'
  BY <1>2, <1>4, <1>7, NewMarks DEF Tx, Between
<1>9. Marked(g)'
  BY <1>1, <1>6, <1>8 DEF Marked
<1> QED
  BY <1>2, <1>3, <1>5, <1>6, <1>7, <1>9

\* The file removed is settled.
LEMMA TraceRemoves ==
  ASSUME SenderOK, NEW g \in Seq(Marks), Trace(g), RemoveSent, UNCHANGED receiverVars
  PROVE  Trace(g)'
<1>1. Marked(g)' /\ UNCHANGED <<dropped, link, state, final, partial>>
  BY MarkedRemoves DEF Trace, RemoveSent, receiverVars
<1>2. PICK p \in Paths, x \in Versions :
        /\ x = dropped[p] /\ g[Len(g)] = EndMark(p, x)
        /\ \A q \in Paths \ {p} : source'[q] = source[q]
  BY MarkedRemoves DEF Trace
<1>3. PICK n \in Nat \ {0} : n = Len(g)
  BY DEF Trace, Marked, SenderOK
<1>4. Rx(g[1])'
  BY <1>1 DEF Trace, Rx, Collecting
<1>5. Settled(g, p)'
  <2>1. CASE n = 1
    <3>1. final[p] = Exactly(x)
      BY <1>2, <1>3, <2>1, NewMarks DEF Trace, Rx
    <3>2. \A i \in 2 .. Len(g) : g[i].path # p
      BY <1>3, <2>1
    <3> QED
      BY <1>1, <1>2, <3>1, <3>2 DEF Settled
  <2>2. CASE n # 1
    <3>1. n \in 2 .. Len(g) /\ \A j \in n + 1 .. Len(g) : g[j].path # p
      BY <1>3, <2>2
    <3> QED
      BY <1>1, <1>2, <1>3, <3>1 DEF Settled
  <2> QED
    BY <2>1, <2>2
<1>6. ASSUME NEW q \in Paths, q # p
      PROVE  Settled(g, q)'
  <2>1. source'[q] = source[q] /\ dropped' = dropped /\ final' = final
    BY <1>1, <1>2, <1>6
  <2>2. Settled(g, q)
    BY DEF Trace
  <2> QED
    BY <2>1, <2>2 DEF Settled
<1> QED
  BY <1>1, <1>4, <1>5, <1>6 DEF Trace

\* A user puts a file under a path that has none and is not being sent.
LEMMA MarkedDrops ==
  ASSUME LossBounded, SenderOK, NEW g \in Seq(Marks), Marked(g),
         NEW p \in Paths, NEW x \in Versions, Drop(p, x)
  PROVE  /\ SenderOK' /\ Marked(g)' /\ source'[p] # NoFile
         /\ \A q \in Paths \ {p} : source'[q] = source[q] /\ dropped'[q] = dropped[q]
<1>1. /\ source[p] = NoFile /\ snd.path # p /\ UNCHANGED <<snd, link, lost>>
      /\ source' = [source EXCEPT ![p] = x] /\ dropped' = [dropped EXCEPT ![p] = x]
      /\ used' = [used EXCEPT !.drops = used.drops + 1]
  BY DEF Drop, LossBounded
<1>2. /\ source' \in [Paths -> Versions \cup {NoFile}] /\ source'[p] = x
      /\ dropped' \in [Paths -> Versions \cup {NoFile}] /\ dropped'[p] = x
      /\ \A q \in Paths \ {p} : source'[q] = source[q] /\ dropped'[q] = dropped[q]
  BY <1>1 DEF SenderOK
<1>3. used' \in [drops: Nat, errors: Nat]
  <2>1. used \in [drops: Nat, errors: Nat]
    BY DEF SenderOK
  <2>2. used.drops + 1 \in Nat
    BY <2>1
  <2> QED
    BY <1>1, <2>1, <2>2
<1>4. SenderOK'
  <2>1. snd'.pc # "idle" => snd'.path \in Paths /\ source'[snd'.path] \in Versions
    BY <1>1, <1>2 DEF SenderOK
  <2>2. \A q \in Paths : source'[q] # NoFile => dropped'[q] = source'[q]
    BY <1>2 DEF SenderOK
  <2> QED
    BY <1>1, <1>2, <1>3, <2>1, <2>2 DEF SenderOK
<1>5. Tx(g[Len(g)])'
  <2>1. \A q \in Paths : source[q] \in Versions => source'[q] = source[q]
    BY <1>1, <1>2, ProtoAssumption
  <2>2. Tx(g[Len(g)]) /\ g[Len(g)] \in Marks
    <3>1. Len(g) \in 1 .. Len(g)
      BY DEF Marked, SenderOK
    <3> QED
      BY <3>1 DEF Marked
  <2> QED
    BY <1>1, <2>1, <2>2, TxKept
<1>6. Marked(g)'
  BY <1>1, <1>5 DEF Marked
<1> QED
  BY <1>2, <1>4, <1>6, ProtoAssumption

\* That settles nothing and unsettles nothing.
LEMMA TraceDrops ==
  ASSUME LossBounded, SenderOK, NEW g \in Seq(Marks), Trace(g), UNCHANGED receiverVars,
         NEW p \in Paths, NEW x \in Versions, Drop(p, x)
  PROVE  Trace(g)'
<1>1. /\ Marked(g)' /\ source'[p] # NoFile
      /\ \A q \in Paths \ {p} : source'[q] = source[q] /\ dropped'[q] = dropped[q]
  BY MarkedDrops DEF Trace
<1>2. Rx(g[1])'
  BY DEF Trace, Rx, Collecting, receiverVars
<1>3. ASSUME NEW q \in Paths
      PROVE  Settled(g, q)'
  <2>1. CASE q = p
    BY <1>1, <2>1 DEF Settled
  <2>2. CASE q # p
    <3>1. source'[q] = source[q] /\ dropped'[q] = dropped[q] /\ final' = final
      BY <1>1, <2>2 DEF receiverVars
    <3>2. Settled(g, q)
      BY DEF Trace
    <3> QED
      BY <3>1, <3>2 DEF Settled
  <2> QED
    BY <2>1, <2>2
<1> QED
  BY <1>1, <1>2, <1>3 DEF Trace

\* The worker takes the oldest packet: its mark leaves the trace.
LEMMA MarkedDelivers ==
  ASSUME SenderOK, NEW g \in Seq(Marks), Marked(g), Deliver
  PROVE  /\ SenderOK' /\ Marked(Tail(g))' /\ Tail(g) \in Seq(Marks)
         /\ Len(g) = Len(link) + 1 /\ Len(link) \in Nat \ {0} /\ Len(Tail(g)) = Len(link)
         /\ \A i \in 1 .. Len(link) : Tail(g)[i] = g[i + 1]
         /\ g[1] \in Marks /\ g[2] \in Marks
         /\ Carries(Head(link), g[2]) /\ Follows(g[1], g[2]) /\ R!Handle(Head(link))
<1> DEFINE h == Tail(g)
<1>1. /\ link # <<>> /\ link \in Seq(PacketType) /\ link' = Tail(link)
      /\ UNCHANGED <<source, snd, dropped, used, lost>> /\ R!Handle(Head(link))
  BY DEF Deliver, SenderOK
<1>2. PICK n \in Nat \ {0} : n = Len(link) /\ Len(g) = n + 1
  BY <1>1 DEF Marked
<1>3. /\ Head(link) = link[1] /\ link' \in Seq(PacketType) /\ Len(link') = n - 1
      /\ \A i \in 1 .. n - 1 : link'[i] = link[i + 1]
  BY <1>1, <1>2
<1>4. /\ h \in Seq(Marks) /\ Len(h) = n
      /\ \A i \in 1 .. n : h[i] = g[i + 1]
      /\ g[1] \in Marks /\ g[2] \in Marks
  BY <1>2
<1>5. \A i \in 1 .. n : Carries(link[i], g[i + 1]) /\ Follows(g[i], g[i + 1])
  BY <1>2 DEF Marked
<1>6. Carries(link[1], g[2]) /\ Follows(g[1], g[2])
  <2>1. 1 \in 1 .. n /\ 1 + 1 = 2
    OBVIOUS
  <2> QED
    BY <1>5, <2>1
<1>7. SenderOK'
  BY <1>1, <1>3 DEF SenderOK
<1> HIDE DEF h
<1>8. Tx(h[Len(h)])'
  <2>1. h[n] = g[Len(g)] /\ h[n] \in Marks
    BY <1>2, <1>4
  <2>2. Tx(h[n])
    BY <2>1 DEF Marked
  <2> QED
    BY <1>1, <1>4, <2>1, <2>2, TxKept
<1>9. ASSUME NEW i \in 1 .. Len(link')
      PROVE  Carries(link'[i], h[i + 1]) /\ Follows(h[i], h[i + 1])
  <2>1. PICK j \in 1 .. n : j = i + 1 /\ i \in 1 .. n - 1 /\ i \in 1 .. n
    BY <1>3
  <2>2. h[i] = g[j] /\ h[j] = g[j + 1] /\ link'[i] = link[j]
    BY <1>3, <1>4, <2>1
  <2> QED
    BY <1>5, <2>1, <2>2
<1>10. Marked(h)'
  <2>1. Len(h) = Len(link') + 1
    BY <1>2, <1>3, <1>4
  <2> QED
    BY <1>8, <1>9, <2>1 DEF Marked
<1> QED
  BY <1>1, <1>2, <1>3, <1>4, <1>6, <1>7, <1>10 DEF h

\* The receiver does what the mark says.
LEMMA TraceDelivers ==
  ASSUME Recoverable, SenderOK, DiskOK, NEW g \in Seq(Marks), Trace(g), Deliver
  PROVE  DiskOK' /\ \E h \in Seq(Marks) : Trace(h)'
<1>1. PICK h : h = Tail(g)
  OBVIOUS
<1>2. PICK n \in Nat \ {0} : n = Len(link) /\ Len(g) = n + 1
  BY MarkedDelivers DEF Trace
<1>3. /\ h \in Seq(Marks) /\ Len(h) = n
      /\ \A i \in 1 .. n : h[i] = g[i + 1]
      /\ g[1] \in Marks /\ g[2] \in Marks /\ Marked(h)'
  BY <1>1, <1>2, MarkedDelivers DEF Trace
<1>4. Took(g[2])
  <2>1. Rx(g[1])
    BY DEF Trace
  <2>2. Carries(Head(link), g[2]) /\ Follows(g[1], g[2]) /\ R!Handle(Head(link))
    BY MarkedDelivers DEF Trace
  <2> QED
    BY <1>3, <2>1, <2>2, TakeAny
<1>5. Rx(h[1])'
  <2>1. h[1] = g[2]
    BY <1>2, <1>3
  <2> QED
    BY <1>4, <2>1 DEF Took
<1>6. ASSUME NEW p \in Paths
      PROVE  Settled(h, p)'
  <2>1. SUFFICES ASSUME dropped[p] # NoFile, source[p] = NoFile
                 PROVE  \/ (\A i \in 2 .. n : h[i].path # p) /\ final'[p] = Exactly(dropped[p])
                        \/ \E i \in 2 .. n : /\ h[i] = EndMark(p, dropped[p])
                                             /\ \A j \in i + 1 .. n : h[j].path # p
    BY <1>3 DEF Settled, Deliver
  <2>2. Settled(g, p)
    BY DEF Trace
  <2>3. CASE (\A i \in 2 .. Len(g) : g[i].path # p) /\ final[p] = Exactly(dropped[p])
    <3>1. \A i \in 1 .. n : i + 1 \in 2 .. Len(g)
      BY <1>2
    <3>2. \A i \in 1 .. n : h[i].path # p
      BY <1>3, <2>3, <3>1
    <3>3. \A i \in 2 .. n : i \in 1 .. n
      OBVIOUS
    <3>4. g[2].path # p
      BY <1>2, <2>3
    <3>5. final'[p] = final[p]
      BY <1>4, <3>4 DEF Took
    <3> QED
      BY <2>3, <3>2, <3>3, <3>5
  <2>4. CASE \E i \in 2 .. Len(g) : /\ g[i] = EndMark(p, dropped[p])
                                    /\ \A j \in i + 1 .. Len(g) : g[j].path # p
    <3>1. PICK i \in 2 .. n + 1 : /\ g[i] = EndMark(p, dropped[p])
                                  /\ \A j \in i + 1 .. n + 1 : g[j].path # p
      BY <1>2, <2>4
    <3>2. ASSUME NEW j \in i .. n
          PROVE  h[j].path # p
      <4>1. j \in 1 .. n /\ j + 1 \in i + 1 .. n + 1
        OBVIOUS
      <4> QED
        BY <1>3, <3>1, <4>1
    <3>3. CASE i = 2
      <4>1. dropped[p] \in Versions
        BY <2>1 DEF SenderOK
      <4>2. g[2].kind = "END" /\ g[2].path = p /\ g[2].ver = dropped[p]
        BY <3>1, <3>3 DEF EndMark
      <4>3. final'[p] = Exactly(dropped[p])
        BY <1>4, <4>2 DEF Took, Rx
      <4> QED
        BY <3>2, <3>3, <4>3
    <3>4. CASE i # 2
      <4>1. PICK k \in 2 .. n : i = k + 1 /\ k \in 1 .. n
        BY <3>4
      <4>2. h[k] = EndMark(p, dropped[p])
        BY <1>3, <3>1, <4>1
      <4> QED
        BY <3>2, <4>1, <4>2
    <3> QED
      BY <3>3, <3>4
  <2> QED
    BY <2>1, <2>2, <2>3, <2>4 DEF Settled
<1>7. Trace(h)' /\ DiskOK'
  BY <1>3, <1>4, <1>5, <1>6 DEF Trace, Took
<1> QED
  BY <1>3, <1>7

-----------------------------------------------------------------------------
(* Faults                                                                  *)
(*                                                                         *)
(* System calls fail at either end, the memory cap is reached, and either  *)
(* process is started again, any number of times.  The marks still say     *)
(* what is under way, but the receiver may be elsewhere: it may have lost  *)
(* the transfer or given it up, or, when the sender begins the file again, *)
(* be ahead of it.                                                         *)

\* In state s the receiver is in batch n of content x under p.
AtBatch(s, p, x, n) ==
  \E D, E, bytes, sum : /\ D \in SUBSET BatchSet(n, x) /\ E \in SUBSET (0 .. BATCH_PARITY_CHUNKS - 1)
                        /\ s = RxState(p, x, n, D, E, bytes, sum)

\* So it is now, with the batches before n on disk.
Building(p, x, n) == partial[p] = UpTo(x, n) /\ AtBatch(state, p, x, n)

\* The receiver after the packet with mark m, whatever failed: without a
\* transfer, in a failed one, or in that of m, not behind it.
RxSafe(m) ==
  /\ Quiet(m) => state = R!NewState
  /\ \/ state = R!NewState
     \/ state.failed /\ state.file_path = m.path
     \/ \E n \in Nat : Building(m.path, m.ver, n) /\ (m.kind = "CHUNK" => n >= m.batch)

DiskSafe ==
  /\ partial = [p \in Paths |-> partial[p]]
  /\ final = [p \in Paths |-> final[p]]
  /\ PublishedIntact

SafeInv ==
  /\ SenderOK /\ DiskSafe
  /\ \E g \in Seq(Marks) : Marked(g) /\ RxSafe(g[1])

\* The transfer the receiver is in.
LEMMA AtBatchIs ==
  ASSUME NEW s, NEW p, NEW x, NEW n, AtBatch(s, p, x, n)
  PROVE  /\ s.file_path = p /\ s.path_hash = p /\ ~s.failed /\ s.current_batch = n
         /\ s.file_size = FileSize[x]
BY DEF AtBatch, RxState

\* A batch that can be finalized got enough packets, and is written as it was sent.
LEMMA FinalizedIs ==
  ASSUME NEW p, NEW x \in Versions, NEW n \in Nat, NEW s, AtBatch(s, p, x, n),
         NEW io, R!finalize_ok(s, io)
  PROVE  R!Written(s, UpTo(x, n)) = UpTo(x, n + 1)
<1>1. PICK D, E, bytes, sum :
        /\ D \in SUBSET BatchSet(n, x) /\ E \in SUBSET (0 .. BATCH_PARITY_CHUNKS - 1)
        /\ s = RxState(p, x, n, D, E, bytes, sum)
  BY DEF AtBatch
<1>2. /\ R!batch_data_size(s.current_batch, s.file_size) = ChunksIn(n, x)
      /\ R!NeedsFec(s) <=> Cardinality(D) < ChunksIn(n, x)
      /\ R!FecPossible(s) <=> Cardinality(D) + Cardinality(E) >= ChunksIn(n, x)
  BY <1>1, RxBatch
<1>3. ChunksIn(n, x) = 0 \/ (R!NeedsFec(s) => R!FecPossible(s))
  BY <1>2 DEF R!finalize_ok
<1>4. Cardinality(D) \in Nat /\ Cardinality(E) \in Nat /\ ChunksIn(n, x) \in Nat
  <2>1. Cardinality(D) \in Nat /\ Cardinality(E) \in Nat
    BY <1>1, CollectedCards
  <2>2. ChunksIn(n, x) \in Nat
    BY ChunksInIs
  <2> QED
    BY <2>1, <2>2
<1>5. Cardinality(D) + Cardinality(E) >= ChunksIn(n, x)
  BY <1>2, <1>3, <1>4
<1> QED
  BY <1>1, <1>5, WrittenIs

\* Filing a packet, a second copy perhaps, keeps the receiver in its batch,
\* unless the memory cap fails the transfer.
LEMMA FiledSafely ==
  ASSUME NEW p \in Paths, NEW x \in Versions, NEW n \in Nat, NEW slot \in Nat,
         NEW packet, packet = ChunkPacket(p, x, n, slot),
         slot < ChunksIn(n, x) + BATCH_PARITY_CHUNKS, NEW s, AtBatch(s, p, x, n),
         NEW t, t = Filed(s, packet, x, n, slot)
  PROVE  AtBatch(t, p, x, n) \/ (t.failed /\ t.file_path = p)
<1>1. PICK D, E, bytes, sum :
        /\ D \in SUBSET BatchSet(n, x) /\ E \in SUBSET (0 .. BATCH_PARITY_CHUNKS - 1)
        /\ s = RxState(p, x, n, D, E, bytes, sum)
  BY DEF AtBatch
<1>2. /\ s.data_buffer = [i \in D |-> DataOf(x, i)] /\ DOMAIN s.data_buffer = D
      /\ s.parity_buffer = [j \in E |-> ShardOf(n, x)] /\ DOMAIN s.parity_buffer = E
      /\ [s EXCEPT !.failed = TRUE].failed /\ [s EXCEPT !.failed = TRUE].file_path = p
  BY <1>1 DEF RxState
<1>3. CASE slot < ChunksIn(n, x)
  <2>1. PICK i : i = First(n) + slot
    OBVIOUS
  <2>2. packet.count = i /\ packet.data = DataOf(x, i) /\ t = R!buffer_data(s, packet)
    <3>1. packet = MkData(p, x, i)
      BY <1>3, <2>1, DataPacketIs
    <3> QED
      BY <1>3, <3>1 DEF MkData, DataOf, Filed
  <2>3. i \in BatchSet(n, x)
    BY <1>3, <2>1, SizesType, ChunksInIs DEF BatchSet
  <2>4. CASE t = s \/ t = [s EXCEPT !.failed = TRUE]
    BY <1>2, <2>4
  <2>5. CASE t = [s EXCEPT !.bytes_buffered = s.bytes_buffered + packet.data.len,
                           !.bytes_transferred = s.bytes_transferred + packet.data.len,
                           !.data_buffer = R!Insert(s.data_buffer, i, DataOf(x, i))]
    <3>1. R!Insert(s.data_buffer, i, DataOf(x, i)) = [d \in D \cup {i} |-> DataOf(x, d)]
      BY <1>2 DEF R!Insert
    <3>2. t = RxState(p, x, n, D \cup {i}, E, s.bytes_buffered + packet.data.len,
                      s.bytes_transferred + packet.data.len)
      BY <1>1, <2>5, <3>1 DEF RxState
    <3>3. D \cup {i} \in SUBSET BatchSet(n, x)
      BY <1>1, <2>3
    <3> QED
      BY <1>1, <3>2, <3>3 DEF AtBatch
  <2> QED
    BY <2>2, <2>4, <2>5 DEF R!buffer_data
<1>4. CASE ~(slot < ChunksIn(n, x))
  <2>1. PICK j \in 0 .. BATCH_PARITY_CHUNKS - 1 :
          /\ j = slot - ChunksIn(n, x)
          /\ packet = MkParity(p, Codeword(n, x), n, j)
    BY <1>4, ParityPacketIs
  <2>2. packet.data = ShardOf(n, x) /\ t = R!buffer_parity(s, packet, j)
    BY <1>4, <2>1 DEF MkParity, ShardOf, Filed
  <2>3. CASE t = s \/ t = [s EXCEPT !.failed = TRUE]
    BY <1>2, <2>3
  <2>4. CASE t = [s EXCEPT !.bytes_buffered = s.bytes_buffered + packet.data.len,
                           !.parity_buffer = R!Insert(s.parity_buffer, j, ShardOf(n, x))]
    <3>1. R!Insert(s.parity_buffer, j, ShardOf(n, x)) = [e \in E \cup {j} |-> ShardOf(n, x)]
      BY <1>2 DEF R!Insert
    <3>2. t = RxState(p, x, n, D, E \cup {j}, s.bytes_buffered + packet.data.len, sum)
      BY <1>1, <2>4, <3>1 DEF RxState
    <3>3. E \cup {j} \in SUBSET (0 .. BATCH_PARITY_CHUNKS - 1)
      BY <1>1, <2>1
    <3> QED
      BY <1>1, <3>2, <3>3 DEF AtBatch
  <2> QED
    BY <2>2, <2>3, <2>4 DEF R!buffer_parity
<1> QED
  BY <1>3, <1>4

\* The receiver, as the packet marked next leaves it.
Safely(next) == RxSafe(next)' /\ DiskSafe'

\* A packet that changes nothing.
LEMMA SafeUnchanged ==
  ASSUME DiskSafe, NEW next, UNCHANGED <<state, stats, final, partial, marker>>, RxSafe(next)
  PROVE  Safely(next)
BY DEF Safely, RxSafe, Building, DiskSafe, PublishedIntact

\* In a transfer, the receiver is in that of the last mark.
LEMMA InTransfer ==
  ASSUME NEW m \in Marks, RxSafe(m), state # R!NewState
  PROVE  /\ ~Quiet(m) /\ m.kind # "NONE" /\ state.file_path = m.path
         /\ m.path \in Paths /\ m.ver \in Versions /\ m.path # NoPath /\ R!Receiving
         /\ \/ state.failed
            \/ \E n \in Nat : Building(m.path, m.ver, n) /\ (m.kind = "CHUNK" => n >= m.batch)
<1>1. ~Quiet(m) /\ m.kind # "NONE"
  BY DEF RxSafe, Quiet
<1>2. m.path \in Paths /\ m.ver \in Versions /\ m.path # NoPath
  BY <1>1, MarkFields
<1>3. state.file_path = m.path
  BY AtBatchIs DEF RxSafe, Building
<1> QED
  BY <1>1, <1>2, <1>3 DEF RxSafe, R!Receiving

\* A START arrives: the transfer under way goes on if it is the same, and is
\* given up otherwise.
LEMMA SafeStart ==
  ASSUME DiskSafe, NEW m \in Marks, NEW next \in Marks, next.kind = "START",
         RxSafe(m), Follows(m, next), NEW packet, Carries(packet, next), R!Handle(packet)
  PROVE  Safely(next)
<1> DEFINE p == next.path
           x == next.ver
<1>1. p \in Paths /\ x \in Versions /\ p # NoPath /\ ~Quiet(next)
  BY MarkFields DEF Quiet
<1>2. packet = MkStart(p, FileSize[x], BATCH_PARITY_CHUNKS)
  BY DEF Carries
<1>3. /\ packet.type = "START" /\ packet.path = p /\ packet.path_hash = p
      /\ packet.count = FileSize[x] /\ packet.parity = BATCH_PARITY_CHUNKS
  BY <1>2 DEF MkStart
<1>4. CASE state.file_path = p
  <2>1. UNCHANGED <<state, stats, final, partial, marker>>
    BY <1>3, <1>4 DEF R!Handle, R!HandleData, R!HandleParity, R!StartAgain, R!StartRejected,
       R!StartNotOpened, R!StartOpened, R!EndStored, R!EndFailed, R!Ignore, R!NewStart, R!vars, R!disk
  <2>2. state # R!NewState
    BY <1>1, <1>4 DEF R!NewState
  <2>3. m.path = p /\ m.ver = x
    <3>1. m.path = p /\ ~Quiet(m)
      BY <1>4, <2>2, InTransfer
    <3> QED
      BY <3>1 DEF Follows
  <2>4. RxSafe(next)
    BY <1>1, <1>4, <2>2, <2>3, InTransfer DEF RxSafe
  <2> QED
    BY <2>1, <2>4, SafeUnchanged
<1>5. CASE state.file_path # p
  <2>1. R!StartRejected(packet) \/ R!StartNotOpened(packet) \/ R!StartOpened(packet)
    BY <1>3, <1>5 DEF R!Handle, R!HandleData, R!HandleParity, R!StartAgain, R!EndStored,
       R!EndFailed, R!Ignore
  <2>2. ~R!StartRejected(packet)
    BY <1>1, <1>3 DEF R!StartRejected, R!is_safe_rel_path
  <2>3. R!AfterAbort = R!NewState
    <3>1. state # R!NewState => R!Receiving
      BY InTransfer
    <3> QED
      BY <3>1 DEF R!AfterAbort, R!reset_transfer
  <2>4. /\ final' = [q \in Paths |-> final'[q]]
        /\ \A q \in Paths : final'[q] \in {NoFile, final[q]}
    <3>1. \E marked : R!ClearWay(packet, marked)
      BY <2>1, <2>2 DEF R!StartNotOpened, R!StartOpened
    <3> QED
      BY <3>1, ClearWayIs
  <2>5. PublishedIntact'
    BY <2>4 DEF DiskSafe, PublishedIntact
  <2>6. CASE R!StartNotOpened(packet)
    <3>1. state' = R!NewState
      BY <2>3, <2>6 DEF R!StartNotOpened
    <3>2. partial' = [q \in Paths |-> partial'[q]]
      <4>1. PICK left \in R!PartialsCleared(R!Aborted \cup {p}) :
              \/ partial' = left
              \/ partial' = [left EXCEPT ![p] = R!FreshFile(0)]
        BY <1>3, <2>6 DEF R!StartNotOpened
      <4>2. left = [q \in Paths |-> left[q]]
        BY <4>1, PartialsClearedIs
      <4> QED
        BY <4>1, <4>2
    <3> QED
      BY <1>1, <2>4, <2>5, <3>1, <3>2 DEF Safely, RxSafe, DiskSafe
  <2>7. CASE R!StartOpened(packet)
    <3>1. state' = RxState(p, x, 0, {}, {}, 0, 0)
      <4>1. <<>> = [d \in {} |-> DataOf(x, d)] /\ <<>> = [e \in {} |-> ShardOf(0, x)]
        OBVIOUS
      <4> QED
        BY <1>3, <2>3, <2>7, <4>1 DEF R!StartOpened, R!NewState, RxState
    <3>2. AtBatch(state', p, x, 0)
      BY <3>1 DEF AtBatch
    <3>3. PICK left \in R!PartialsCleared(R!Aborted) : partial' = [left EXCEPT ![p] = UpTo(x, 0)]
      <4>1. R!FreshFile(FileSize[x]) = UpTo(x, 0)
        <5>1. \A i \in 0 .. Total(x) - 1 : ~(i < First(0))
          BY SizesType, <1>1 DEF First
        <5> QED
          BY <5>1, SameArithmetic DEF R!FreshFile, UpTo, Total
      <4> QED
        BY <1>3, <2>7, <4>1 DEF R!StartOpened
    <3>4. partial' = [q \in Paths |-> partial'[q]] /\ partial'[p] = UpTo(x, 0)
      <4>1. left = [q \in Paths |-> left[q]]
        BY <3>3, PartialsClearedIs
      <4> QED
        BY <1>1, <3>3, <4>1
    <3>5. RxSafe(next)'
      <4>1. Building(p, x, 0)' /\ 0 \in Nat
        BY <3>2, <3>4 DEF Building
      <4> QED
        BY <1>1, <4>1 DEF RxSafe
    <3> QED
      BY <2>4, <2>5, <3>4, <3>5 DEF Safely, DiskSafe
  <2> QED
    BY <2>1, <2>2, <2>6, <2>7
<1> QED
  BY <1>4, <1>5

\* An END arrives: the receiver is in the last batch, so the file is whole if
\* that batch can be finalized; in all other cases nothing is published.
LEMMA SafeEnd ==
  ASSUME DiskSafe, NEW m \in Marks, NEW next \in Marks, next.kind = "END",
         RxSafe(m), Follows(m, next), NEW packet, Carries(packet, next), R!Handle(packet)
  PROVE  Safely(next)
<1>1. packet.type = "END" /\ Quiet(next)
  BY DEF Carries, MkEnd, Quiet
<1>2. CASE state = R!NewState
  <2>1. ~R!Receiving
    BY <1>2 DEF R!NewState, R!Receiving
  <2>2. UNCHANGED <<state, stats, final, partial, marker>>
    BY <1>1, <2>1 DEF R!Handle, R!HandleData, R!HandleParity, R!StartAgain, R!StartRejected,
       R!StartNotOpened, R!StartOpened, R!EndStored, R!EndFailed, R!Ignore, R!NewStart, R!vars, R!disk
  <2>3. RxSafe(next)
    BY <1>2 DEF RxSafe
  <2> QED
    BY <2>2, <2>3, SafeUnchanged
<1>3. CASE state # R!NewState
  <2>1. PICK p \in Paths, x \in Versions : p = m.path /\ x = m.ver
    BY <1>3, InTransfer
  <2>2. /\ ~Quiet(m) /\ state.file_path = p /\ R!Receiving
        /\ \/ state.failed
           \/ \E n \in Nat : Building(p, x, n) /\ (m.kind = "CHUNK" => n >= m.batch)
    BY <1>3, <2>1, InTransfer
  <2>3. PICK io \in R!Io : R!EndStored(packet, io) \/ R!EndFailed(packet, io)
    BY <1>1, <2>2 DEF R!Handle, R!HandleData, R!HandleParity, R!StartAgain, R!StartRejected,
       R!StartNotOpened, R!StartOpened, R!Ignore, R!NewStart
  <2>4. state' = R!NewState
    BY <2>3 DEF R!EndStored, R!EndFailed, R!reset_transfer
  <2>5. RxSafe(next)' /\ partial' = [q \in Paths |-> partial'[q]]
    <3>1. CASE R!EndFailed(packet, io)
      BY <2>4, <3>1, PartialsClearedIs DEF RxSafe, R!EndFailed
    <3>2. CASE R!EndStored(packet, io)
      BY <2>4, <3>2 DEF RxSafe, R!EndStored, R!Without
    <3> QED
      BY <2>3, <3>1, <3>2
  <2>6. CASE R!EndFailed(packet, io)
    <3>1. R!mark_failure({state.file_path})
      BY <2>6 DEF R!EndFailed
    <3>2. /\ final' = [q \in Paths |-> final'[q]]
          /\ \A q \in Paths : final'[q] \in {NoFile, final[q]}
      BY <3>1, MarkFailureIs
    <3>3. PublishedIntact'
      BY <3>2 DEF DiskSafe, PublishedIntact
    <3> QED
      BY <2>5, <3>2, <3>3 DEF Safely, DiskSafe
  <2>7. CASE R!EndStored(packet, io)
    <3>1. ~state.failed /\ R!finalize_ok(state, io)
      BY <2>7 DEF R!EndStored, R!FinishOk
    <3>2. PICK n \in Nat : Building(p, x, n) /\ (m.kind = "CHUNK" => n >= m.batch)
      BY <2>2, <3>1
    <3>3. PICK k \in Nat : Complete(m, p, x, k) /\ ChunksIn(k, x) = 0
      <4>1. m # next
        BY <1>1, <2>2
      <4>2. PICK k \in Nat : Complete(m, next.path, next.ver, k) /\ ChunksIn(k, next.ver) = 0
        BY <4>1 DEF Follows
      <4>3. next.path = p /\ next.ver = x
        BY <2>1, <4>2 DEF Complete, InBatch, StartMark
      <4> QED
        BY <4>2, <4>3
    <3>4. First(n + 1) >= Total(x)
      <4>1. n + 1 >= k
        BY <3>2, <3>3 DEF Complete, InBatch
      <4>2. First(k) >= Total(x) /\ First(k) \in Nat /\ First(n + 1) \in Nat /\ Total(x) \in Nat
        BY <3>3, SizesType, ChunksInIs
      <4>3. First(n + 1) >= First(k)
        <5>1. PICK b \in Nat : b = n + 1
          OBVIOUS
        <5>2. BATCH_DATA_CHUNKS \in Nat
          BY SizesType
        <5> QED
          BY <4>1, <5>1, <5>2, TimesMono DEF First
      <4> QED
        BY <4>2, <4>3
    <3>5. R!Completed = Exactly(x)
      <4>1. R!Written(state, UpTo(x, n)) = UpTo(x, n + 1)
        BY <3>1, <3>2, FinalizedIs DEF Building
      <4>2. UpTo(x, n + 1) = Exactly(x)
        <5>1. n + 1 \in Nat
          OBVIOUS
        <5> QED
          BY <3>4, <5>1, UpToWhole
      <4> QED
        BY <2>2, <3>2, <4>1, <4>2 DEF R!Completed, Building
    <3>6. final' = [q \in Paths |-> IF q = p THEN Exactly(x) ELSE final[q]]
      <4>1. final = [q \in Paths |-> final[q]]
        BY DEF DiskSafe
      <4>2. final' = [final EXCEPT ![p] = Exactly(x)]
        BY <2>2, <2>7, <3>5 DEF R!EndStored
      <4> QED
        BY <4>1, <4>2
    <3>7. PublishedIntact'
      <4> SUFFICES ASSUME NEW q \in Paths, final'[q] # NoFile
                   PROVE  \E y \in Versions : final'[q] = Exactly(y)
        BY DEF PublishedIntact, Exactly
      <4> QED
        BY <3>6 DEF DiskSafe, PublishedIntact
    <3>8. final' = [q \in Paths |-> final'[q]]
      BY <3>6
    <3> QED
      BY <2>5, <3>7, <3>8 DEF Safely, DiskSafe
  <2> QED
    BY <2>3, <2>6, <2>7
<1> QED
  BY <1>2, <1>3

\* A data or parity packet arrives: in a transfer, the receiver is in the batch
\* of the packet, in the one before it, or further on.
LEMMA SafeChunk ==
  ASSUME DiskSafe, NEW m \in Marks, NEW next \in Marks, next.kind = "CHUNK",
         RxSafe(m), Follows(m, next), NEW packet, Carries(packet, next), R!Handle(packet)
  PROVE  Safely(next)
<1>1. PICK p \in Paths, x \in Versions, n \in Nat, slot \in Nat :
        p = next.path /\ x = next.ver /\ n = next.batch /\ slot = next.slot
  BY MarkFields
<1>2. /\ packet = ChunkPacket(p, x, n, slot) /\ ChunksIn(n, x) > 0 /\ ~Quiet(next)
      /\ slot < ChunksIn(n, x) + BATCH_PARITY_CHUNKS
  BY <1>1 DEF Carries, Quiet
<1>3. Complete(m, p, x, n) \/ InBatch(m, p, x, n)
  BY <1>1 DEF Follows
<1>4. /\ m.path = p /\ m.ver = x
      /\ \A r \in Nat : (m.kind = "CHUNK" => r >= m.batch) => n <= r + 1
  BY <1>3 DEF Complete, InBatch, StartMark
<1>5. packet.type \in {"DATA", "PARITY"}
  <2>1. CASE slot < ChunksIn(n, x)
    BY <1>2, <2>1, DataPacketIs
  <2>2. CASE ~(slot < ChunksIn(n, x))
    BY <1>2, <2>2, ParityPacketIs
  <2> QED
    BY <2>1, <2>2
<1>6. CASE state = R!NewState \/ state.failed
  <2>1. ~R!Accepts(packet)
    BY <1>6 DEF R!Accepts, R!Receiving, R!NewState
  <2>2. UNCHANGED <<state, stats, final, partial, marker>>
    BY <1>5, <2>1 DEF R!Handle, R!HandleData, R!HandleParity, R!StartAgain, R!StartRejected,
       R!StartNotOpened, R!StartOpened, R!EndStored, R!EndFailed, R!Ignore, R!NewStart, R!vars, R!disk
  <2>3. state = R!NewState \/ (state.failed /\ state.file_path = p)
    BY <1>4, <1>6, InTransfer
  <2>4. RxSafe(next)
    BY <1>1, <1>2, <2>3 DEF RxSafe
  <2> QED
    BY <2>2, <2>4, SafeUnchanged
<1>7. CASE state # R!NewState /\ ~state.failed
  <2>1. PICK r \in Nat : Building(p, x, r) /\ (m.kind = "CHUNK" => r >= m.batch)
    BY <1>4, <1>7, InTransfer
  <2>2. /\ partial[p] = UpTo(x, r) /\ AtBatch(state, p, x, r) /\ n <= r + 1
        /\ state.file_path = p /\ state.path_hash = p /\ state.current_batch = r
        /\ state.file_size = FileSize[x]
    <3>1. partial[p] = UpTo(x, r) /\ AtBatch(state, p, x, r) /\ n <= r + 1
      BY <1>4, <2>1 DEF Building
    <3> QED
      BY <3>1, AtBatchIs
  <2>3. PICK io \in R!Io :
          /\ R!WriteThrough(n, io)
          /\ UNCHANGED <<stats, final, marker>>
          /\ LET s == R!EnterBatch(state, n, io)
             IN  state' = IF ~s.failed /\ n = s.current_batch THEN Filed(s, packet, x, n, slot) ELSE s
    BY <1>2, <1>7, <2>2, HandleChunk
  <2> DEFINE Ahead == \E k \in Nat : AtBatch(state', p, x, k) /\ partial'[p] = UpTo(x, k) /\ k >= n
             GivenUp == state'.failed /\ state'.file_path = p
             OnDisk == partial' = [q \in Paths |-> partial'[q]]
  <2>4. partial = [q \in Paths |-> partial[q]]
    BY DEF DiskSafe
  <2>5. ASSUME n <= r
        PROVE  OnDisk /\ (Ahead \/ GivenUp)
    <3>1. ~(n > r)
      BY <2>5
    <3>2. R!EnterBatch(state, n, io) = state /\ UNCHANGED partial
      BY <2>2, <2>3, <3>1 DEF R!EnterBatch, R!WriteThrough
    <3>3. OnDisk
      BY <2>4, <3>2
    <3>4. CASE n = r
      <4>1. state' = Filed(state, packet, x, n, slot)
        BY <1>7, <2>2, <2>3, <3>2, <3>4
      <4>2. AtBatch(state', p, x, n) \/ GivenUp
        BY <1>2, <2>2, <3>4, <4>1, FiledSafely
      <4>3. partial'[p] = UpTo(x, n) /\ n >= n
        BY <2>2, <3>2, <3>4
      <4> QED
        BY <3>3, <4>2, <4>3
    <3>5. CASE n # r
      <4>1. state' = state
        BY <2>2, <2>3, <3>2, <3>5
      <4>2. AtBatch(state', p, x, r) /\ partial'[p] = UpTo(x, r) /\ r >= n
        BY <2>2, <2>5, <3>2, <4>1
      <4> QED
        BY <3>3, <4>2
    <3> QED
      BY <3>4, <3>5
  <2>6. ASSUME n = r + 1, R!finalize_ok(state, io)
        PROVE  OnDisk /\ (Ahead \/ GivenUp)
    <3>1. n > r /\ ~(r + 1 < n)
      BY <2>6
    <3>2. R!EnterBatch(state, n, io) = [R!clear_batch(state) EXCEPT !.current_batch = n]
      BY <2>2, <2>6, <3>1 DEF R!EnterBatch, R!advance_to_batch
    <3>3. PICK s : s = R!EnterBatch(state, n, io)
      OBVIOUS
    <3>4. AtBatch(s, p, x, n)
      <4>1. PICK D, E, bytes, sum : state = RxState(p, x, r, D, E, bytes, sum)
        BY <2>2 DEF AtBatch
      <4>2. <<>> = [d \in {} |-> DataOf(x, d)] /\ <<>> = [e \in {} |-> ShardOf(n, x)]
        OBVIOUS
      <4>3. s = RxState(p, x, n, {}, {}, 0, sum)
        BY <3>2, <3>3, <4>1, <4>2 DEF R!clear_batch, RxState
      <4> QED
        BY <4>3 DEF AtBatch
    <3>5. state' = Filed(s, packet, x, n, slot)
      <4>1. ~s.failed /\ s.current_batch = n
        BY <3>4, AtBatchIs
      <4> QED
        BY <2>3, <3>3, <4>1
    <3>6. AtBatch(state', p, x, n) \/ GivenUp
      BY <1>2, <3>4, <3>5, FiledSafely
    <3>7. R!Written(state, UpTo(x, r)) = UpTo(x, n)
      BY <2>2, <2>6, FinalizedIs
    <3>8. R!batch_data_size(state.current_batch, state.file_size) > 0
      <4>1. ChunksIn(r, x) > 0
        BY <1>2, <2>6, ChunksBefore
      <4> QED
        BY <2>2, <4>1, SameArithmetic DEF ChunksIn
    <3>9. partial' = [partial EXCEPT ![p] = UpTo(x, n)]
      BY <2>2, <2>3, <2>6, <3>1, <3>7, <3>8 DEF R!WriteThrough
    <3>10. OnDisk /\ partial'[p] = UpTo(x, n)
      BY <2>4, <3>9
    <3>11. n >= n
      OBVIOUS
    <3> QED
      BY <3>6, <3>10, <3>11
  <2>7. ASSUME n = r + 1, ~R!finalize_ok(state, io)
        PROVE  OnDisk /\ (Ahead \/ GivenUp)
    <3>1. n > r
      BY <2>7
    <3>2. R!EnterBatch(state, n, io) = [state EXCEPT !.failed = TRUE]
      BY <2>2, <2>7, <3>1 DEF R!EnterBatch, R!advance_to_batch
    <3>3. PICK s : s = R!EnterBatch(state, n, io)
      OBVIOUS
    <3>4. s.failed /\ s.file_path = p
      <4>1. PICK D, E, bytes, sum : state = RxState(p, x, r, D, E, bytes, sum)
        BY <2>2 DEF AtBatch
      <4> QED
        BY <3>2, <3>3, <4>1 DEF RxState
    <3>5. state' = s
      BY <2>3, <3>3, <3>4
    <3>6. UNCHANGED partial
      BY <2>3, <2>7 DEF R!WriteThrough
    <3>7. OnDisk /\ GivenUp
      BY <2>4, <3>4, <3>5, <3>6
    <3> QED
      BY <3>7
  <2>8. OnDisk /\ (Ahead \/ GivenUp)
    <3>1. n <= r \/ n = r + 1
      BY <2>2
    <3> QED
      BY <2>5, <2>6, <2>7, <3>1
  <2>9. RxSafe(next)'
    <3>1. CASE GivenUp
      BY <1>1, <1>2, <3>1 DEF RxSafe
    <3>2. CASE Ahead
      BY <1>1, <1>2, <3>2 DEF RxSafe, Building
    <3> QED
      BY <2>8, <3>1, <3>2
  <2>10. DiskSafe'
    BY <2>3, <2>8 DEF DiskSafe, PublishedIntact
  <2> QED
    BY <2>9, <2>10 DEF Safely
<1> QED
  BY <1>6, <1>7

\* Whatever the link carries and whatever fails, nothing wrong is published.
LEMMA SafeAny ==
  ASSUME DiskSafe, NEW m \in Marks, NEW next \in Marks,
         RxSafe(m), Follows(m, next), NEW packet, Carries(packet, next), R!Handle(packet)
  PROVE  Safely(next)
<1>1. next.kind \in {"START", "CHUNK", "END"}
  BY DEF Carries
<1> QED
  BY <1>1, SafeStart, SafeChunk, SafeEnd

-----------------------------------------------------------------------------
(* The theorems                                                            *)

\* In the beginning nothing is under way.
LEMMA InitMarked ==
  ASSUME Init
  PROVE  SenderOK /\ \E g \in Seq(Marks) : Marked(g) /\ Len(g) = 1 /\ g[1] = NoMark
<1> DEFINE g == <<NoMark>>
<1>1. /\ source = [p \in Paths |-> NoFile] /\ dropped = [p \in Paths |-> NoFile]
      /\ snd = Idle({}) /\ used = [drops |-> 0, errors |-> 0] /\ link = <<>> /\ lost = [k \in Kinds |-> 0]
  BY DEF Init, SenderInit, LinkInit
<1>2. /\ snd \in SndType /\ snd.pc = "idle" /\ snd.count = 0
      /\ snd.batch_idx = 0 /\ snd.batch_payloads = <<>> /\ snd.sent = 0
  BY <1>1, IdleIs
<1>3. SenderOK
  <2>1. link \in Seq(PacketType) /\ lost \in [Kinds -> Nat]
    BY <1>1
  <2> QED
    BY <1>1, <1>2, <2>1 DEF SenderOK
<1>4. g \in Seq(Marks) /\ Len(g) = 1 /\ g[1] = NoMark
  BY DEF Marks
<1>5. Tx(NoMark)
  BY <1>2 DEF Tx, Quiet, Between, NoMark
<1> HIDE DEF g
<1>6. Marked(g)
  <2>1. Len(link) = 0
    BY <1>1
  <2> QED
    BY <1>4, <1>5, <2>1 DEF Marked
<1> QED
  BY <1>3, <1>4, <1>6

\* The trace is empty then.
LEMMA InitTrace ==
  ASSUME Init
  PROVE  DiodeInv
<1>1. /\ source = [p \in Paths |-> NoFile] /\ dropped = [p \in Paths |-> NoFile]
      /\ state = R!NewState /\ final = [p \in Paths |-> NoFile] /\ marker = {}
      /\ partial = [p \in Paths |-> NoFile] /\ stats.files_failed = 0 /\ restarts = 0
  BY DEF Init, SenderInit, R!Init
<1>2. PICK g \in Seq(Marks) : Marked(g) /\ Len(g) = 1 /\ g[1] = NoMark
  BY InitMarked
<1>3. DiskOK
  BY <1>1 DEF DiskOK, PublishedIntact, NoFalseFailure
<1>4. Rx(g[1])
  BY <1>1, <1>2 DEF Rx, NoMark
<1>5. \A p \in Paths : Settled(g, p)
  BY <1>1 DEF Settled
<1> QED
  BY <1>1, <1>2, <1>3, <1>4, <1>5, InitMarked DEF DiodeInv, Trace

\* What the sender and its users do, as long as nobody takes a file away.
LEMMA SenderGoes ==
  ASSUME LossBounded, SenderOK, NEW m \in Marks, Tx(m), SenderNext, ~(\E p \in Paths : Withdraw(p))
  PROVE  Goes(m) \/ RemoveSent \/ \E p \in Paths, x \in Versions : Drop(p, x)
<1>1. CASE \/ Scan \/ \E p \in Paths : Watch(p)
           \/ Settle \/ Stat \/ OpenFile \/ Vanished \/ EndOfFile
  BY <1>1, GoSilent
<1>2. CASE send_start_packet
  BY <1>2, GoStart
<1>3. CASE send_data_packet
  BY <1>3, GoData
<1>4. CASE send_parity_packets
  BY <1>4, GoParity
<1>5. CASE send_end_packet
  BY <1>5, GoEnd
<1>6. CASE SendError \/ SenderRestart
  BY <1>6, GoFail
<1> QED
  BY <1>1, <1>2, <1>3, <1>4, <1>5, <1>6 DEF SenderNext, SenderStep

\* The last of the marks is a mark.
LEMMA LastMark ==
  ASSUME SenderOK, NEW g \in Seq(Marks), Marked(g)
  PROVE  Tx(g[Len(g)]) /\ g[Len(g)] \in Marks /\ Len(g) \in Nat \ {0} /\ link \in Seq(PacketType)
<1>1. Len(g) \in 1 .. Len(g)
  BY DEF Marked, SenderOK
<1> QED
  BY <1>1 DEF Marked, SenderOK

\* Where nothing happens, the sender goes on as well.
LEMMA GoNowhere ==
  ASSUME SenderOK, NEW m \in Marks, Tx(m), UNCHANGED vars
  PROVE  Goes(m)
<1>1. UNCHANGED <<source, dropped, snd, used, link, lost>>
  BY DEF vars
<1>2. SenderOK'
  BY <1>1 DEF SenderOK
<1>3. Tx(m)'
  BY <1>1, TxKept
<1> QED
  BY <1>1, <1>2, <1>3 DEF Goes

\* Every step of the diode continues the trace.
LEMMA NextTrace ==
  ASSUME Recoverable, DiodeInv, [Next]_vars
  PROVE  DiodeInv'
<1>1. /\ SenderOK /\ DiskOK /\ restarts = 0 /\ used.errors \in Nat
      /\ LossBounded /\ MaxErrors = 0 /\ MaxRestarts = 0
  BY DEF DiodeInv, SenderOK, Recoverable, Faultless
<1>2. PICK g \in Seq(Marks) : Trace(g)
  BY DEF DiodeInv
<1>3. /\ Tx(g[Len(g)]) /\ g[Len(g)] \in Marks /\ link \in Seq(PacketType) /\ Len(g) \in Nat \ {0}
  BY <1>1, <1>2, LastMark DEF Trace
<1>4. ASSUME UNCHANGED <<receiverVars, restarts>>
      PROVE  DiskOK' /\ restarts' = 0 /\ UNCHANGED receiverVars
  BY <1>1, <1>4 DEF DiskOK, PublishedIntact, NoFalseFailure, receiverVars
<1>5. ASSUME Goes(g[Len(g)]), UNCHANGED <<receiverVars, restarts>>
      PROVE  DiodeInv'
  <2>1. PICK h \in Seq(Marks) : Continues(g, h)
    BY <1>2, <1>3, <1>5, MarkedGoes DEF Trace
  <2>2. Rx(h[1])'
    <3>1. Rx(h[1])
      BY <1>2, <2>1 DEF Continues, Trace
    <3> QED
      BY <1>5, <3>1 DEF Rx, Collecting, receiverVars
  <2>3. \A p \in Paths : Settled(h, p)'
    BY <1>2, <1>5, <2>1 DEF Continues, Trace, receiverVars
  <2>4. Trace(h)'
    BY <2>1, <2>2, <2>3 DEF Continues, Trace
  <2> QED
    BY <1>4, <1>5, <2>4 DEF DiodeInv, Goes
<1>6. ASSUME SenderOK', Trace(g)', UNCHANGED <<receiverVars, restarts>>
      PROVE  DiodeInv'
  BY <1>2, <1>4, <1>6 DEF DiodeInv
<1>7. CASE RemoveSent /\ UNCHANGED <<receiverVars, restarts>>
  <2>1. SenderOK' /\ Trace(g)'
    BY <1>1, <1>2, <1>4, <1>7, TraceRemoves, MarkedRemoves DEF Trace
  <2> QED
    BY <1>6, <1>7, <2>1
<1>8. ASSUME NEW p \in Paths, NEW x \in Versions, Drop(p, x), UNCHANGED <<receiverVars, restarts>>
      PROVE  DiodeInv'
  <2>1. SenderOK' /\ Trace(g)'
    BY <1>1, <1>2, <1>4, <1>8, TraceDrops, MarkedDrops DEF Trace
  <2> QED
    BY <1>6, <1>8, <2>1
\* Nothing fails and nobody restarts anything.
<1>9. ~(\E p \in Paths : Withdraw(p)) /\ ~ReceiverRestart
  BY <1>1 DEF Withdraw, ReceiverRestart
<1>10. CASE SenderNext /\ UNCHANGED <<receiverVars, restarts>>
  <2>1. Goes(g[Len(g)]) \/ RemoveSent \/ \E p \in Paths, x \in Versions : Drop(p, x)
    BY <1>1, <1>3, <1>9, <1>10, SenderGoes
  <2> QED
    BY <1>5, <1>7, <1>8, <1>10, <2>1
<1>11. CASE Deliver
  <2>1. DiskOK' /\ \E h \in Seq(Marks) : Trace(h)'
    BY <1>1, <1>2, <1>11, TraceDelivers
  <2>2. SenderOK'
    BY <1>1, <1>2, <1>11, MarkedDelivers DEF Trace
  <2>3. restarts' = 0
    BY <1>1, <1>11 DEF Deliver
  <2> QED
    BY <2>1, <2>2, <2>3 DEF DiodeInv
<1>12. CASE UNCHANGED vars
  <2>1. UNCHANGED <<receiverVars, restarts>>
    BY <1>12 DEF vars, receiverVars
  <2>2. Goes(g[Len(g)])
    BY <1>1, <1>3, <1>12, GoNowhere
  <2> QED
    BY <1>5, <2>1, <2>2
<1> QED
  BY <1>9, <1>10, <1>11, <1>12 DEF Next

\* The receiver is started again: it knows nothing of what was under way.
LEMMA SafeRestart ==
  ASSUME SafeInv, ReceiverRestart
  PROVE  SafeInv'
<1>1. PICK g \in Seq(Marks) : Marked(g) /\ RxSafe(g[1])
  BY DEF SafeInv
<1>2. SenderOK /\ DiskSafe
  BY DEF SafeInv
<1>3. /\ state' = R!NewState /\ link' = <<>>
      /\ UNCHANGED <<source, snd, dropped, used, lost, final, partial>>
  BY DEF ReceiverRestart, R!Restart, R!disk
<1>4. PICK m \in Marks : m = g[Len(g)] /\ Tx(m)
  BY <1>1, <1>2, LastMark
<1>5. PICK h : h = <<m>>
  OBVIOUS
<1>6. h \in Seq(Marks) /\ Len(h) = 1 /\ h[1] = m
  BY <1>5
<1>7. Tx(m)'
  BY <1>2, <1>3, <1>4, TxKept
<1>8. Marked(h)'
  <2>1. Len(link') = 0
    BY <1>3
  <2> QED
    BY <1>6, <1>7, <2>1 DEF Marked
<1>9. RxSafe(h[1])'
  BY <1>3 DEF RxSafe
<1>10. SenderOK'
  <2>1. link' \in Seq(PacketType)
    BY <1>3
  <2> QED
    BY <1>2, <1>3, <2>1 DEF SenderOK
<1>11. DiskSafe'
  BY <1>2, <1>3 DEF DiskSafe, PublishedIntact
<1> QED
  BY <1>6, <1>8, <1>9, <1>10, <1>11 DEF SafeInv

\* The worker takes the oldest packet.
LEMMA SafeDeliver ==
  ASSUME SafeInv, Deliver
  PROVE  SafeInv'
<1>1. PICK g \in Seq(Marks) : Marked(g) /\ RxSafe(g[1])
  BY DEF SafeInv
<1>2. SenderOK /\ DiskSafe
  BY DEF SafeInv
<1>3. PICK h \in Seq(Marks) : h = Tail(g)
  BY <1>1, <1>2, MarkedDelivers
<1>4. /\ SenderOK' /\ Marked(h)' /\ h[1] = g[2] /\ g[1] \in Marks /\ g[2] \in Marks
      /\ Carries(Head(link), g[2]) /\ Follows(g[1], g[2]) /\ R!Handle(Head(link))
  <2>1. 1 \in 1 .. Len(link) /\ 1 + 1 = 2
    BY <1>1, <1>2, MarkedDelivers
  <2> QED
    BY <1>1, <1>2, <1>3, <2>1, MarkedDelivers
<1>5. Safely(g[2])
  BY <1>1, <1>2, <1>4, SafeAny
<1>6. RxSafe(h[1])' /\ DiskSafe'
  BY <1>4, <1>5 DEF Safely
<1> QED
  BY <1>4, <1>6 DEF SafeInv

\* Every step continues the marks and publishes nothing wrong, faults included.
LEMMA SafeNext ==
  ASSUME LossBounded, SafeInv, [Next]_vars, ~(\E p \in Paths : Withdraw(p))
  PROVE  SafeInv'
<1>1. PICK g \in Seq(Marks) : Marked(g) /\ RxSafe(g[1])
  BY DEF SafeInv
<1>2. SenderOK /\ DiskSafe
  BY DEF SafeInv
<1>3. /\ Tx(g[Len(g)]) /\ g[Len(g)] \in Marks /\ link \in Seq(PacketType) /\ Len(g) \in Nat \ {0}
  BY <1>1, <1>2, LastMark
<1>4. ASSUME UNCHANGED <<receiverVars, restarts>>
      PROVE  DiskSafe' /\ RxSafe(g[1])'
  <2>1. DiskSafe'
    BY <1>2, <1>4 DEF DiskSafe, PublishedIntact, receiverVars
  <2>2. RxSafe(g[1])'
    BY <1>1, <1>4 DEF RxSafe, Building, receiverVars
  <2> QED
    BY <2>1, <2>2
<1>5. ASSUME Goes(g[Len(g)]), UNCHANGED <<receiverVars, restarts>>
      PROVE  SafeInv'
  <2>1. PICK h \in Seq(Marks) : Continues(g, h)
    BY <1>1, <1>3, <1>5, MarkedGoes
  <2>2. Marked(h)' /\ h[1] = g[1]
    BY <2>1 DEF Continues
  <2>3. SenderOK'
    BY <1>5 DEF Goes
  <2> QED
    BY <1>4, <1>5, <2>2, <2>3 DEF SafeInv
<1>6. ASSUME SenderOK', Marked(g)', UNCHANGED <<receiverVars, restarts>>
      PROVE  SafeInv'
  BY <1>4, <1>6 DEF SafeInv
<1>7. CASE SenderNext /\ UNCHANGED <<receiverVars, restarts>>
  <2>1. Goes(g[Len(g)]) \/ RemoveSent \/ \E p \in Paths, x \in Versions : Drop(p, x)
    BY <1>2, <1>3, <1>7, SenderGoes
  <2>2. CASE RemoveSent
    BY <1>1, <1>2, <1>6, <1>7, <2>2, MarkedRemoves
  <2>3. CASE \E p \in Paths, x \in Versions : Drop(p, x)
    BY <1>1, <1>2, <1>6, <1>7, <2>3, MarkedDrops
  <2> QED
    BY <1>5, <1>7, <2>1, <2>2, <2>3
<1>8. CASE UNCHANGED vars
  <2>1. UNCHANGED <<receiverVars, restarts>>
    BY <1>8 DEF vars, receiverVars
  <2>2. Goes(g[Len(g)])
    BY <1>2, <1>3, <1>8, GoNowhere
  <2> QED
    BY <1>5, <2>1, <2>2
<1> QED
  BY <1>7, <1>8, SafeDeliver, SafeRestart DEF Next

\* A withdrawal is never a stutter.
LEMMA NoIdleWithdrawal ==
  ASSUME SafeInv, [~\E p \in Paths : Withdraw(p)]_vars
  PROVE  ~\E p \in Paths : Withdraw(p)
<1>1. SUFFICES ASSUME NEW p \in Paths, Withdraw(p), UNCHANGED vars
               PROVE  FALSE
  OBVIOUS
<1>2. source \in [Paths -> Versions \cup {NoFile}]
  BY DEF SafeInv, SenderOK
<1>3. source[p] # NoFile /\ source' = [source EXCEPT ![p] = NoFile] /\ source' = source
  BY <1>1 DEF Withdraw, vars
<1> QED
  BY <1>2, <1>3

\* Sender, link and receiver always stand where a trace of marks says.
THEOREM TraceAlwaysFits ==
  ASSUME Recoverable
  PROVE  Spec => []DiodeInv
<1>1. Init => DiodeInv
  BY InitTrace
<1>2. DiodeInv /\ [Next]_vars => DiodeInv'
  BY NextTrace
<1> QED
  BY <1>1, <1>2, PTL DEF Spec

\* What handle_end renames into place is, byte for byte, a content that users
\* put into the sender's directory, for files and batches of any size.
THEOREM PublishedAlwaysIntact ==
  ASSUME Recoverable
  PROVE  Spec => []PublishedIntact
<1>1. DiodeInv => PublishedIntact
  BY DEF DiodeInv, DiskOK
<1> QED
  BY <1>1, TraceAlwaysFits, PTL

\* handle_end and handle_start report no transfer as failed and create no
\* marker, as long as FEC and the repeated control packets can make up for what
\* the link loses.
THEOREM NeverFalselyFailed ==
  ASSUME Recoverable
  PROVE  Spec => []NoFalseFailure
<1>1. DiodeInv => NoFalseFailure
  BY DEF DiodeInv, DiskOK
<1> QED
  BY <1>1, TraceAlwaysFits, PTL

\* fs::remove_file in send_end_packet deletes nothing that the receiver has not
\* published, or will not have published once it has handled what is under way.
THEOREM DeletedIsDelivered ==
  ASSUME Recoverable
  PROVE  Spec => []DeletedMeansDelivered
<1>1. ASSUME DiodeInv
      PROVE  DeletedMeansDelivered
  <2>1. SUFFICES ASSUME NEW p \in Paths, dropped[p] # NoFile, source[p] = NoFile, link = <<>>
                 PROVE  final[p] = Exactly(dropped[p])
    BY DEF DeletedMeansDelivered
  <2>2. PICK g \in Seq(Marks) : Trace(g)
    BY <1>1 DEF DiodeInv
  <2>3. Len(g) = 1 /\ Settled(g, p)
    BY <2>1, <2>2 DEF Trace, Marked
  <2> QED
    BY <2>1, <2>3 DEF Settled
<1> QED
  BY <1>1, TraceAlwaysFits, PTL

\* No user takes a file out of the watched directory.
NeverWithdrawn == [][~\E p \in Paths : Withdraw(p)]_vars

\* Whatever fails, handle_end publishes nothing but a content that users put into
\* the sender's directory: not when system calls fail at either end, when the
\* memory cap is reached, or when either process is started again in the middle
\* of a transfer, any number of times.  Only losses beyond what FEC and the
\* repeated control packets make up for, and files replaced or withdrawn while
\* they wait or are sent, are left out.
THEOREM IntactDespiteFaults ==
  ASSUME LossBounded
  PROVE  Spec /\ NeverWithdrawn => []PublishedIntact
<1>1. Init => SafeInv
  <2> SUFFICES ASSUME Init PROVE SafeInv
    OBVIOUS
  <2>1. PICK g \in Seq(Marks) : Marked(g) /\ g[1] = NoMark
    BY InitMarked
  <2>2. /\ state = R!NewState /\ final = [p \in Paths |-> NoFile]
        /\ partial = [p \in Paths |-> NoFile]
    BY DEF Init, R!Init
  <2>3. DiskSafe
    BY <2>2 DEF DiskSafe, PublishedIntact
  <2>4. RxSafe(g[1])
    BY <2>2 DEF RxSafe
  <2> QED
    BY <2>1, <2>3, <2>4, InitMarked DEF SafeInv
<1>2. SafeInv /\ [Next]_vars /\ [~\E p \in Paths : Withdraw(p)]_vars => SafeInv'
  <2> SUFFICES ASSUME SafeInv, [Next]_vars, [~\E p \in Paths : Withdraw(p)]_vars
               PROVE  SafeInv'
    OBVIOUS
  <2>1. ~\E p \in Paths : Withdraw(p)
    BY NoIdleWithdrawal
  <2> QED
    BY <2>1, SafeNext
<1>3. SafeInv => PublishedIntact
  BY DEF SafeInv, DiskSafe
<1> QED
  BY <1>1, <1>2, <1>3, PTL DEF Spec, NeverWithdrawn

=============================================================================
