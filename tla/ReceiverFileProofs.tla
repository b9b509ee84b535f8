------------------------- MODULE ReceiverFileProofs -------------------------
(***************************************************************************)
(* Where finalize_current_batch writes and what: the .partial file of a    *)
(* running transfer is complete up to the current batch and untouched from *)
(* it on, what is published is the sent content up to a batch, and the     *)
(* closed form of advance_to_batch is its loop.                            *)
(***************************************************************************)
EXTENDS ReceiverProofs

-----------------------------------------------------------------------------
(* Batches as intervals of chunk numbers                                   *)

\* Integer division: the quotient's multiple is the last one not above n.
LEMMA DivBounds ==
  ASSUME NEW B \in Nat \ {0}, NEW i \in Nat
  PROVE  /\ (i \div B) \in Nat
         /\ (i \div B) * B <= i
         /\ i < (i \div B) * B + B
BY Z3

\* Multiplication by the batch size keeps the order of batches.
LEMMA TimesMonotone ==
  ASSUME NEW B \in Nat \ {0}, NEW m \in Nat, NEW n \in Nat, m < n
  PROVE  m * B + B <= n * B
<1>1. m + 1 <= n
  OBVIOUS
<1>2. (m + 1) * B <= n * B
  BY <1>1
<1>3. (m + 1) * B = m * B + B
  OBVIOUS
<1> QED
  BY <1>2, <1>3

\* A chunk is in the batch whose interval it falls into.
LEMMA BatchInterval ==
  ASSUME NEW i \in Nat, NEW n \in Nat
  PROVE  /\ batch_for_data(i) \in Nat
         /\ batch_for_data(i) = n <=> n * BATCH_DATA_CHUNKS <= i
                                      /\ i < n * BATCH_DATA_CHUNKS + BATCH_DATA_CHUNKS
         /\ batch_for_data(i) < n <=> i < n * BATCH_DATA_CHUNKS
<1> DEFINE B == BATCH_DATA_CHUNKS
           q == i \div B
<1>1. B \in Nat \ {0}
  BY ProtoAssumption
<1>2. q \in Nat /\ q * B <= i /\ i < q * B + B
  BY <1>1, DivBounds
<1>3. n * B \in Nat /\ q * B \in Nat
  BY <1>1, <1>2
<1>4. batch_for_data(i) = q
  BY DEF batch_for_data
<1> HIDE DEF q, B
<1>5. CASE q < n
  <2>1. q * B + B <= n * B
    BY <1>1, <1>2, <1>5, TimesMonotone
  <2> QED
    BY <1>1, <1>2, <1>3, <1>4, <1>5, <2>1 DEF B
<1>6. CASE n < q
  <2>1. n * B + B <= q * B
    BY <1>1, <1>2, <1>6, TimesMonotone
  <2> QED
    BY <1>1, <1>2, <1>3, <1>4, <1>6, <2>1 DEF B
<1>7. CASE n = q
  BY <1>1, <1>2, <1>3, <1>4, <1>7 DEF B
<1> QED
  BY <1>2, <1>5, <1>6, <1>7

\* The chunks finalize_current_batch writes are those of the current batch.
LEMMA BatchChunksAre ==
  ASSUME NEW s \in StateType, NEW i \in 0 .. TotalChunks(s.file_size) - 1
  PROVE  i \in BatchChunks(s) <=> batch_for_data(i) = s.current_batch
<1> DEFINE total == TotalChunks(s.file_size)
           start == s.current_batch * BATCH_DATA_CHUNKS
           n == batch_data_size(s.current_batch, s.file_size)
<1>1. s.current_batch \in Nat /\ s.file_size \in Nat
  BY DEF StateType
<1>2. total \in Nat
  BY <1>1, TotalChunksNat
<1>3. start \in Nat /\ BATCH_DATA_CHUNKS \in Nat
  BY <1>1, ProtoAssumption
<1>4. i \in Nat /\ i < total
  BY <1>2
<1>5. batch_for_data(i) = s.current_batch <=> start <= i /\ i < start + BATCH_DATA_CHUNKS
  BY <1>1, <1>4, BatchInterval
<1>6. n = IF start >= total THEN 0
          ELSE IF total - start < BATCH_DATA_CHUNKS THEN total - start ELSE BATCH_DATA_CHUNKS
  BY DEF batch_data_size
<1>7. i \in BatchChunks(s) <=> n > 0 /\ i \in start .. start + n - 1
  BY DEF BatchChunks, BatchStart
<1> HIDE DEF total, start, n
<1> QED
  BY <1>2, <1>3, <1>4, <1>5, <1>6, <1>7

\* A batch without chunks lies past the end of the file, and so do those after.
LEMMA EmptyBatch ==
  ASSUME NEW size \in Nat, NEW n \in Nat, batch_data_size(n, size) = 0,
         NEW i \in 0 .. TotalChunks(size) - 1
  PROVE  batch_for_data(i) < n
<1> DEFINE start == n * BATCH_DATA_CHUNKS
           total == TotalChunks(size)
<1>1. total \in Nat
  BY TotalChunksNat
<1>2. start \in Nat /\ BATCH_DATA_CHUNKS \in Nat \ {0}
  BY ProtoAssumption
<1>3. start >= total
  <2>1. batch_data_size(n, size) = IF start >= total THEN 0
          ELSE IF total - start < BATCH_DATA_CHUNKS THEN total - start ELSE BATCH_DATA_CHUNKS
    BY DEF batch_data_size
  <2> HIDE DEF start, total
  <2> QED
    BY <1>1, <1>2, <2>1
<1>4. i \in Nat /\ i < start
  <2> HIDE DEF start
  <2> QED
    BY <1>1, <1>2, <1>3
<1> QED
  BY <1>4, BatchInterval

-----------------------------------------------------------------------------
(* One flip of batches                                                     *)

Tracks(file, size, batch) ==
  /\ file.size = size
  /\ \A i \in DOMAIN file.chunk : (file.chunk[i] = Hole) <=> (batch_for_data(i) >= batch)

\* advance_to_batch succeeds only if the batches it steps over are past the
\* end of the file.
LEMMA AdvanceReaches ==
  ASSUME NEW s \in StateType, NEW target \in Nat, target > s.current_batch, NEW io,
         ~advance_to_batch(s, target, io).failed
  PROVE  /\ finalize_ok(s, io)
         /\ advance_to_batch(s, target, io).current_batch = target
         /\ \/ target = s.current_batch + 1
            \/ batch_data_size(s.current_batch + 1, s.file_size) = 0
<1> DEFINE t == advance_to_batch(s, target, io)
           next == s.current_batch + 1
           cleared == clear_batch(s)
<1>1. s.current_batch \in Nat /\ next \in Nat /\ s.file_size \in Nat
  BY DEF StateType
<1>2. batch_data_size(next, s.file_size) \in Nat
  <2> HIDE DEF next
  <2> QED
    BY <1>1, BatchSizeNat
<1>3. cleared \in StateType
  BY BufferEmpty DEF clear_batch, StateType, DataBuffers, ParityBuffers
<1>4. t = IF ~finalize_ok(s, io) THEN [s EXCEPT !.failed = TRUE]
          ELSE IF next < target /\ batch_data_size(next, s.file_size) > 0
          THEN [cleared EXCEPT !.current_batch = next, !.failed = TRUE]
          ELSE [cleared EXCEPT !.current_batch = target]
  BY DEF advance_to_batch
<1> HIDE DEF t, cleared
<1>5. ~t.failed
  BY DEF t
<1>6. finalize_ok(s, io)
  BY <1>4, <1>5 DEF StateType
<1>7. ~(next < target /\ batch_data_size(next, s.file_size) > 0)
  BY <1>3, <1>4, <1>5, <1>6 DEF StateType
<1>8. t.current_batch = target
  BY <1>3, <1>4, <1>6, <1>7 DEF StateType
<1> QED
  BY <1>1, <1>2, <1>6, <1>7, <1>8 DEF t

\* Writing a batch neither adds nor removes chunks.
LEMMA WrittenDomain ==
  ASSUME NEW s \in StateType, NEW file \in Files
  PROVE  DOMAIN Written(s, file).chunk = DOMAIN file.chunk
<1>1. file = [size |-> file.size, chunk |-> file.chunk]
  BY FileElim
<1> QED
  BY <1>1 DEF Written

\* What is written is data: a restored chunk is never a hole.
LEMMA WrittenNotHole ==
  ASSUME NEW s \in StateType, NEW file \in Files, NEW i \in DOMAIN file.chunk
  PROVE  /\ i \in BatchChunks(s) => Written(s, file).chunk[i] # Hole
         /\ i \notin BatchChunks(s) => Written(s, file).chunk[i] = file.chunk[i]
<1> DEFINE new == [k \in DOMAIN file.chunk |->
                     IF k \notin BatchChunks(s) THEN file.chunk[k]
                     ELSE IF k \in DOMAIN s.data_buffer THEN s.data_buffer[k].ver
                     ELSE Restored(s, k)]
<1>1. file = [size |-> file.size, chunk |-> file.chunk]
  BY FileElim
<1>2. Written(s, file) = [size |-> file.size, chunk |-> new]
  BY <1>1 DEF Written
<1>3. Written(s, file).chunk = new
  BY <1>2
<1>4. ASSUME i \in BatchChunks(s) PROVE new[i] # Hole
  <2>1. CASE i \in DOMAIN s.data_buffer
    <3>1. s.data_buffer[i].ver \in Versions
      BY <2>1, BufferedVersion
    <3> QED
      BY <1>4, <2>1, <3>1, ReceiverAssumption
  <2>2. CASE i \notin DOMAIN s.data_buffer
    <3>1. Restored(s, i) \in Versions \cup {Garbage}
      BY <1>4, RestoredType
    <3> QED
      BY <1>4, <2>2, <3>1, ReceiverAssumption
  <2> QED
    BY <2>1, <2>2
<1> QED
  BY <1>3, <1>4

\* A flip to a later batch that succeeds leaves the file complete up to the
\* batch flipped to, and untouched from there.
LEMMA FlipTracks ==
  ASSUME NEW s \in StateType, NEW file \in Files, NEW target \in Nat,
         target > s.current_batch, Tracks(file, s.file_size, s.current_batch),
         \/ target = s.current_batch + 1
         \/ batch_data_size(s.current_batch + 1, s.file_size) = 0
  PROVE  /\ Tracks(Written(s, file), s.file_size, target)
         /\ batch_data_size(s.current_batch, s.file_size) = 0 => Tracks(file, s.file_size, target)
<1> DEFINE new == Written(s, file)
           chunks == 0 .. TotalChunks(s.file_size) - 1
<1>1. s.current_batch \in Nat /\ s.current_batch + 1 \in Nat /\ s.file_size \in Nat
  BY DEF StateType
<1>2. TotalChunks(s.file_size) \in Nat
  BY <1>1, TotalChunksNat
<1>3. file.size = s.file_size /\ DOMAIN file.chunk = chunks
  BY FileElim DEF Tracks
<1>4. new.size = s.file_size
  BY <1>3, WrittenIsFile
<1>5. \A i \in chunks : i \in Nat /\ batch_for_data(i) \in Nat
  BY <1>2, BatchInterval, <1>1
<1>6. ASSUME NEW i \in chunks, batch_for_data(i) > s.current_batch
      PROVE  batch_for_data(i) >= target
  <2>1. CASE target = s.current_batch + 1
    BY <1>1, <1>5, <1>6, <2>1
  <2>2. CASE batch_data_size(s.current_batch + 1, s.file_size) = 0
    <3>1. batch_for_data(i) < s.current_batch + 1
      BY <1>1, <1>6, <2>2, EmptyBatch
    <3> QED
      BY <1>1, <1>5, <1>6, <3>1
  <2> QED
    BY <2>1, <2>2
<1>7. ASSUME NEW i \in chunks
      PROVE  (new.chunk[i] = Hole) <=> (batch_for_data(i) >= target)
  <2>1. i \in BatchChunks(s) <=> batch_for_data(i) = s.current_batch
    BY <1>7, BatchChunksAre
  <2>2. /\ i \in BatchChunks(s) => new.chunk[i] # Hole
        /\ i \notin BatchChunks(s) => new.chunk[i] = file.chunk[i]
    BY <1>3, <1>7, WrittenNotHole
  <2>3. (file.chunk[i] = Hole) <=> (batch_for_data(i) >= s.current_batch)
    BY <1>3, <1>7 DEF Tracks
  <2>4. batch_for_data(i) \in Nat
    BY <1>5, <1>7
  <2>5. batch_for_data(i) > s.current_batch => batch_for_data(i) >= target
    BY <1>6, <1>7
  <2> HIDE DEF new
  <2> QED
    BY <1>1, <2>1, <2>2, <2>3, <2>4, <2>5
<1>8. DOMAIN new.chunk = DOMAIN file.chunk
  BY WrittenDomain
<1>9. ASSUME batch_data_size(s.current_batch, s.file_size) = 0, NEW i \in chunks
      PROVE  (file.chunk[i] = Hole) <=> (batch_for_data(i) >= target)
  <2>1. batch_for_data(i) < s.current_batch
    BY <1>1, <1>9, EmptyBatch
  <2>2. (file.chunk[i] = Hole) <=> (batch_for_data(i) >= s.current_batch)
    BY <1>3, <1>9 DEF Tracks
  <2> QED
    BY <1>1, <1>5, <2>1, <2>2
<1> HIDE DEF new
<1>10. Tracks(new, s.file_size, target)
  BY <1>3, <1>4, <1>7, <1>8 DEF Tracks
<1>11. batch_data_size(s.current_batch, s.file_size) = 0 => Tracks(file, s.file_size, target)
  BY <1>3, <1>9 DEF Tracks
<1> QED
  BY <1>10, <1>11 DEF new

-----------------------------------------------------------------------------
(* The invariant                                                           *)

\* What PartialTracksBatch says, chunk by chunk.
LEMMA TracksIff ==
  PartialTracksBatch <=>
    (Receiving /\ ~state.failed =>
       Tracks(partial[state.file_path], state.file_size, state.current_batch))
BY DEF PartialTracksBatch, Tracks

\* The file after the batch flip, if any, with which a chunk's handler begins.
LEMMA EnterTracks ==
  ASSUME IInv, PartialTracksBatch, Receiving, ~state.failed, NEW batch \in Nat, NEW io,
         WriteThrough(batch, io), ~EnterBatch(state, batch, io).failed
  PROVE  Tracks(partial'[state.file_path], state.file_size,
                EnterBatch(state, batch, io).current_batch)
<1> DEFINE t == EnterBatch(state, batch, io)
           file == partial[state.file_path]
<1>1. /\ state \in StateType /\ state.file_path \in Paths /\ state.current_batch \in Nat
      /\ state.file_size \in Nat /\ partial \in [Paths -> Files \cup {NoFile}]
  BY DEF IInv, Sound, StateType, Receiving, DirectoryOK
<1>2. file \in Files
  BY <1>1 DEF IInv, OneOutcome
<1>3. Tracks(file, state.file_size, state.current_batch)
  BY TracksIff
<1>4. CASE ~(batch > state.current_batch)
  <2>1. t = state /\ partial' = partial
    BY <1>4 DEF EnterBatch, WriteThrough
  <2> QED
    BY <1>3, <2>1
<1>5. CASE batch > state.current_batch
  <2>1. t = advance_to_batch(state, batch, io)
    BY <1>5 DEF EnterBatch
  <2>2. /\ finalize_ok(state, io)
        /\ t.current_batch = batch
        /\ \/ batch = state.current_batch + 1
           \/ batch_data_size(state.current_batch + 1, state.file_size) = 0
    BY <1>1, <1>5, <2>1, AdvanceReaches
  <2>3. /\ Tracks(Written(state, file), state.file_size, batch)
        /\ batch_data_size(state.current_batch, state.file_size) = 0
             => Tracks(file, state.file_size, batch)
    BY <1>1, <1>2, <1>3, <1>5, <2>2, FlipTracks
  <2>4. batch_data_size(state.current_batch, state.file_size) \in Nat
    BY <1>1, BatchSizeNat
  <2>5. CASE batch_data_size(state.current_batch, state.file_size) = 0
    <3>1. partial' = partial
      BY <2>5 DEF WriteThrough
    <3> QED
      BY <2>2, <2>3, <2>5, <3>1
  <2>6. CASE batch_data_size(state.current_batch, state.file_size) > 0
    <3>1. partial' = [partial EXCEPT ![state.file_path] = Written(state, file)]
      BY <1>5, <2>2, <2>6 DEF WriteThrough
    <3>2. partial'[state.file_path] = Written(state, file)
      BY <1>1, <3>1
    <3> QED
      BY <2>2, <2>3, <3>2
  <2> QED
    BY <2>4, <2>5, <2>6
<1> QED
  BY <1>4, <1>5

\* A data chunk writes at most the batch that is left with it.
LEMMA HandleDataTracks ==
  ASSUME IInv, PartialTracksBatch, NEW packet \in Packets, NEW io, HandleData(packet, io)
  PROVE  PartialTracksBatch'
<1> DEFINE batch == batch_for_data(packet.count)
           s == EnterBatch(state, batch, io)
<1> SUFFICES ASSUME ~state'.failed
             PROVE  Tracks(partial'[state'.file_path], state'.file_size, state'.current_batch)
  BY DEF PartialTracksBatch, Tracks
<1>1. /\ Receiving /\ ~state.failed /\ WriteThrough(batch, io)
      /\ state' = IF ~s.failed /\ batch = s.current_batch THEN buffer_data(s, packet) ELSE s
  BY DEF HandleData, Accepts
<1>2. batch \in Nat
  BY PacketFields, ProtoAssumption DEF batch_for_data
<1>3. s \in StateType
  BY <1>2, EnterSound DEF IInv, Sound
<1>4. ~s.failed
  BY <1>1
<1>5. state'.current_batch = s.current_batch
  <2> HIDE DEF s
  <2> QED
    BY <1>1, <1>3 DEF buffer_data, StateType
<1>6. state'.file_path = state.file_path /\ state'.file_size = state.file_size
  BY HandleDataTransfer DEF SameTransfer
<1>7. Tracks(partial'[state.file_path], state.file_size, s.current_batch)
  BY <1>1, <1>2, <1>4, EnterTracks
<1> QED
  BY <1>5, <1>6, <1>7

\* A parity shard writes at most the batch that is left with it.
LEMMA HandleParityTracks ==
  ASSUME IInv, PartialTracksBatch, NEW packet \in Packets, NEW io, HandleParity(packet, io)
  PROVE  PartialTracksBatch'
<1> DEFINE batch == batch_for_parity(packet.count)
           s == EnterBatch(state, batch, io)
           idx == packet.count % BATCH_PARITY_CHUNKS
<1> SUFFICES ASSUME ~state'.failed
             PROVE  Tracks(partial'[state'.file_path], state'.file_size, state'.current_batch)
  BY DEF PartialTracksBatch, Tracks
<1>1. /\ Receiving /\ ~state.failed /\ WriteThrough(batch, io)
      /\ state' = IF ~s.failed /\ batch = s.current_batch
                  THEN buffer_parity(s, packet, idx) ELSE s
  BY DEF HandleParity, Accepts
<1>2. batch \in Nat
  BY PacketFields, ProtoAssumption DEF batch_for_parity
<1>3. s \in StateType
  BY <1>2, EnterSound DEF IInv, Sound
<1>4. ~s.failed
  BY <1>1
<1>5. state'.current_batch = s.current_batch
  <2> HIDE DEF s, idx
  <2> QED
    BY <1>1, <1>3 DEF buffer_parity, StateType
<1>6. state'.file_path = state.file_path /\ state'.file_size = state.file_size
  BY HandleParityTransfer DEF SameTransfer
<1>7. Tracks(partial'[state.file_path], state.file_size, s.current_batch)
  BY <1>1, <1>2, <1>4, EnterTracks
<1> QED
  BY <1>5, <1>6, <1>7

\* Whatever was left of an old .partial, the new transfer's is a file of holes.
LEMMA StartOpenedFresh ==
  ASSUME IInv, NEW packet \in Packets, StartOpened(packet), packet.path \in Paths
  PROVE  partial'[packet.path] = FreshFile(packet.count)
<1>1. PICK left \in PartialsCleared(Aborted) :
        partial' = [left EXCEPT ![packet.path] = FreshFile(packet.count)]
  BY DEF StartOpened
<1>2. left \in [Paths -> Files \cup {NoFile}]
  BY PartialsClearedType DEF IInv
<1> QED
  BY <1>1, <1>2

\* A new transfer starts in batch 0 with a file of holes.
LEMMA StartOpenedTracks ==
  ASSUME IInv, NEW packet \in Packets, StartOpened(packet)
  PROVE  PartialTracksBatch'
<1>1. packet.path \in Paths /\ packet.count \in Nat
  BY PacketFields DEF StartOpened, is_safe_rel_path
<1>2. state' = [NewState EXCEPT !.file_path = packet.path, !.path_hash = packet.path_hash, !.file_size = packet.count,
                                !.parity_per_batch = packet.parity,
                                !.current_batch = 0, !.output = TRUE]
  BY AbortedState DEF StartOpened
<1>3. state'.file_path = packet.path /\ state'.file_size = packet.count
      /\ state'.current_batch = 0
  BY <1>2 DEF NewState
<1>4. partial'[packet.path] = FreshFile(packet.count)
  BY <1>1, StartOpenedFresh
<1>5. Tracks(FreshFile(packet.count), packet.count, 0)
  <2>1. TotalChunks(packet.count) \in Nat
    BY <1>1, TotalChunksNat
  <2>2. \A i \in 0 .. TotalChunks(packet.count) - 1 : batch_for_data(i) >= 0
    <3> SUFFICES ASSUME NEW i \in 0 .. TotalChunks(packet.count) - 1
                 PROVE  batch_for_data(i) >= 0
      OBVIOUS
    <3>1. i \in Nat
      BY <2>1
    <3>2. batch_for_data(i) \in Nat
      BY <3>1, BatchInterval
    <3> QED
      BY <3>2
  <2> QED
    BY <2>2 DEF Tracks, FreshFile
<1> QED
  BY <1>3, <1>4, <1>5 DEF PartialTracksBatch, Tracks

\* Every step keeps the .partial in line with the batch being collected.
LEMMA NextTracks == IInv /\ PartialTracksBatch /\ [Next]_vars => PartialTracksBatch'
<1> SUFFICES ASSUME IInv, PartialTracksBatch, [Next]_vars PROVE PartialTracksBatch'
  OBVIOUS
<1>1. ASSUME state'.file_path = NoPath PROVE PartialTracksBatch'
  BY <1>1 DEF PartialTracksBatch, Receiving
<1>2. NewState.file_path = NoPath
  BY DEF NewState
<1>3. ASSUME UNCHANGED vars PROVE PartialTracksBatch'
  BY <1>3 DEF PartialTracksBatch, Receiving, vars
<1>4. CASE Restart
  BY <1>1, <1>2, <1>4 DEF Restart
<1>5. ASSUME NEW packet \in Packets, Handle(packet)
      PROVE  PartialTracksBatch'
  <2>1. CASE StartAgain(packet) \/ Ignore(packet)
    BY <1>3, <2>1 DEF StartAgain, Ignore
  <2>2. ASSUME NEW io \in Io, HandleData(packet, io) \/ HandleParity(packet, io)
        PROVE  PartialTracksBatch'
    BY <2>2, HandleDataTracks, HandleParityTracks
  <2>3. ASSUME NEW io \in Io, EndStored(packet, io) \/ EndFailed(packet, io)
        PROVE  PartialTracksBatch'
    BY <1>1, <1>2, <2>3 DEF EndStored, EndFailed, reset_transfer
  <2>4. CASE StartRejected(packet)
    BY <1>1, <1>2, <2>4 DEF StartRejected, reset_transfer
  <2>5. CASE StartNotOpened(packet)
    BY <1>1, <1>2, <2>5, AbortedState DEF StartNotOpened
  <2>6. CASE StartOpened(packet)
    BY <2>6, StartOpenedTracks
  <2> QED
    BY <1>5, <2>1, <2>2, <2>3, <2>4, <2>5, <2>6 DEF Handle
<1> QED
  BY <1>3, <1>4, <1>5 DEF Next

\* At every moment the .partial of a transfer that has not failed has the
\* announced size, data in every chunk of the batches already left, and holes
\* in every chunk from the current batch on.
THEOREM PartialIsTracked == Spec => []PartialTracksBatch
<1>1. Init => PartialTracksBatch
  BY DEF Init, NewState, PartialTracksBatch, Receiving
<1> QED
  BY <1>1, NextTracks, AlwaysIInv, PTL DEF Spec

-----------------------------------------------------------------------------
(* What finalize_current_batch writes                                      *)

\* Everything buffered for the batch stems from content x.
Holds(s, x) ==
  /\ \A i \in DOMAIN s.data_buffer : s.data_buffer[i].ver = x
  /\ \A j \in DOMAIN s.parity_buffer :
       s.parity_buffer[j].code = [k \in 1 .. batch_data_size(s.current_batch, s.file_size) |-> x]

\* The file has bytes of content x and of nothing else.
Pure(file, x) == \A i \in DOMAIN file.chunk : file.chunk[i] \in {x, Hole}

\* Where a chunk is missing and FEC goes ahead, it has a parity shard to use:
\* the data chunks alone are too few.
LEMMA FecHasShard ==
  ASSUME NEW s \in StateType, NEW i \in BatchChunks(s), i \notin DOMAIN s.data_buffer,
         FecPossible(s)
  PROVE  Recoveries(s) # {}
<1> DEFINE n == batch_data_size(s.current_batch, s.file_size)
           start == BatchStart(s)
           whole == start .. start + n - 1
           others == whole \ {i}
<1>1. s.current_batch \in Nat /\ s.file_size \in Nat
  BY DEF StateType
<1>2. n \in Nat
  BY <1>1, BatchSizeNat
<1>3. start \in Nat
  BY <1>1, ProtoAssumption DEF BatchStart
<1>4. i \in whole /\ BatchChunks(s) \subseteq whole
  BY DEF BatchChunks
<1>5. n > 0
  BY DEF BatchChunks
<1>6. Originals(s) \subseteq others
  BY <1>4 DEF Originals
<1>7. Cardinality(Originals(s)) + Cardinality(Recoveries(s)) >= n
  BY DEF FecPossible
<1> HIDE DEF n, start
<1>8. IsFiniteSet(whole) /\ Cardinality(whole) = n
  <2>1. start \in Int /\ start + n - 1 \in Int /\ start <= start + n - 1
    BY <1>2, <1>3, <1>5
  <2>2. /\ IsFiniteSet(whole)
        /\ Cardinality(whole) = IF start > start + n - 1 THEN 0 ELSE (start + n - 1) - start + 1
    BY <2>1, FS_Interval
  <2> QED
    BY <1>2, <1>3, <2>1, <2>2
<1>9. IsFiniteSet(others) /\ Cardinality(others) = n - 1
  BY <1>4, <1>8, FS_RemoveElement
<1> HIDE DEF others
<1>10. Cardinality(Originals(s)) <= n - 1 /\ Cardinality(Originals(s)) \in Nat
  BY <1>6, <1>9, FS_Subset, FS_CardinalityType
<1>11. Cardinality({}) = 0
  BY FS_EmptySet
<1> QED
  BY <1>2, <1>7, <1>10, <1>11

\* FEC over shards of one content restores that content.
LEMMA RestoredExact ==
  ASSUME NEW s \in StateType, NEW x, Holds(s, x), NEW i \in BatchChunks(s),
         Recoveries(s) # {}
  PROVE  Restored(s, i) = x
<1> DEFINE n == batch_data_size(s.current_batch, s.file_size)
           start == BatchStart(s)
           code == [k \in 1 .. n |-> x]
           codes == {s.parity_buffer[j].code : j \in Recoveries(s)}
           Matches(c) ==
             /\ codes = {c}
             /\ Len(c) = n
             /\ \A k \in Originals(s) : s.data_buffer[k].ver = c[k - start + 1]
<1>1. s.current_batch \in Nat /\ s.file_size \in Nat
  BY DEF StateType
<1>2. n \in Nat
  BY <1>1, BatchSizeNat
<1>3. start \in Nat
  BY <1>1, ProtoAssumption DEF BatchStart
<1>4. \A k \in BatchChunks(s) : k - start + 1 \in 1 .. n
  BY <1>2, <1>3 DEF BatchChunks
<1>5. \A j \in Recoveries(s) : s.parity_buffer[j].code = code
  BY DEF Holds, Recoveries
<1>6. codes = {code}
  <2> HIDE DEF code
  <2> QED
    BY <1>5
<1>7. Len(code) = n
  <2> HIDE DEF n
  <2> QED
    BY <1>2
<1>8. \A k \in Originals(s) : s.data_buffer[k].ver = code[k - start + 1]
  <2> SUFFICES ASSUME NEW k \in Originals(s)
               PROVE  s.data_buffer[k].ver = code[k - start + 1]
    OBVIOUS
  <2>1. k - start + 1 \in 1 .. n /\ s.data_buffer[k].ver = x
    BY <1>4 DEF Originals, Holds
  <2> HIDE DEF n, start
  <2> QED
    BY <2>1
<1>9. code[i - start + 1] = x
  <2>1. i - start + 1 \in 1 .. n
    BY <1>4
  <2> HIDE DEF n, start
  <2> QED
    BY <2>1
<1>10. Restored(s, i) = IF \E c \in codes : Matches(c)
                        THEN (CHOOSE c \in codes : Matches(c))[i - start + 1] ELSE Garbage
  BY DEF Restored
<1>11. Matches(code)
  BY <1>6, <1>7, <1>8
<1>12. (CHOOSE c \in codes : Matches(c)) = code
  <2> HIDE DEF Matches, code
  <2>1. \E c \in codes : Matches(c)
    BY <1>6, <1>11
  <2>2. (CHOOSE c \in codes : Matches(c)) \in codes
    BY <2>1
  <2> QED
    BY <1>6, <2>2
<1>13. \E c \in codes : Matches(c)
  <2> HIDE DEF Matches, code
  <2> QED
    BY <1>6, <1>11
<1> HIDE DEF codes, Matches, code, start
<1> QED
  BY <1>9, <1>10, <1>12, <1>13

\* A batch that finalize_current_batch accepts is written with that content.
LEMMA WrittenExact ==
  ASSUME NEW s \in StateType, NEW x, Holds(s, x), NEW file \in Files, NEW io,
         finalize_ok(s, io), NEW i \in DOMAIN file.chunk
  PROVE  /\ i \in BatchChunks(s) => Written(s, file).chunk[i] = x
         /\ i \notin BatchChunks(s) => Written(s, file).chunk[i] = file.chunk[i]
<1> DEFINE new == [k \in DOMAIN file.chunk |->
                     IF k \notin BatchChunks(s) THEN file.chunk[k]
                     ELSE IF k \in DOMAIN s.data_buffer THEN s.data_buffer[k].ver
                     ELSE Restored(s, k)]
<1>1. file = [size |-> file.size, chunk |-> file.chunk]
  BY FileElim
<1>2. Written(s, file) = [size |-> file.size, chunk |-> new]
  BY <1>1 DEF Written
<1>3. Written(s, file).chunk = new
  BY <1>2
<1>4. ASSUME i \in BatchChunks(s) PROVE new[i] = x
  <2>1. CASE i \in DOMAIN s.data_buffer
    BY <1>4, <2>1 DEF Holds
  <2>2. CASE i \notin DOMAIN s.data_buffer
    <3>1. batch_data_size(s.current_batch, s.file_size) # 0
      BY <1>4 DEF BatchChunks
    <3>2. FecPossible(s)
      BY <1>4, <2>2, <3>1 DEF finalize_ok
    <3>3. Restored(s, i) = x
      BY <1>4, <2>2, <3>2, FecHasShard, RestoredExact
    <3> QED
      BY <1>4, <2>2, <3>3
  <2> QED
    BY <2>1, <2>2
<1> QED
  BY <1>3, <1>4

-----------------------------------------------------------------------------
(* A path with one content                                                 *)

\* While path p is received, everything collected for it is content x.
TransferExact(p, x) ==
  state.file_path = p =>
    /\ state.path_hash = p
    /\ state.file_size = FileSize[x]
    /\ Holds(state, x)
    /\ Pure(partial[p], x)

\* What is published under p is content x up to some batch.
FinalExact(p, x) ==
  final[p] # NoFile =>
    \E last \in 0 .. TotalChunks(FileSize[x]) : ExactUpTo(final[p], x, last)

ContentInv ==
  \A p \in Paths, x \in Versions : SoleContent(p, x) => TransferExact(p, x) /\ FinalExact(p, x)

\* Nothing buffered is content x.
LEMMA EmptyHolds ==
  ASSUME NEW s, NEW x, s.data_buffer = <<>>, s.parity_buffer = <<>>
  PROVE  Holds(s, x)
<1>1. DOMAIN s.data_buffer = {} /\ DOMAIN s.parity_buffer = {}
  OBVIOUS
<1> QED
  BY <1>1 DEF Holds

\* Moving on to another batch keeps all that is buffered, or nothing of it.
LEMMA EnterHolds ==
  ASSUME NEW s \in StateType, NEW x, Holds(s, x), NEW batch \in Nat, NEW io,
         NEW t, t = EnterBatch(s, batch, io)
  PROVE  Holds(t, x)
<1>1. CASE t = s
  BY <1>1
<1>2. CASE t = advance_to_batch(s, batch, io)
  <2>1. /\ t.file_size = s.file_size
        /\ \/ /\ t.data_buffer = s.data_buffer /\ t.parity_buffer = s.parity_buffer
              /\ t.current_batch = s.current_batch
           \/ t.data_buffer = <<>> /\ t.parity_buffer = <<>>
    BY <1>2, AdvanceFacts
  <2>2. CASE /\ t.data_buffer = s.data_buffer /\ t.parity_buffer = s.parity_buffer
             /\ t.current_batch = s.current_batch
    BY <2>1, <2>2 DEF Holds
  <2>3. CASE t.data_buffer = <<>> /\ t.parity_buffer = <<>>
    BY <2>3, EmptyHolds
  <2> QED
    BY <2>1, <2>2, <2>3
<1> QED
  BY <1>1, <1>2 DEF EnterBatch

\* A chunk of content x joins chunks of content x.
LEMMA BufferDataHolds ==
  ASSUME NEW s \in StateType, NEW x, Holds(s, x), NEW packet, packet.data.ver = x,
         NEW t, t = buffer_data(s, packet)
  PROVE  Holds(t, x)
<1> DEFINE new == Insert(s.data_buffer, packet.count, packet.data)
<1>1. CASE t = s \/ t = [s EXCEPT !.failed = TRUE]
  <2>1. /\ t.data_buffer = s.data_buffer /\ t.parity_buffer = s.parity_buffer
        /\ t.current_batch = s.current_batch /\ t.file_size = s.file_size
    BY <1>1 DEF StateType
  <2> QED
    BY <2>1 DEF Holds
<1>2. CASE t = [s EXCEPT !.bytes_buffered = @ + packet.data.len,
                         !.bytes_transferred = @ + packet.data.len,
                         !.data_buffer = new]
  <2>1. \A k \in DOMAIN new : \/ k = packet.count /\ new[k] = packet.data
                              \/ k \in DOMAIN s.data_buffer /\ new[k] = s.data_buffer[k]
    BY DEF Insert
  <2> HIDE DEF new
  <2>2. /\ t.data_buffer = new /\ t.parity_buffer = s.parity_buffer
        /\ t.current_batch = s.current_batch /\ t.file_size = s.file_size
    BY <1>2 DEF StateType
  <2> QED
    BY <2>1, <2>2 DEF Holds
<1> QED
  BY <1>1, <1>2 DEF buffer_data

\* A shard over content x joins shards over content x.
LEMMA BufferParityHolds ==
  ASSUME NEW s \in StateType, NEW x, Holds(s, x), NEW packet, NEW idx,
         packet.data.code = [k \in 1 .. batch_data_size(s.current_batch, s.file_size) |-> x],
         NEW t, t = buffer_parity(s, packet, idx)
  PROVE  Holds(t, x)
<1> DEFINE new == Insert(s.parity_buffer, idx, packet.data)
<1>1. CASE t = s \/ t = [s EXCEPT !.failed = TRUE]
  <2>1. /\ t.data_buffer = s.data_buffer /\ t.parity_buffer = s.parity_buffer
        /\ t.current_batch = s.current_batch /\ t.file_size = s.file_size
    BY <1>1 DEF StateType
  <2> QED
    BY <2>1 DEF Holds
<1>2. CASE t = [s EXCEPT !.bytes_buffered = @ + packet.data.len, !.parity_buffer = new]
  <2>1. \A k \in DOMAIN new : \/ k = idx /\ new[k] = packet.data
                              \/ k \in DOMAIN s.parity_buffer /\ new[k] = s.parity_buffer[k]
    BY DEF Insert
  <2> HIDE DEF new
  <2>2. /\ t.data_buffer = s.data_buffer /\ t.parity_buffer = new
        /\ t.current_batch = s.current_batch /\ t.file_size = s.file_size
    BY <1>2 DEF StateType
  <2> DEFINE code == [k \in 1 .. batch_data_size(s.current_batch, s.file_size) |-> x]
  <2>3. \A j \in DOMAIN s.parity_buffer : s.parity_buffer[j].code = code
    BY DEF Holds
  <2>4. packet.data.code = code
    OBVIOUS
  <2>5. Holds(t, x) <=> /\ \A i \in DOMAIN t.data_buffer : t.data_buffer[i].ver = x
                        /\ \A j \in DOMAIN t.parity_buffer : t.parity_buffer[j].code = code
    BY <2>2 DEF Holds
  <2>6. \A i \in DOMAIN t.data_buffer : t.data_buffer[i].ver = x
    BY <2>2 DEF Holds
  <2> HIDE DEF code
  <2> QED
    BY <2>1, <2>2, <2>3, <2>4, <2>5, <2>6
<1> QED
  BY <1>1, <1>2 DEF buffer_parity

\* The batch that is left with a chunk is written with content x.
LEMMA WriteThroughPure ==
  ASSUME IInv, Receiving, NEW x, Holds(state, x), Pure(partial[state.file_path], x),
         NEW batch, NEW io, WriteThrough(batch, io)
  PROVE  Pure(partial'[state.file_path], x)
<1> DEFINE file == partial[state.file_path]
           new == Written(state, file)
<1>1. state \in StateType /\ state.file_path \in Paths
      /\ partial \in [Paths -> Files \cup {NoFile}]
  BY DEF IInv, Sound, StateType, Receiving, DirectoryOK
<1>2. file \in Files
  BY <1>1 DEF IInv, OneOutcome
<1>3. CASE partial' = partial
  BY <1>3
<1>4. CASE finalize_ok(state, io) /\ partial' = [partial EXCEPT ![state.file_path] = new]
  <2>1. partial'[state.file_path] = new
    <3> HIDE DEF new
    <3> QED
      BY <1>1, <1>4
  <2>2. DOMAIN new.chunk = DOMAIN file.chunk
    BY <1>1, <1>2, WrittenDomain
  <2>3. \A i \in DOMAIN file.chunk : new.chunk[i] \in {x, file.chunk[i]}
    BY <1>1, <1>2, <1>4, WrittenExact
  <2> HIDE DEF new
  <2> QED
    BY <2>1, <2>2, <2>3 DEF Pure
<1> QED
  BY <1>3, <1>4 DEF WriteThrough

\* A data chunk keeps what is collected for p exact.
LEMMA HandleDataExact ==
  ASSUME IInv, NEW p \in Paths, NEW x \in Versions, SoleContent(p, x), TransferExact(p, x),
         NEW packet \in Packets, NEW io, HandleData(packet, io)
  PROVE  TransferExact(p, x)'
<1> SUFFICES ASSUME state'.file_path = p
             PROVE  /\ state'.path_hash = p /\ state'.file_size = FileSize[x]
                    /\ Holds(state', x) /\ Pure(partial'[p], x)
  BY DEF TransferExact, Holds, Pure
<1> DEFINE batch == batch_for_data(packet.count)
           s == EnterBatch(state, batch, io)
<1>1. /\ packet.type = "DATA" /\ Receiving /\ WriteThrough(batch, io)
      /\ packet.path_hash = state.path_hash /\ packet.hash_ok
      /\ state' = IF ~s.failed /\ batch = s.current_batch THEN buffer_data(s, packet) ELSE s
  BY DEF HandleData, Accepts, is_chunk_valid
<1>2. SameTransfer(state, state')
  BY HandleDataTransfer
<1>3. /\ state.file_path = p /\ state.path_hash = p /\ state.file_size = FileSize[x]
      /\ Holds(state, x) /\ Pure(partial[p], x)
  BY <1>2 DEF SameTransfer, TransferExact
<1>4. batch \in Nat
  BY PacketFields, ProtoAssumption DEF batch_for_data
<1>5. packet.data.ver = x
  BY <1>1, <1>3 DEF SoleContent
<1>6. s \in StateType /\ state \in StateType
  BY <1>4, EnterSound DEF IInv, Sound
<1>7. Holds(s, x)
  BY <1>3, <1>4, <1>6, EnterHolds
<1>8. Holds(state', x)
  <2> HIDE DEF s
  <2> QED
    BY <1>1, <1>5, <1>6, <1>7, BufferDataHolds
<1>9. Pure(partial'[p], x)
  BY <1>1, <1>3, WriteThroughPure
<1> QED
  BY <1>2, <1>3, <1>8, <1>9 DEF SameTransfer

\* So does a parity shard.
LEMMA HandleParityExact ==
  ASSUME IInv, NEW p \in Paths, NEW x \in Versions, SoleContent(p, x), TransferExact(p, x),
         NEW packet \in Packets, NEW io, HandleParity(packet, io)
  PROVE  TransferExact(p, x)'
<1> SUFFICES ASSUME state'.file_path = p
             PROVE  /\ state'.path_hash = p /\ state'.file_size = FileSize[x]
                    /\ Holds(state', x) /\ Pure(partial'[p], x)
  BY DEF TransferExact, Holds, Pure
<1> DEFINE batch == batch_for_parity(packet.count)
           s == EnterBatch(state, batch, io)
           idx == packet.count % BATCH_PARITY_CHUNKS
<1>1. /\ packet.type = "PARITY" /\ Receiving /\ WriteThrough(batch, io)
      /\ packet.path_hash = state.path_hash /\ packet.hash_ok
      /\ state' = IF ~s.failed /\ batch = s.current_batch
                  THEN buffer_parity(s, packet, idx) ELSE s
  BY DEF HandleParity, Accepts, is_chunk_valid
<1>2. SameTransfer(state, state')
  BY HandleParityTransfer
<1>3. /\ state.file_path = p /\ state.path_hash = p /\ state.file_size = FileSize[x]
      /\ Holds(state, x) /\ Pure(partial[p], x)
  BY <1>2 DEF SameTransfer, TransferExact
<1>4. batch \in Nat
  BY PacketFields, ProtoAssumption DEF batch_for_parity
<1>5. packet.data.code = [k \in 1 .. batch_data_size(batch, FileSize[x]) |-> x]
  BY <1>1, <1>3 DEF SoleContent
<1>6. s \in StateType /\ state \in StateType /\ SameTransfer(state, s)
  BY <1>4, EnterSound DEF IInv, Sound
<1>7. Holds(s, x)
  BY <1>3, <1>4, <1>6, EnterHolds
<1>8. Holds(state', x)
  <2> HIDE DEF s, idx, batch
  <2>1. CASE state' = s
    BY <1>7, <2>1
  <2>2. CASE batch = s.current_batch /\ state' = buffer_parity(s, packet, idx)
    <3>1. packet.data.code = [k \in 1 .. batch_data_size(s.current_batch, s.file_size) |-> x]
      BY <1>3, <1>5, <1>6, <2>2 DEF SameTransfer
    <3> QED
      BY <1>6, <1>7, <2>2, <3>1, BufferParityHolds
  <2> QED
    BY <1>1, <2>1, <2>2
<1>9. Pure(partial'[p], x)
  BY <1>1, <1>3, WriteThroughPure
<1> QED
  BY <1>2, <1>3, <1>8, <1>9 DEF SameTransfer

\* A transfer begins with nothing buffered and a file of holes.
LEMMA StartOpenedExact ==
  ASSUME IInv, NEW p \in Paths, NEW x \in Versions, SoleContent(p, x),
         NEW packet \in Packets, StartOpened(packet)
  PROVE  TransferExact(p, x)'
<1> SUFFICES ASSUME state'.file_path = p
             PROVE  /\ state'.path_hash = p /\ state'.file_size = FileSize[x]
                    /\ Holds(state', x) /\ Pure(partial'[p], x)
  BY DEF TransferExact, Holds, Pure
<1>1. packet.type = "START" /\ packet.path \in Paths /\ packet.count \in Nat
  BY PacketFields DEF StartOpened, NewStart, is_safe_rel_path
<1>2. state' = [NewState EXCEPT !.file_path = packet.path, !.path_hash = packet.path_hash,
                                !.file_size = packet.count,
                                !.parity_per_batch = packet.parity,
                                !.current_batch = 0, !.output = TRUE]
  BY AbortedState DEF StartOpened
<1>3. /\ state'.file_path = packet.path /\ state'.path_hash = packet.path_hash
      /\ state'.file_size = packet.count
      /\ state'.data_buffer = <<>> /\ state'.parity_buffer = <<>>
  BY <1>2 DEF NewState
<1>4. packet.path_hash = p /\ packet.count = FileSize[x]
  BY <1>1, <1>3 DEF SoleContent
<1>5. partial'[packet.path] = FreshFile(packet.count)
  BY <1>1, StartOpenedFresh
<1>6. Pure(FreshFile(packet.count), x)
  BY DEF Pure, FreshFile
<1>7. Holds(state', x)
  BY <1>3, EmptyHolds
<1> QED
  BY <1>3, <1>4, <1>5, <1>6, <1>7

\* The number of a chunk's batch is not above the chunk's own.
LEMMA BatchNotAbove ==
  ASSUME NEW i \in Nat
  PROVE  batch_for_data(i) <= i
<1> DEFINE B == BATCH_DATA_CHUNKS
           q == i \div B
<1>1. B \in Nat \ {0}
  BY ProtoAssumption
<1>2. q \in Nat /\ q * B <= i
  BY <1>1, DivBounds
<1>3. batch_for_data(i) = q
  BY DEF batch_for_data
<1> HIDE DEF q, B
<1>4. q <= q * B
  BY <1>1, <1>2
<1>5. q * B \in Nat
  BY <1>1, <1>2
<1> QED
  BY <1>2, <1>3, <1>4, <1>5

\* finish_file publishes content x up to the batch it finalizes.
LEMMA EndStoredExact ==
  ASSUME IInv, PartialTracksBatch, NEW p \in Paths, NEW x \in Versions, TransferExact(p, x),
         NEW packet \in Packets, NEW io \in Io, EndStored(packet, io), state.file_path = p
  PROVE  \E last \in 0 .. TotalChunks(FileSize[x]) : ExactUpTo(final'[p], x, last)
<1> DEFINE file == partial[p]
           new == Written(state, file)
           total == TotalChunks(FileSize[x])
           cur == state.current_batch
           last == IF cur <= total THEN cur ELSE total
<1>1. /\ Receiving /\ ~state.failed /\ finalize_ok(state, io)
      /\ final' = [final EXCEPT ![p] = new]
  BY DEF EndStored, FinishOk, Completed
<1>2. /\ state \in StateType /\ final \in [Paths -> Files \cup {NoFile}]
      /\ partial \in [Paths -> Files \cup {NoFile}]
  BY DEF IInv, Sound, DirectoryOK
<1>3. file \in Files
  BY <1>1, <1>2 DEF IInv, OneOutcome
<1>4. final'[p] = new
  <2> HIDE DEF new
  <2> QED
    BY <1>1, <1>2
<1>5. state.file_size = FileSize[x] /\ Holds(state, x) /\ Pure(file, x)
  BY DEF TransferExact
<1>6. Tracks(file, state.file_size, cur)
  BY <1>1, TracksIff
<1>7. total \in Nat /\ cur \in Nat
  BY <1>2, <1>5, TotalChunksNat DEF StateType
<1>8. last \in 0 .. total
  <2> HIDE DEF total, cur
  <2> QED
    BY <1>7
<1>9. new.size = FileSize[x] /\ DOMAIN new.chunk = DOMAIN file.chunk
  BY <1>2, <1>3, <1>5, <1>6, WrittenIsFile, WrittenDomain DEF Tracks
<1>10. DOMAIN file.chunk = 0 .. total - 1
  BY <1>3, <1>5, <1>6, FileElim DEF Tracks
<1>11. ASSUME NEW i \in DOMAIN file.chunk
       PROVE  new.chunk[i] = IF batch_for_data(i) <= last THEN x ELSE Hole
  <2> DEFINE b == batch_for_data(i)
  <2>1. i \in Nat /\ i < total /\ b \in Nat
    <3>1. i \in Nat /\ i < total
      <4> HIDE DEF total
      <4> QED
        BY <1>7, <1>10
    <3> QED
      BY <3>1, BatchInterval
  <2>2. b <= i
    BY <2>1, BatchNotAbove
  <2>3. i \in BatchChunks(state) <=> b = cur
    BY <1>2, <1>5, <1>10, BatchChunksAre
  <2>4. /\ i \in BatchChunks(state) => new.chunk[i] = x
        /\ i \notin BatchChunks(state) => new.chunk[i] = file.chunk[i]
    BY <1>1, <1>2, <1>3, <1>5, WrittenExact
  <2>5. (file.chunk[i] = Hole) <=> (b >= cur)
    BY <1>6 DEF Tracks
  <2>6. file.chunk[i] \in {x, Hole}
    BY <1>5 DEF Pure
  <2> HIDE DEF new, total, cur, b, file
  <2>7. b <= last <=> b <= cur
    BY <1>7, <2>1, <2>2
  <2>8. CASE b < cur
    BY <1>7, <2>1, <2>3, <2>4, <2>5, <2>6, <2>7, <2>8 DEF b
  <2>9. CASE b = cur
    BY <1>7, <2>1, <2>3, <2>4, <2>7, <2>9 DEF b
  <2>10. CASE b > cur
    BY <1>7, <2>1, <2>3, <2>4, <2>5, <2>7, <2>10 DEF b
  <2> QED
    BY <1>7, <2>1, <2>8, <2>9, <2>10
<1> HIDE DEF new, last
<1>12. ExactUpTo(new, x, last)
  BY <1>9, <1>11 DEF ExactUpTo
<1> QED
  BY <1>4, <1>8, <1>12

\* Every step keeps what is collected and what is published exact.
LEMMA NextContent ==
  IInv /\ PartialTracksBatch /\ ContentInv /\ [Next]_vars => ContentInv'
<1> SUFFICES ASSUME IInv, PartialTracksBatch, ContentInv, [Next]_vars,
                    NEW p \in Paths, NEW x \in Versions, SoleContent(p, x)
             PROVE  TransferExact(p, x)' /\ FinalExact(p, x)'
  BY DEF ContentInv
<1>1. TransferExact(p, x) /\ FinalExact(p, x)
  BY DEF ContentInv
<1>2. p # NoPath /\ NewState.file_path = NoPath
  BY ProtoAssumption DEF NewState
<1>3. ASSUME state' = NewState PROVE TransferExact(p, x)'
  BY <1>2, <1>3 DEF TransferExact
<1>4. ASSUME final'[p] \in {final[p], NoFile} PROVE FinalExact(p, x)'
  BY <1>1, <1>4 DEF FinalExact, ExactUpTo
<1>5. ASSUME UNCHANGED vars PROVE TransferExact(p, x)' /\ FinalExact(p, x)'
  BY <1>1, <1>5 DEF TransferExact, FinalExact, ExactUpTo, Holds, Pure, vars
<1>6. CASE Restart
  BY <1>3, <1>4, <1>6 DEF Restart, disk
<1>7. ASSUME NEW packet \in Packets, Handle(packet)
      PROVE  TransferExact(p, x)' /\ FinalExact(p, x)'
  <2>1. final \in [Paths -> Files \cup {NoFile}]
    BY DEF IInv, DirectoryOK
  <2>2. CASE StartAgain(packet) \/ Ignore(packet)
    BY <1>5, <2>2 DEF StartAgain, Ignore
  <2>3. ASSUME NEW io \in Io, HandleData(packet, io)
        PROVE  TransferExact(p, x)' /\ FinalExact(p, x)'
    BY <1>1, <1>4, <2>3, HandleDataExact DEF HandleData
  <2>4. ASSUME NEW io \in Io, HandleParity(packet, io)
        PROVE  TransferExact(p, x)' /\ FinalExact(p, x)'
    BY <1>1, <1>4, <2>4, HandleParityExact DEF HandleParity
  <2>5. CASE StartRejected(packet)
    BY <1>3, <1>4, <2>5, StartTakesAway DEF StartRejected, reset_transfer
  <2>6. CASE StartNotOpened(packet)
    BY <1>3, <1>4, <2>6, StartTakesAway, AbortedState DEF StartNotOpened
  <2>7. CASE StartOpened(packet)
    BY <1>4, <2>7, StartTakesAway, StartOpenedExact
  <2>8. ASSUME NEW io \in Io, EndFailed(packet, io)
        PROVE  TransferExact(p, x)' /\ FinalExact(p, x)'
    BY <1>3, <1>4, <2>8, EndTakesAway DEF EndFailed, reset_transfer
  <2>9. ASSUME NEW io \in Io, EndStored(packet, io)
        PROVE  TransferExact(p, x)' /\ FinalExact(p, x)'
    <3>1. TransferExact(p, x)'
      BY <1>3, <2>9 DEF EndStored, reset_transfer
    <3>2. CASE state.file_path = p
      <4>1. \E last \in 0 .. TotalChunks(FileSize[x]) : ExactUpTo(final'[p], x, last)
        BY <1>1, <2>9, <3>2, EndStoredExact
      <4> QED
        BY <3>1, <4>1 DEF FinalExact, ExactUpTo
    <3>3. CASE state.file_path # p
      <4>1. final'[p] = final[p]
        BY <2>1, <2>9, <3>3 DEF EndStored
      <4> QED
        BY <1>4, <3>1, <4>1
    <3> QED
      BY <3>2, <3>3
  <2> QED
    BY <1>7, <2>2, <2>3, <2>4, <2>5, <2>6, <2>7, <2>8, <2>9 DEF Handle
<1> QED
  BY <1>5, <1>6, <1>7 DEF Next

\* Whatever arrives, in whatever order and however often, a path that all its
\* intact packets give one content is published with nothing but that content:
\* exact up to some batch, FEC included, and holes after it.
THEOREM PublishedStaysExact == Spec => []PublishedIsExactPrefix
<1>1. Init => ContentInv
  <2> SUFFICES ASSUME Init, NEW p \in Paths, NEW x \in Versions
               PROVE  TransferExact(p, x) /\ FinalExact(p, x)
    BY DEF ContentInv
  <2>1. state.file_path = NoPath /\ p # NoPath
    BY ProtoAssumption DEF Init, NewState
  <2> QED
    BY <2>1 DEF Init, TransferExact, FinalExact
<1>2. ContentInv => PublishedIsExactPrefix
  BY DEF ContentInv, FinalExact, PublishedIsExactPrefix
<1> QED
  BY <1>1, <1>2, NextContent, AlwaysIInv, PartialIsTracked, PTL DEF Spec

-----------------------------------------------------------------------------
(* The loop of advance_to_batch                                            *)

\* The states the loop goes through from s, round after round.
IsWalk(walk, s, target, io) ==
  /\ walk = [k \in Nat |-> walk[k]]
  /\ walk[0] = s
  /\ \A k \in Nat : walk[k + 1] = AdvanceRound(walk[k], target, io)

\* A loop is its rounds, one after the other: there is one such walk, and
\* AdvanceLoop takes it.
LEMMA LoopWalks ==
  ASSUME NEW s, NEW target \in Nat, NEW io, s.current_batch \in Nat, s.current_batch <= target,
         NEW walk, IsWalk(walk, s, target, io)
  PROVE  AdvanceLoop(s, target, io) = walk[target - s.current_batch]
<1> DEFINE Walks(f) == f = [k \in Nat |-> IF k = 0 THEN s
                                          ELSE AdvanceRound(f[k - 1], target, io)]
           after == CHOOSE f : Walks(f)
<1>1. AdvanceLoop(s, target, io) = after[target - s.current_batch]
  BY DEF AdvanceLoop
<1> USE DEF IsWalk
<1>2. Walks(walk)
  <2>1. ASSUME NEW k \in Nat
        PROVE  walk[k] = IF k = 0 THEN s ELSE AdvanceRound(walk[k - 1], target, io)
    <3>1. CASE k = 0
      BY <3>1
    <3>2. CASE k # 0
      <4>1. PICK j \in Nat : j = k - 1 /\ k = j + 1
        BY <3>2
      <4> QED
        BY <3>2, <4>1
    <3> QED
      BY <3>1, <3>2
  <2> QED
    BY <2>1
<1>3. Walks(after)
  <2> HIDE DEF Walks
  <2> QED
    BY <1>2
<1> HIDE DEF after
<1> DEFINE S == {n \in Nat : after[n] = walk[n]}
<1>4. 0 \in S
  BY <1>3
<1>5. ASSUME NEW n \in Nat, n \in S PROVE n + 1 \in S
  <2>1. PICK m \in Nat : m = n + 1 /\ m # 0 /\ m - 1 = n
    OBVIOUS
  <2>2. after[m] = AdvanceRound(after[m - 1], target, io)
    BY <1>3, <2>1
  <2>3. walk[m] = AdvanceRound(walk[n], target, io)
    BY <2>1
  <2>4. after[n] = walk[n]
    BY <1>5
  <2>5. m \in S
    BY <2>1, <2>2, <2>3, <2>4
  <2> QED
    BY <2>1, <2>5
<1>6. Nat \subseteq S
  <2> HIDE DEF S
  <2> QED
    BY <1>4, <1>5, NatInductionSet
<1>7. target - s.current_batch \in Nat
  OBVIOUS
<1> QED
  BY <1>1, <1>6, <1>7

\* Once a batch lies past the end of the file, so does the next.
LEMMA EmptyBatchNext ==
  ASSUME NEW size \in Nat, NEW n \in Nat, batch_data_size(n, size) = 0
  PROVE  batch_data_size(n + 1, size) = 0
<1> DEFINE start == n * BATCH_DATA_CHUNKS
           later == (n + 1) * BATCH_DATA_CHUNKS
           total == TotalChunks(size)
<1>1. total \in Nat
  BY TotalChunksNat
<1>2. start \in Nat /\ BATCH_DATA_CHUNKS \in Nat \ {0} /\ later = start + BATCH_DATA_CHUNKS
  BY ProtoAssumption
<1>3. batch_data_size(n, size) = IF start >= total THEN 0
        ELSE IF total - start < BATCH_DATA_CHUNKS THEN total - start ELSE BATCH_DATA_CHUNKS
  BY DEF batch_data_size
<1>4. batch_data_size(n + 1, size) = IF later >= total THEN 0
        ELSE IF total - later < BATCH_DATA_CHUNKS THEN total - later ELSE BATCH_DATA_CHUNKS
  BY DEF batch_data_size
<1> HIDE DEF start, later, total
<1>5. start >= total
  BY <1>1, <1>2, <1>3
<1> QED
  BY <1>1, <1>2, <1>4, <1>5

\* The state after a batch was finalized and the transfer moved on to batch n.
Stepped(s, n) == [clear_batch(s) EXCEPT !.current_batch = n]

\* Nothing is buffered after a step.
LEMMA SteppedFields ==
  ASSUME NEW s \in StateType, ~s.failed, NEW n \in Nat, NEW t, t = Stepped(s, n)
  PROVE  /\ t \in StateType
         /\ t.data_buffer = <<>> /\ t.parity_buffer = <<>>
         /\ t.current_batch = n /\ t.file_size = s.file_size
         /\ ~t.failed
         /\ \A m : [clear_batch(t) EXCEPT !.current_batch = m] = Stepped(s, m)
<1>1. \A K, P : <<>> \in Buffers(K, P)
  BY BufferEmpty
<1> QED
  BY <1>1 DEF Stepped, clear_batch, StateType, DataBuffers, ParityBuffers

\* With nothing buffered only a batch past the end of the file can be finalized.
LEMMA FinalizeEmpty ==
  ASSUME NEW s \in StateType, s.data_buffer = <<>>, s.parity_buffer = <<>>, NEW io
  PROVE  finalize_ok(s, io) <=> batch_data_size(s.current_batch, s.file_size) = 0
<1> DEFINE n == batch_data_size(s.current_batch, s.file_size)
<1>1. n \in Nat
  BY BatchSizeNat DEF StateType
<1>2. DOMAIN s.data_buffer = {} /\ Originals(s) = {} /\ Recoveries(s) = {}
  BY DEF Originals, Recoveries
<1>3. Cardinality({}) = 0
  BY FS_EmptySet
<1>4. NeedsFec(s) <=> 0 < n
  BY <1>2, <1>3 DEF NeedsFec
<1>5. FecPossible(s) => 0 + 0 >= n
  BY <1>2, <1>3 DEF FecPossible
<1> QED
  BY <1>1, <1>4, <1>5 DEF finalize_ok

\* A round that finds nothing buffered steps over a batch past the end of the
\* file, and fails the transfer at one within it.
LEMMA RoundOfEmpty ==
  ASSUME NEW s \in StateType, ~s.failed, NEW n \in Nat, NEW target \in Nat, NEW io
  PROVE  AdvanceRound(Stepped(s, n), target, io) =
           IF n >= target THEN Stepped(s, n)
           ELSE IF batch_data_size(n, s.file_size) = 0 THEN Stepped(s, n + 1)
           ELSE [Stepped(s, n) EXCEPT !.failed = TRUE]
<1>1. PICK t : t = Stepped(s, n)
  OBVIOUS
<1>2. /\ t \in StateType
      /\ t.data_buffer = <<>> /\ t.parity_buffer = <<>>
      /\ t.current_batch = n /\ t.file_size = s.file_size
      /\ ~t.failed
      /\ [clear_batch(t) EXCEPT !.current_batch = n + 1] = Stepped(s, n + 1)
  BY <1>1, SteppedFields
<1>3. finalize_ok(t, io) <=> batch_data_size(n, s.file_size) = 0
  BY <1>2, FinalizeEmpty
<1>4. clear_batch(t).current_batch = n
  BY <1>2 DEF clear_batch, StateType
<1>5. [clear_batch(t) EXCEPT !.current_batch = @ + 1] = Stepped(s, n + 1)
  BY <1>2, <1>4
<1> QED
  BY <1>1, <1>2, <1>3, <1>5 DEF AdvanceRound

\* A failed transfer makes no more rounds.
LEMMA RoundOfFailed ==
  ASSUME NEW s \in StateType, NEW target, NEW io, NEW t, t = [s EXCEPT !.failed = TRUE]
  PROVE  AdvanceRound(t, target, io) = t
BY DEF AdvanceRound, StateType

\* The first round leaves what was buffered behind or fails.
LEMMA FirstRound ==
  ASSUME NEW s \in StateType, ~s.failed, NEW target \in Nat, s.current_batch < target, NEW io
  PROVE  AdvanceRound(s, target, io) =
           IF finalize_ok(s, io) THEN Stepped(s, s.current_batch + 1)
           ELSE [s EXCEPT !.failed = TRUE]
<1>1. s.current_batch \in Nat /\ ~(s.current_batch >= target)
  BY DEF StateType
<1>2. clear_batch(s).current_batch = s.current_batch
  BY DEF clear_batch, StateType
<1> QED
  BY <1>1, <1>2 DEF AdvanceRound, Stepped

\* The closed form is the loop, case by case: the batch that is left cannot be
\* finalized; the next one is skipped within the file; all that are skipped lie
\* past its end.
LEMMA ClosedFormIsLoop ==
  ASSUME NEW s \in StateType, ~s.failed, NEW target \in Nat, s.current_batch < target, NEW io,
         NEW reached, reached = advance_to_batch(s, target, io)
  PROVE  /\ reached = AdvanceLoop(s, target, io)
         /\ AdvanceRound(reached, target, io) = reached
<1>1. PICK c \in Nat : c = s.current_batch
  BY DEF StateType
<1>2. c < target /\ c <= target /\ s.file_size \in Nat
  BY <1>1 DEF StateType
<1>3. reached = IF ~finalize_ok(s, io) THEN [s EXCEPT !.failed = TRUE]
                ELSE IF c + 1 < target /\ batch_data_size(c + 1, s.file_size) > 0
                THEN [Stepped(s, c + 1) EXCEPT !.failed = TRUE]
                ELSE Stepped(s, target)
  BY <1>1 DEF advance_to_batch, Stepped, clear_batch, StateType
<1>4. batch_data_size(c + 1, s.file_size) \in Nat
  <2>1. PICK next \in Nat : next = c + 1
    OBVIOUS
  <2> QED
    BY <1>2, <2>1, BatchSizeNat
<1>5. PICK rounds \in Nat : rounds = target - c /\ rounds # 0 /\ c + rounds = target
  BY <1>2
<1>6. ASSUME NEW walk, IsWalk(walk, s, target, io), walk[rounds] = reached
      PROVE  reached = AdvanceLoop(s, target, io)
  <2>1. s.current_batch \in Nat /\ s.current_batch <= target
    BY <1>1, <1>2
  <2>2. AdvanceLoop(s, target, io) = walk[target - s.current_batch]
    BY <1>6, <2>1, LoopWalks
  <2> QED
    BY <1>1, <1>5, <1>6, <2>2
<1>7. CASE ~finalize_ok(s, io)
  <2> DEFINE walk == [k \in Nat |-> IF k = 0 THEN s ELSE reached]
  <2>1. reached = [s EXCEPT !.failed = TRUE]
    BY <1>3, <1>7
  <2>2. AdvanceRound(reached, target, io) = reached
    BY <2>1, RoundOfFailed
  <2>3. AdvanceRound(s, target, io) = reached
    BY <1>7, <2>1, FirstRound
  <2>4. \A k \in Nat : walk[k + 1] = AdvanceRound(walk[k], target, io)
    BY <2>2, <2>3
  <2>5. walk = [k \in Nat |-> walk[k]] /\ walk[0] = s /\ walk[rounds] = reached
    BY <1>5
  <2> HIDE DEF walk
  <2>6. IsWalk(walk, s, target, io)
    BY <2>4, <2>5 DEF IsWalk
  <2> QED
    BY <1>6, <2>2, <2>5, <2>6
<1>8. CASE finalize_ok(s, io) /\ c + 1 < target /\ batch_data_size(c + 1, s.file_size) > 0
  <2> DEFINE walk == [k \in Nat |-> IF k = 0 THEN s
                                    ELSE IF k = 1 THEN Stepped(s, c + 1) ELSE reached]
  <2>1. reached = [Stepped(s, c + 1) EXCEPT !.failed = TRUE]
    BY <1>3, <1>8
  <2>2. AdvanceRound(reached, target, io) = reached
    <3>1. PICK next \in Nat : next = c + 1
      OBVIOUS
    <3>2. Stepped(s, next) \in StateType
      BY SteppedFields
    <3>3. reached = [Stepped(s, next) EXCEPT !.failed = TRUE]
      BY <2>1, <3>1
    <3> QED
      BY <3>2, <3>3, RoundOfFailed
  <2>3. AdvanceRound(s, target, io) = Stepped(s, c + 1)
    BY <1>1, <1>8, FirstRound
  <2>4. AdvanceRound(Stepped(s, c + 1), target, io) = reached
    <3>1. PICK next \in Nat : next = c + 1
      OBVIOUS
    <3>2. ~(next >= target) /\ batch_data_size(next, s.file_size) # 0
      BY <1>4, <1>8, <3>1
    <3>3. AdvanceRound(Stepped(s, next), target, io) = [Stepped(s, next) EXCEPT !.failed = TRUE]
      BY <3>2, RoundOfEmpty
    <3> QED
      BY <2>1, <3>1, <3>3
  <2>5. \A k \in Nat : walk[k + 1] = AdvanceRound(walk[k], target, io)
    <3> SUFFICES ASSUME NEW k \in Nat PROVE walk[k + 1] = AdvanceRound(walk[k], target, io)
      OBVIOUS
    <3>1. CASE k = 0
      BY <2>3, <3>1
    <3>2. CASE k = 1
      BY <2>4, <3>2
    <3>3. CASE k > 1
      BY <2>2, <3>3
    <3> QED
      BY <3>1, <3>2, <3>3
  <2>6. rounds > 1
    BY <1>5, <1>8
  <2>7. walk = [k \in Nat |-> walk[k]] /\ walk[0] = s /\ walk[rounds] = reached
    BY <1>5, <2>6
  <2> HIDE DEF walk
  <2>8. IsWalk(walk, s, target, io)
    BY <2>5, <2>7 DEF IsWalk
  <2> QED
    BY <1>6, <2>2, <2>7, <2>8
<1>9. CASE /\ finalize_ok(s, io)
           /\ c + 1 < target => batch_data_size(c + 1, s.file_size) = 0
  <2> DEFINE at(k) == IF c + k < target THEN c + k ELSE target
             walk == [k \in Nat |-> IF k = 0 THEN s ELSE Stepped(s, at(k))]
  <2>1. reached = Stepped(s, target)
    BY <1>3, <1>4, <1>9
  <2>2. AdvanceRound(reached, target, io) = reached
    BY <2>1, RoundOfEmpty
  <2>3. ASSUME NEW n \in Nat, c < n, n < target
        PROVE  batch_data_size(n, s.file_size) = 0
    <3> DEFINE S == {j \in Nat : batch_data_size(c + 1 + j, s.file_size) = 0}
    <3>1. c + 1 < target /\ c + 1 + 0 = c + 1
      BY <2>3
    <3>2. 0 \in S
      BY <1>9, <3>1
    <3>3. ASSUME NEW j \in Nat, j \in S PROVE j + 1 \in S
      <4>1. PICK m \in Nat : m = c + 1 + j /\ m + 1 = c + 1 + (j + 1)
        OBVIOUS
      <4>2. batch_data_size(m + 1, s.file_size) = 0
        BY <1>2, <3>3, <4>1, EmptyBatchNext
      <4> QED
        BY <4>1, <4>2
    <3>4. Nat \subseteq S
      <4> HIDE DEF S
      <4> QED
        BY <3>2, <3>3, NatInductionSet
    <3>5. PICK j \in Nat : n = c + 1 + j
      <4>1. n - (c + 1) \in Nat /\ n = c + 1 + (n - (c + 1))
        BY <2>3
      <4> QED
        BY <4>1
    <3> QED
      BY <3>4, <3>5
  <2>4. ASSUME NEW k \in Nat
        PROVE  walk[k + 1] = AdvanceRound(walk[k], target, io)
    <3>1. CASE k = 0
      <4>1. at(1) = c + 1
        BY <1>2
      <4>2. AdvanceRound(s, target, io) = Stepped(s, c + 1)
        BY <1>1, <1>9, FirstRound
      <4>3. walk[0] = s /\ walk[0 + 1] = Stepped(s, at(1))
        OBVIOUS
      <4> QED
        BY <3>1, <4>1, <4>2, <4>3
    <3>2. CASE k # 0 /\ c + k < target
      <4>1. PICK n \in Nat : n = c + k /\ c < n /\ n < target
        BY <3>2
      <4>2. at(k) = n /\ at(k + 1) = n + 1
        BY <4>1
      <4>3. AdvanceRound(Stepped(s, n), target, io) = Stepped(s, n + 1)
        BY <2>3, <4>1, RoundOfEmpty
      <4>4. walk[k] = Stepped(s, at(k)) /\ walk[k + 1] = Stepped(s, at(k + 1))
        BY <3>2
      <4> HIDE DEF at, walk
      <4> QED
        BY <4>2, <4>3, <4>4
    <3>3. CASE k # 0 /\ ~(c + k < target)
      <4>1. at(k) = target /\ at(k + 1) = target
        BY <3>3
      <4>2. walk[k] = Stepped(s, at(k)) /\ walk[k + 1] = Stepped(s, at(k + 1))
        BY <3>3
      <4> HIDE DEF at, walk
      <4> QED
        BY <2>1, <2>2, <4>1, <4>2
    <3> QED
      BY <3>1, <3>2, <3>3
  <2>5. walk = [k \in Nat |-> walk[k]] /\ walk[0] = s
    OBVIOUS
  <2>6. walk[rounds] = reached
    <3>1. at(rounds) = target
      BY <1>2, <1>5
    <3>2. walk[rounds] = Stepped(s, at(rounds))
      BY <1>5
    <3> QED
      BY <2>1, <3>1, <3>2
  <2> HIDE DEF walk
  <2>7. IsWalk(walk, s, target, io)
    BY <2>4, <2>5 DEF IsWalk
  <2> QED
    BY <1>6, <2>2, <2>6, <2>7
<1> QED
  BY <1>4, <1>7, <1>8, <1>9

\* For every file, buffer and target, however far ahead, advance_to_batch as the
\* model has it ends where the code's loop ends, and the loop does end there.
THEOREM ClosedFormIsExact == Spec => []AdvanceIsLoop
<1>1. IInv => AdvanceIsLoop
  <2> SUFFICES ASSUME IInv, Receiving, ~state.failed,
                      NEW target \in state.current_batch + 1 .. MaxTarget, NEW io \in Io
               PROVE  /\ advance_to_batch(state, target, io) = AdvanceLoop(state, target, io)
                      /\ AdvanceRound(advance_to_batch(state, target, io), target, io)
                           = advance_to_batch(state, target, io)
    BY DEF AdvanceIsLoop
  <2>1. state \in StateType /\ state.current_batch \in Nat
    BY DEF IInv, Sound, StateType
  <2>2. target \in Nat /\ state.current_batch < target
    BY <2>1, AuditAssumption
  <2> QED
    BY <2>1, <2>2, ClosedFormIsLoop
<1> QED
  BY <1>1, AlwaysIInv, PTL

=============================================================================
