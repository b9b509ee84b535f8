--------------------------- MODULE ReceiverProofs ---------------------------
(***************************************************************************)
(* Proofs about module Receiver, for every set of packets in every order,  *)
(* every chunk, batch and buffer size, and every outcome of file           *)
(* operations: the invariants, what a single step may do to the output     *)
(* directory, that Receiver implements DeliveryContract, and that the      *)
(* counter of buffered bytes is exact.                                     *)
(***************************************************************************)
EXTENDS ReceiverAudit, FiniteSetTheorems, TLAPS

-----------------------------------------------------------------------------
(* Chunk arithmetic                                                        *)

\* The number of chunks of a file is a number.
LEMMA TotalChunksNat ==
  ASSUME NEW size \in Nat
  PROVE  TotalChunks(size) \in Nat
BY ProtoAssumption DEF TotalChunks

\* A batch has between 0 and BATCH_DATA_CHUNKS chunks.
LEMMA BatchSizeNat ==
  ASSUME NEW n \in Nat, NEW size \in Nat
  PROVE  batch_data_size(n, size) \in Nat
<1>1. TotalChunks(size) \in Nat
  BY TotalChunksNat
<1>2. n * BATCH_DATA_CHUNKS \in Nat
  BY ProtoAssumption
<1> QED
  BY <1>1, <1>2, ProtoAssumption DEF batch_data_size

-----------------------------------------------------------------------------
(* Buffers                                                                 *)

\* Nothing buffered is a buffer.
LEMMA BufferEmpty ==
  ASSUME NEW K, NEW P
  PROVE  <<>> \in Buffers(K, P)
<1>1. <<>> \in [{} -> P]
  OBVIOUS
<1> QED
  BY <1>1 DEF Buffers

\* A buffer is a function on some of the keys.
LEMMA BufferElim ==
  ASSUME NEW K, NEW P, NEW f \in Buffers(K, P)
  PROVE  /\ DOMAIN f \subseteq K
         /\ f = [k \in DOMAIN f |-> f[k]]
         /\ \A k \in DOMAIN f : f[k] \in P
BY DEF Buffers

\* Inserting a payload under a key keeps a buffer a buffer.
LEMMA BufferInsert ==
  ASSUME NEW K, NEW P, NEW f \in Buffers(K, P), NEW key \in K, NEW d \in P
  PROVE  Insert(f, key, d) \in Buffers(K, P)
<1> DEFINE g == Insert(f, key, d)
<1>1. DOMAIN f \subseteq K /\ \A k \in DOMAIN f : f[k] \in P
  BY BufferElim
<1>2. g \in [DOMAIN f \cup {key} -> P]
  BY <1>1 DEF Insert
<1>3. DOMAIN f \cup {key} \in SUBSET K
  BY <1>1
<1> QED
  BY <1>2, <1>3 DEF Buffers

-----------------------------------------------------------------------------
(* Packets                                                                 *)

\* The fields of the packets that arrive.
LEMMA PacketFields ==
  ASSUME NEW packet \in Packets
  PROVE  /\ packet.type \in {"START", "DATA", "PARITY", "END"}
         /\ packet.count \in Nat
         /\ packet.type = "START" => /\ packet \in StartPackets
                                     /\ packet.path \in Paths \cup UnsafePaths
                                     /\ packet.path_hash \in PathHash
                                     /\ packet.parity \in Nat
         /\ packet.type = "DATA" => /\ packet \in DataPackets
                                    /\ packet.path_hash \in Paths
                                    /\ packet.data \in DataPayload
         /\ packet.type = "PARITY" => /\ packet \in ParityPackets
                                      /\ packet.path_hash \in Paths
                                      /\ packet.data \in ParityPayload
BY ReceiverAssumption DEF StartPacket, DataPacket, ParityPacket, EndPacket, StartPackets,
   DataPackets, ParityPackets

\* Buffering a packet of the right kind keeps the buffers what they are.
LEMMA DataInsert ==
  ASSUME NEW f \in DataBuffers, NEW packet \in DataPackets,
         NEW g, g = Insert(f, packet.count, packet.data)
  PROVE  /\ g \in DataBuffers
         /\ DOMAIN g = DOMAIN f \cup {packet.count}
         /\ g[packet.count] = packet.data
         /\ \A k \in DOMAIN f \ {packet.count} : g[k] = f[k]
<1> DEFINE K == {p.count : p \in DataPackets}
           P == {p.data : p \in DataPackets}
<1>1. f \in Buffers(K, P) /\ packet.count \in K /\ packet.data \in P
  BY DEF DataBuffers
<1>2. DataBuffers = Buffers(K, P)
  BY DEF DataBuffers
<1> HIDE DEF K, P
<1>3. Insert(f, packet.count, packet.data) \in Buffers(K, P)
  BY <1>1, BufferInsert
<1> QED
  BY <1>2, <1>3 DEF Insert

ParityKeys == 0 .. BATCH_PARITY_CHUNKS - 1

\* The same for parity shards, filed under their index in the batch.
LEMMA ParityInsert ==
  ASSUME NEW f \in ParityBuffers, NEW packet \in ParityPackets,
         NEW idx \in ParityKeys
  PROVE  Insert(f, idx, packet.data) \in ParityBuffers
<1> DEFINE K == ParityKeys
           P == {p.data : p \in ParityPackets}
<1>1. f \in Buffers(K, P) /\ idx \in K /\ packet.data \in P
  BY DEF ParityBuffers, ParityKeys
<1>2. ParityBuffers = Buffers(K, P)
  BY DEF ParityBuffers, ParityKeys
<1> HIDE DEF K, P
<1> QED
  BY <1>1, <1>2, BufferInsert

-----------------------------------------------------------------------------
(* Files                                                                   *)

\* What a file on disk looks like.
LEMMA FileElim ==
  ASSUME NEW file \in Files
  PROVE  /\ file.size \in {packet.count : packet \in StartPackets} \cup {0}
         /\ file = [size |-> file.size, chunk |-> file.chunk]
         /\ file.chunk \in [0 .. TotalChunks(file.size) - 1 -> Versions \cup {Hole, Garbage}]
BY DEF Files, FileOf

\* A file of holes, of an announced size, is a file.
LEMMA FreshIsFile ==
  ASSUME NEW size \in {packet.count : packet \in StartPackets} \cup {0}
  PROVE  FreshFile(size) \in Files /\ FreshFile(size) # NoFile
BY FilesAssumption DEF FreshFile, Files, FileOf

\* FEC restores bytes of some version, or garbage: it never reads past the
\* end of a codeword.
LEMMA RestoredType ==
  ASSUME NEW s \in StateType, NEW i \in BatchChunks(s)
  PROVE  Restored(s, i) \in Versions \cup {Garbage}
<1> DEFINE n == batch_data_size(s.current_batch, s.file_size)
           codes == {s.parity_buffer[j].code : j \in Recoveries(s)}
           Matches(c) ==
             /\ codes = {c}
             /\ Len(c) = n
             /\ \A k \in Originals(s) : s.data_buffer[k].ver = c[k - BatchStart(s) + 1]
<1>1. s.current_batch \in Nat /\ s.file_size \in Nat
  BY DEF StateType
<1>2. n \in Nat
  BY <1>1, BatchSizeNat
<1>3. BatchStart(s) \in Nat
  BY <1>1, ProtoAssumption DEF BatchStart
<1>4. i - BatchStart(s) + 1 \in 1 .. n
  BY <1>2, <1>3 DEF BatchChunks
<1>5. \A c \in codes : c \in Seq(Versions)
  <2> SUFFICES ASSUME NEW j \in DOMAIN s.parity_buffer
               PROVE  s.parity_buffer[j].code \in Seq(Versions)
    BY DEF Recoveries
  <2>1. s.parity_buffer \in Buffers(0 .. BATCH_PARITY_CHUNKS - 1, {packet.data : packet \in ParityPackets})
    BY DEF StateType, ParityBuffers
  <2>2. s.parity_buffer[j] \in {packet.data : packet \in ParityPackets}
    BY <2>1, BufferElim
  <2>3. PICK packet \in ParityPackets : s.parity_buffer[j] = packet.data
    BY <2>2
  <2>4. packet \in Packets /\ packet.type = "PARITY"
    BY DEF ParityPackets
  <2>5. packet.data \in ParityPayload
    BY <2>4, PacketFields
  <2> QED
    BY <2>3, <2>5 DEF ParityPayload
<1>6. CASE \E c \in codes : Matches(c)
  <2>1. (CHOOSE c \in codes : Matches(c)) \in codes /\ Matches(CHOOSE c \in codes : Matches(c))
    BY <1>6
  <2>2. PICK c \in codes : c = (CHOOSE d \in codes : Matches(d)) /\ Len(c) = n
    BY <2>1
  <2>3. c \in Seq(Versions) /\ i - BatchStart(s) + 1 \in 1 .. Len(c)
    BY <1>4, <1>5, <2>2
  <2>4. c[i - BatchStart(s) + 1] \in Versions
    BY <2>3
  <2>5. Restored(s, i) = c[i - BatchStart(s) + 1]
    BY <1>6, <2>2 DEF Restored
  <2> QED
    BY <2>4, <2>5
<1>7. CASE ~ \E c \in codes : Matches(c)
  BY <1>7 DEF Restored
<1> QED
  BY <1>6, <1>7

\* A buffered data chunk is a chunk of some version.
LEMMA BufferedVersion ==
  ASSUME NEW s \in StateType, NEW k \in DOMAIN s.data_buffer
  PROVE  s.data_buffer[k].ver \in Versions
<1>1. s.data_buffer \in Buffers({packet.count : packet \in DataPackets},
                                {packet.data : packet \in DataPackets})
  BY DEF StateType, DataBuffers
<1>2. s.data_buffer[k] \in {packet.data : packet \in DataPackets}
  BY <1>1, BufferElim
<1>3. PICK packet \in DataPackets : s.data_buffer[k] = packet.data
  BY <1>2
<1>4. packet \in Packets /\ packet.type = "DATA"
  BY DEF DataPackets
<1>5. packet.data \in DataPayload
  BY <1>4, PacketFields
<1> QED
  BY <1>3, <1>5 DEF DataPayload

\* Writing a batch keeps the file a file, of the same size.
LEMMA WrittenIsFile ==
  ASSUME NEW s \in StateType, NEW file \in Files
  PROVE  /\ Written(s, file) \in Files
         /\ Written(s, file) # NoFile
         /\ Written(s, file).size = file.size
<1> DEFINE chunks == 0 .. TotalChunks(file.size) - 1
           new == [i \in DOMAIN file.chunk |->
                     IF i \notin BatchChunks(s) THEN file.chunk[i]
                     ELSE IF i \in DOMAIN s.data_buffer THEN s.data_buffer[i].ver
                     ELSE Restored(s, i)]
<1>1. /\ file.size \in {packet.count : packet \in StartPackets} \cup {0}
      /\ file = [size |-> file.size, chunk |-> file.chunk]
      /\ file.chunk \in [chunks -> Versions \cup {Hole, Garbage}]
  BY FileElim
<1>2. \A k \in DOMAIN s.data_buffer : s.data_buffer[k].ver \in Versions
  BY BufferedVersion
<1>3. new \in [chunks -> Versions \cup {Hole, Garbage}]
  BY <1>1, <1>2, RestoredType
<1>4. Written(s, file) = [size |-> file.size, chunk |-> new]
  BY <1>1 DEF Written
<1>5. Written(s, file) \in Files
  BY <1>1, <1>3, <1>4 DEF Files, FileOf
<1> QED
  BY <1>4, <1>5, FilesAssumption

-----------------------------------------------------------------------------
(* The functions on ReceiveState                                           *)

\* ReceiveState::new() is a state.
LEMMA NewStateType == NewState \in StateType
<1>1. \A K, P : <<>> \in Buffers(K, P)
  BY BufferEmpty
<1> QED
  BY <1>1 DEF NewState, StateType, DataBuffers, ParityBuffers, PathHash

\* What advance_to_batch keeps; what was buffered is kept whole or dropped whole.
LEMMA AdvanceFacts ==
  ASSUME NEW s \in StateType, NEW target \in Nat, NEW io,
         NEW t, t = advance_to_batch(s, target, io)
  PROVE  /\ t \in StateType
         /\ t.file_path = s.file_path /\ t.file_size = s.file_size /\ t.path_hash = s.path_hash
         /\ t.output = s.output
         /\ \/ /\ t.data_buffer = s.data_buffer /\ t.parity_buffer = s.parity_buffer
               /\ t.bytes_buffered = s.bytes_buffered /\ t.current_batch = s.current_batch
            \/ t.data_buffer = <<>> /\ t.parity_buffer = <<>> /\ t.bytes_buffered = 0
<1>1. \A K, P : <<>> \in Buffers(K, P)
  BY BufferEmpty
<1> DEFINE u == clear_batch(s)
<1>2. /\ u \in StateType
      /\ u.file_path = s.file_path /\ u.path_hash = s.path_hash
      /\ u.file_size = s.file_size /\ u.output = s.output
      /\ u.data_buffer = <<>> /\ u.parity_buffer = <<>> /\ u.bytes_buffered = 0
  BY <1>1 DEF clear_batch, StateType, DataBuffers, ParityBuffers
<1>3. s.current_batch + 1 \in Nat
  BY DEF StateType
<1>4. CASE t = [s EXCEPT !.failed = TRUE]
  BY <1>4 DEF StateType
<1>5. CASE t = [clear_batch(s) EXCEPT !.current_batch = s.current_batch + 1, !.failed = TRUE]
  <2> HIDE DEF u
  <2>1. t = [u EXCEPT !.current_batch = s.current_batch + 1, !.failed = TRUE]
    BY <1>5 DEF u
  <2> QED
    BY <1>2, <1>3, <2>1 DEF StateType
<1>6. CASE t = [clear_batch(s) EXCEPT !.current_batch = target]
  <2> HIDE DEF u
  <2>1. t = [u EXCEPT !.current_batch = target]
    BY <1>6 DEF u
  <2> QED
    BY <1>2, <2>1 DEF StateType
<1> QED
  BY <1>4, <1>5, <1>6 DEF advance_to_batch

\* What is true of the fields of ReceiveState whatever happens on disk: the
\* invariants TypeOK, BufferBelongs and WithinBufferLimit, of one value.
Belongs(s) ==
  /\ \A i \in DOMAIN s.data_buffer :
       /\ batch_for_data(i) = s.current_batch
       /\ \E packet \in DataPackets :
            packet.path_hash = s.path_hash /\ packet.count = i /\ packet.data = s.data_buffer[i]
  /\ \A j \in DOMAIN s.parity_buffer :
       \E packet \in ParityPackets :
         /\ packet.path_hash = s.path_hash
         /\ batch_for_parity(packet.count) = s.current_batch
         /\ packet.count % BATCH_PARITY_CHUNKS = j
         /\ packet.data = s.parity_buffer[j]

Sound(s) == s \in StateType /\ Belongs(s) /\ s.bytes_buffered <= BUFFER_BYTE_LIMIT

\* t is a later state of the transfer that s is a state of.
SameTransfer(s, t) ==
  /\ t.file_path = s.file_path /\ t.path_hash = s.path_hash
  /\ t.file_size = s.file_size
  /\ t.output = s.output

\* A state with nothing buffered is sound.
LEMMA EmptySound ==
  ASSUME NEW s \in StateType, s.data_buffer = <<>>, s.parity_buffer = <<>>, s.bytes_buffered = 0
  PROVE  Sound(s)
<1>1. DOMAIN s.data_buffer = {} /\ DOMAIN s.parity_buffer = {}
  OBVIOUS
<1> QED
  BY <1>1, ReceiverAssumption DEF Sound, Belongs

\* ReceiveState::new() is sound.
LEMMA NewStateSound == Sound(NewState)
<1>1. /\ NewState.data_buffer = <<>> /\ NewState.parity_buffer = <<>>
      /\ NewState.bytes_buffered = 0
  BY DEF NewState
<1> QED
  BY <1>1, NewStateType, EmptySound

\* Giving up on a transfer leaves what is buffered as it is.
LEMMA FailedSound ==
  ASSUME NEW s, Sound(s), NEW t, t = [s EXCEPT !.failed = TRUE]
  PROVE  Sound(t) /\ SameTransfer(s, t)
<1>1. s \in StateType
  BY DEF Sound
<1>2. /\ t \in StateType
      /\ t.data_buffer = s.data_buffer /\ t.parity_buffer = s.parity_buffer
      /\ t.bytes_buffered = s.bytes_buffered /\ t.current_batch = s.current_batch
      /\ SameTransfer(s, t)
  BY <1>1 DEF StateType, SameTransfer
<1> QED
  BY <1>2 DEF Sound, Belongs, SameTransfer

\* Moving on to another batch keeps the state sound and the transfer the same.
LEMMA EnterSound ==
  ASSUME NEW s, Sound(s), NEW batch \in Nat, NEW io, NEW t, t = EnterBatch(s, batch, io)
  PROVE  Sound(t) /\ SameTransfer(s, t)
<1>1. CASE t = s
  BY <1>1 DEF SameTransfer
<1>2. CASE t = advance_to_batch(s, batch, io)
  <2>1. s \in StateType
    BY DEF Sound
  <2>2. /\ t \in StateType
        /\ SameTransfer(s, t)
        /\ \/ /\ t.data_buffer = s.data_buffer /\ t.parity_buffer = s.parity_buffer
              /\ t.bytes_buffered = s.bytes_buffered /\ t.current_batch = s.current_batch
           \/ t.data_buffer = <<>> /\ t.parity_buffer = <<>> /\ t.bytes_buffered = 0
    BY <1>2, <2>1, AdvanceFacts DEF SameTransfer
  <2>3. CASE /\ t.data_buffer = s.data_buffer /\ t.parity_buffer = s.parity_buffer
             /\ t.bytes_buffered = s.bytes_buffered /\ t.current_batch = s.current_batch
    BY <2>2, <2>3 DEF Sound, Belongs, SameTransfer
  <2>4. CASE t.data_buffer = <<>> /\ t.parity_buffer = <<>> /\ t.bytes_buffered = 0
    BY <2>2, <2>4, EmptySound
  <2> QED
    BY <2>2, <2>3, <2>4
<1> QED
  BY <1>1, <1>2 DEF EnterBatch

\* Buffering a data chunk of the current batch keeps the state sound.
LEMMA BufferDataSound ==
  ASSUME NEW s, Sound(s), NEW packet \in Packets, packet.type = "DATA",
         packet.path_hash = s.path_hash, batch_for_data(packet.count) = s.current_batch,
         NEW t, t = buffer_data(s, packet)
  PROVE  Sound(t) /\ SameTransfer(s, t)
<1> DEFINE new == Insert(s.data_buffer, packet.count, packet.data)
<1>1. packet \in DataPackets /\ packet.data.len \in Nat
  BY PacketFields DEF DataPayload
<1>2. s \in StateType /\ s.data_buffer \in DataBuffers
      /\ s.bytes_buffered \in Nat /\ s.bytes_transferred \in Nat
  BY DEF Sound, StateType
<1>3. CASE t = s
  BY <1>3 DEF SameTransfer
<1>4. CASE t = [s EXCEPT !.failed = TRUE]
  BY <1>4, FailedSound
<1>5. CASE /\ s.bytes_buffered + packet.data.len <= BUFFER_BYTE_LIMIT
           /\ t = [s EXCEPT !.bytes_buffered = @ + packet.data.len,
                            !.bytes_transferred = @ + packet.data.len,
                            !.data_buffer = new]
  <2>2. /\ new \in DataBuffers
        /\ DOMAIN new = DOMAIN s.data_buffer \cup {packet.count}
        /\ new[packet.count] = packet.data
        /\ \A k \in DOMAIN s.data_buffer \ {packet.count} : new[k] = s.data_buffer[k]
    BY <1>1, <1>2, DataInsert
  <2> DEFINE more == s.bytes_buffered + packet.data.len
             total == s.bytes_transferred + packet.data.len
  <2>1. /\ more \in Nat /\ total \in Nat
        /\ t = [s EXCEPT !.bytes_buffered = more, !.bytes_transferred = total,
                         !.data_buffer = new]
    BY <1>1, <1>2, <1>5
  <2> HIDE DEF new, more, total
  <2>3. /\ t \in StateType
        /\ t.data_buffer = new /\ t.parity_buffer = s.parity_buffer
        /\ t.current_batch = s.current_batch
        /\ t.bytes_buffered = more
        /\ SameTransfer(s, t)
    BY <1>2, <2>1, <2>2 DEF StateType, SameTransfer
  <2>4. Belongs(t)
    BY <1>1, <2>2, <2>3 DEF Sound, Belongs, SameTransfer
  <2> QED
    BY <1>5, <2>3, <2>4 DEF Sound, more
<1> QED
  BY <1>1, <1>2, <1>3, <1>4, <1>5, ReceiverAssumption DEF buffer_data

\* Buffering a parity shard of the current batch keeps the state sound.
LEMMA BufferParitySound ==
  ASSUME NEW s, Sound(s), NEW packet \in Packets, packet.type = "PARITY",
         packet.path_hash = s.path_hash, batch_for_parity(packet.count) = s.current_batch,
         NEW t, t = buffer_parity(s, packet, packet.count % BATCH_PARITY_CHUNKS)
  PROVE  Sound(t) /\ SameTransfer(s, t)
<1> DEFINE idx == packet.count % BATCH_PARITY_CHUNKS
           new == Insert(s.parity_buffer, idx, packet.data)
<1>1. packet \in ParityPackets /\ packet.data.len \in Nat /\ packet.count \in Nat
  BY PacketFields DEF ParityPayload
<1>2. s \in StateType /\ s.parity_buffer \in ParityBuffers
      /\ s.bytes_buffered \in Nat /\ s.bytes_transferred \in Nat
  BY DEF Sound, StateType
<1>3. CASE t = s
  BY <1>3 DEF SameTransfer
<1>4. CASE t = [s EXCEPT !.failed = TRUE]
  BY <1>4, FailedSound
<1>5. CASE /\ s.bytes_buffered + packet.data.len <= BUFFER_BYTE_LIMIT
           /\ t = [s EXCEPT !.bytes_buffered = @ + packet.data.len,
                            !.parity_buffer = new]
  <2>1. idx \in ParityKeys
    BY <1>1, ProtoAssumption DEF ParityKeys
  <2> HIDE DEF idx
  <2>2. new \in ParityBuffers
    BY <1>1, <1>2, <2>1, ParityInsert
  <2>3. /\ DOMAIN new = DOMAIN s.parity_buffer \cup {idx}
        /\ new[idx] = packet.data
        /\ \A k \in DOMAIN s.parity_buffer \ {idx} : new[k] = s.parity_buffer[k]
    BY DEF Insert
  <2> DEFINE more == s.bytes_buffered + packet.data.len
  <2>4. more \in Nat /\ t = [s EXCEPT !.bytes_buffered = more, !.parity_buffer = new]
    BY <1>1, <1>2, <1>5
  <2> HIDE DEF new, more
  <2>5. /\ t \in StateType
        /\ t.parity_buffer = new /\ t.data_buffer = s.data_buffer
        /\ t.current_batch = s.current_batch
        /\ t.bytes_buffered = more
        /\ SameTransfer(s, t)
    BY <1>2, <2>2, <2>4 DEF StateType, SameTransfer
  <2>6. packet.count % BATCH_PARITY_CHUNKS = idx
    BY DEF idx
  <2>7. Belongs(t)
    BY <1>1, <2>3, <2>5, <2>6 DEF Sound, Belongs, SameTransfer
  <2> QED
    BY <1>5, <2>5, <2>7 DEF Sound, more
<1> QED
  BY <1>1, <1>2, <1>3, <1>4, <1>5, ReceiverAssumption DEF buffer_parity

-----------------------------------------------------------------------------
(* The inductive invariant                                                 *)

DirectoryOK ==
  /\ stats \in [files_transferred: Nat, files_failed: Nat]
  /\ final \in [Paths -> Files \cup {NoFile}]
  /\ partial \in [Paths -> Files \cup {NoFile}]
  /\ marker \subseteq Paths
  /\ missed \in [Paths -> Nat]

\* IdleClean is what makes the others inductive: new_file sets only some of
\* the fields, so the buffers of the new transfer are those the last one left.
IInv == Sound(state) /\ DirectoryOK /\ IdleClean /\ OneOutcome

\* The inductive invariant contains the invariants of the module.
LEMMA IInvImplies == IInv => TypeOK /\ IdleClean /\ BufferBelongs /\ OneOutcome /\ WithinBufferLimit
BY DEF IInv, Sound, Belongs, DirectoryOK, TypeOK, BufferBelongs, WithinBufferLimit

\* It holds when the program starts.
LEMMA InitIInv == Init => IInv
<1> SUFFICES ASSUME Init PROVE IInv
  OBVIOUS
<1>1. Sound(state)
  BY NewStateSound DEF Init
<1>2. DirectoryOK
  BY DEF Init, DirectoryOK
<1>3. state.file_path = NoPath
  BY DEF Init, NewState
<1> QED
  BY <1>1, <1>2, <1>3 DEF Init, IInv, IdleClean, OneOutcome, Receiving

\* Between transfers, and after a transfer was given up, the state is new.
LEMMA AbortedState ==
  ASSUME IInv
  PROVE  AfterAbort = NewState
BY DEF IInv, IdleClean, AfterAbort, reset_transfer

\* Handling a chunk: the transfer goes on, and only its .partial is written.
LEMMA ChunkStep ==
  ASSUME IInv, Receiving, NEW batch, NEW io, Sound(state'), SameTransfer(state, state'),
         WriteThrough(batch, io), UNCHANGED <<stats, final, marker, missed>>
  PROVE  IInv'
<1>1. state \in StateType /\ state.file_path \in Paths
  BY DEF IInv, Sound, StateType, Receiving
<1>2. partial[state.file_path] \in Files
  BY <1>1 DEF IInv, OneOutcome, DirectoryOK
<1>3. Written(state, partial[state.file_path]) \in Files
      /\ Written(state, partial[state.file_path]) # NoFile
  BY <1>1, <1>2, WrittenIsFile
<1>4. /\ partial' \in [Paths -> Files \cup {NoFile}]
      /\ partial'[state.file_path] # NoFile
  <2> DEFINE new == Written(state, partial[state.file_path])
  <2> HIDE DEF new
  <2>1. partial' = partial \/ partial' = [partial EXCEPT ![state.file_path] = new]
    BY DEF WriteThrough, new
  <2> QED
    BY <1>1, <1>3, <2>1 DEF IInv, OneOutcome, DirectoryOK, new
<1>5. DirectoryOK'
  BY <1>4 DEF IInv, DirectoryOK
<1>6. OneOutcome'
  BY <1>4 DEF IInv, OneOutcome, Receiving, SameTransfer
<1>7. IdleClean'
  BY DEF IdleClean, Receiving, SameTransfer
<1> QED
  BY <1>5, <1>6, <1>7 DEF IInv

\* A data packet is taken only during a transfer and leaves the state sound.
LEMMA HandleDataTransfer ==
  ASSUME IInv, NEW packet \in Packets, NEW io, HandleData(packet, io)
  PROVE  /\ Receiving
         /\ Sound(state')
         /\ SameTransfer(state, state')
<1> DEFINE batch == batch_for_data(packet.count)
           s == EnterBatch(state, batch, io)
<1>1. /\ packet.type = "DATA"
      /\ Receiving
      /\ packet.path_hash = state.path_hash
      /\ state' = IF ~s.failed /\ batch = s.current_batch THEN buffer_data(s, packet) ELSE s
      /\ WriteThrough(batch, io)
      /\ UNCHANGED <<stats, final, marker, missed>>
  BY DEF HandleData, Accepts, is_chunk_valid
<1>2. batch \in Nat
  BY PacketFields, ProtoAssumption DEF batch_for_data
<1>3. Sound(s) /\ SameTransfer(state, s)
  BY <1>2, EnterSound DEF IInv
<1>4. Sound(state') /\ SameTransfer(state, state')
  <2> HIDE DEF s
  <2>1. CASE state' = s
    BY <1>3, <2>1
  <2>2. CASE batch = s.current_batch /\ state' = buffer_data(s, packet)
    <3>1. packet.path_hash = s.path_hash
      BY <1>1, <1>3 DEF SameTransfer
    <3>2. Sound(state') /\ SameTransfer(s, state')
      BY <1>1, <1>3, <2>2, <3>1, BufferDataSound
    <3> QED
      BY <1>3, <3>2 DEF SameTransfer
  <2> QED
    BY <1>1, <2>1, <2>2
<1> QED
  BY <1>1, <1>4

\* main's Data arm preserves the inductive invariant.
LEMMA HandleDataIInv ==
  ASSUME IInv, NEW packet \in Packets, NEW io, HandleData(packet, io)
  PROVE  IInv'
<1>1. PICK batch : WriteThrough(batch, io) /\ UNCHANGED <<stats, final, marker, missed>>
  BY DEF HandleData
<1> QED
  BY <1>1, HandleDataTransfer, ChunkStep

\* A parity packet is taken only during a transfer and leaves the state sound.
LEMMA HandleParityTransfer ==
  ASSUME IInv, NEW packet \in Packets, NEW io, HandleParity(packet, io)
  PROVE  /\ Receiving
         /\ Sound(state')
         /\ SameTransfer(state, state')
<1> DEFINE batch == batch_for_parity(packet.count)
           s == EnterBatch(state, batch, io)
           idx == packet.count % BATCH_PARITY_CHUNKS
<1>1. /\ packet.type = "PARITY"
      /\ Receiving
      /\ packet.path_hash = state.path_hash
      /\ state' = IF ~s.failed /\ batch = s.current_batch
                  THEN buffer_parity(s, packet, idx) ELSE s
      /\ WriteThrough(batch, io)
      /\ UNCHANGED <<stats, final, marker, missed>>
  BY DEF HandleParity, Accepts, is_chunk_valid
<1>2. batch \in Nat
  BY PacketFields, ProtoAssumption DEF batch_for_parity
<1>3. Sound(s) /\ SameTransfer(state, s)
  BY <1>2, EnterSound DEF IInv
<1>4. Sound(state') /\ SameTransfer(state, state')
  <2> HIDE DEF s
  <2>1. CASE state' = s
    BY <1>3, <2>1
  <2>2. CASE batch = s.current_batch /\ state' = buffer_parity(s, packet, idx)
    <3>1. packet.path_hash = s.path_hash
      BY <1>1, <1>3 DEF SameTransfer
    <3>2. Sound(state') /\ SameTransfer(s, state')
      BY <1>1, <1>3, <2>2, <3>1, BufferParitySound
    <3> QED
      BY <1>3, <3>2 DEF SameTransfer
  <2> QED
    BY <1>1, <2>1, <2>2
<1> QED
  BY <1>1, <1>4

\* main's Parity arm preserves the inductive invariant.
LEMMA HandleParityIInv ==
  ASSUME IInv, NEW packet \in Packets, NEW io, HandleParity(packet, io)
  PROVE  IInv'
<1>1. PICK batch : WriteThrough(batch, io) /\ UNCHANGED <<stats, final, marker, missed>>
  BY DEF HandleParity
<1> QED
  BY <1>1, HandleParityTransfer, ChunkStep

\* Without is total and takes the named files away.
LEMMA WithoutType ==
  ASSUME NEW files \in [Paths -> Files \cup {NoFile}], NEW ps
  PROVE  /\ Without(files, ps) \in [Paths -> Files \cup {NoFile}]
         /\ \A p \in Paths : Without(files, ps)[p] = IF p \in ps THEN NoFile ELSE files[p]
BY DEF Without

\* More is total and counts one failure for each of the named paths.
LEMMA MoreType ==
  ASSUME NEW counts \in [Paths -> Nat], NEW ps
  PROVE  /\ More(counts, ps) \in [Paths -> Nat]
         /\ \A p \in Paths : More(counts, ps)[p] = IF p \in ps THEN counts[p] + 1 ELSE counts[p]
BY DEF More

\* Only what is attempted fails, and nothing where the directory is reliable.
LEMMA FailsSubset ==
  ASSUME NEW ps, NEW qs \in Fails(ps)
  PROVE  qs \subseteq ps /\ (IoOutcomes = {TRUE} => qs = {})
<1>1. qs \subseteq ps /\ \A p \in ps : (p \notin qs) \in IoOutcomes
  BY DEF Fails
<1>2. ASSUME IoOutcomes = {TRUE}, NEW p \in qs
      PROVE  FALSE
  BY <1>1, <1>2
<1> QED
  BY <1>1, <1>2

\* Only some of the paths have a file.
LEMMA PresentSubset ==
  ASSUME NEW files, NEW ps
  PROVE  Present(files, ps) \subseteq ps
BY DEF Present

\* Clearing .partial files leaves some of them.
LEMMA PartialsClearedType ==
  ASSUME DirectoryOK, NEW ps, NEW left \in PartialsCleared(ps)
  PROVE  left \in [Paths -> Files \cup {NoFile}]
<1>1. PICK qs : left = Without(partial, qs)
  BY DEF PartialsCleared
<1> QED
  BY <1>1, WithoutType DEF DirectoryOK

\* The counter of failures stays a number.
LEMMA FailureCount ==
  ASSUME IInv
  PROVE  FailuresAfterAbort \in Nat
BY DEF IInv, DirectoryOK, FailuresAfterAbort

\* What new_file gives up is a path of the output directory.
LEMMA AbortedPaths ==
  ASSUME IInv
  PROVE  Aborted \subseteq Paths
BY DEF IInv, Sound, StateType, Aborted, Receiving

\* No published file stands beside a marker unless two removals failed.
Twice == \A p \in marker : final[p] # NoFile => missed[p] >= 2

\* When nothing is being received the state is new; only the directory counts.
LEMMA IdleStep ==
  ASSUME state' = NewState, DirectoryOK', Twice'
  PROVE  IInv'
<1>1. Sound(state')
  BY NewStateSound
<1>2. ~Receiving'
  BY DEF NewState, Receiving
<1> QED
  BY <1>1, <1>2 DEF IInv, IdleClean, OneOutcome, Twice

\* What mark_failure does to the paths it is called for and to the others.
LEMMA MarkFailureStep ==
  ASSUME DirectoryOK, NEW ps \in SUBSET Paths, mark_failure(ps)
  PROVE  /\ final' \in [Paths -> Files \cup {NoFile}]
         /\ marker' \subseteq Paths
         /\ missed' \in [Paths -> Nat]
         /\ \A p \in Paths : \/ final'[p] = NoFile
                             \/ /\ final'[p] = final[p]
                                /\ missed'[p] = IF p \in ps THEN missed[p] + 1 ELSE missed[p]
         /\ \A p \in marker' : p \in marker \cup ps
<1>1. PICK kept \in Fails(Present(final, ps)), unmarked \in Fails(ps) :
        /\ final' = Without(final, ps \ kept)
        /\ marker' = marker \cup (ps \ unmarked)
        /\ missed' = More(missed, kept)
  BY DEF mark_failure
<1>2. /\ final \in [Paths -> Files \cup {NoFile}] /\ missed \in [Paths -> Nat]
      /\ marker \subseteq Paths
  BY DEF DirectoryOK
<1>3. /\ final' \in [Paths -> Files \cup {NoFile}]
      /\ \A p \in Paths : final'[p] = IF p \in ps \ kept THEN NoFile ELSE final[p]
  BY <1>1, <1>2, WithoutType
<1>4. /\ missed' \in [Paths -> Nat]
      /\ \A p \in Paths : missed'[p] = IF p \in kept THEN missed[p] + 1 ELSE missed[p]
  BY <1>1, <1>2, MoreType
<1>5. kept \subseteq ps
  <2>1. kept \subseteq Present(final, ps)
    BY <1>1, FailsSubset
  <2>2. Present(final, ps) \subseteq ps
    BY PresentSubset
  <2> QED
    BY <2>1, <2>2
<1> QED
  BY <1>1, <1>2, <1>3, <1>4, <1>5

\* The file of the transfer in progress can only be an old one, whose removal
\* failed once: if it survives mark_failure too, that was the second time.
LEMMA MarkFailureTwice ==
  ASSUME IInv, NEW ps \in SUBSET Paths, mark_failure(ps),
         \A p \in ps : Receiving /\ p = state.file_path
  PROVE  Twice'
<1>1. DirectoryOK /\ Twice /\ missed \in [Paths -> Nat]
  BY DEF IInv, OneOutcome, Twice, DirectoryOK
<1>2. \A p \in ps : final[p] # NoFile => missed[p] >= 1
  BY DEF IInv, OneOutcome
<1>3. SUFFICES ASSUME NEW p \in marker', final'[p] # NoFile
               PROVE  missed'[p] >= 2
  BY DEF Twice
<1>4. /\ p \in Paths /\ final'[p] = final[p]
      /\ missed'[p] = IF p \in ps THEN missed[p] + 1 ELSE missed[p]
      /\ p \in marker \cup ps
  BY <1>1, <1>3, MarkFailureStep
<1>5. PICK n \in Nat : n = missed[p]
  BY <1>1, <1>4
<1>6. CASE p \in ps
  BY <1>2, <1>3, <1>4, <1>5, <1>6
<1>7. CASE p \notin ps
  BY <1>1, <1>3, <1>4, <1>7 DEF Twice
<1> QED
  BY <1>6, <1>7

\* What a START does to the directory: what it leaves of the new path has
\* survived a removal, and if a file of it is marked as failed, two.
LEMMA ClearWayStep ==
  ASSUME IInv, NEW packet, packet.path \in Paths, packet.path # state.file_path,
         NEW marked, marked \in {Aborted, Aborted \cup {packet.path}}, ClearWay(packet, marked)
  PROVE  /\ final' \in [Paths -> Files \cup {NoFile}]
         /\ marker' \subseteq Paths
         /\ missed' \in [Paths -> Nat]
         /\ \A p \in Paths : final'[p] \in {final[p], NoFile}
         /\ Twice'
         /\ packet.path \notin marked =>
              \/ final'[packet.path] = NoFile /\ packet.path \notin marker'
              \/ missed'[packet.path] >= 1
<1>1. PICK kept, stale, unmarked :
        /\ kept \in Fails(Present(final, FinalsCleared(packet)))
        /\ stale \in Fails(marker \cap {packet.path})
        /\ final' = Without(final, FinalsCleared(packet) \ kept)
        /\ marker' = (marker \ ({packet.path} \ stale)) \cup (marked \ unmarked)
        /\ missed' = More(More(More([missed EXCEPT ![packet.path] = 0], kept),
                              kept \cap (marked \ Aborted)), stale)
  BY DEF ClearWay
<1>2. /\ final \in [Paths -> Files \cup {NoFile}] /\ missed \in [Paths -> Nat]
      /\ marker \subseteq Paths /\ Aborted \subseteq Paths /\ packet.path \notin Aborted
  BY AbortedPaths DEF IInv, DirectoryOK, Aborted
<1>3. FinalsCleared(packet) = Aborted \cup {packet.path}
  BY DEF FinalsCleared
<1>4. kept \subseteq Aborted \cup {packet.path} /\ stale \subseteq marker \cap {packet.path}
  <2>1. kept \subseteq Present(final, FinalsCleared(packet)) /\ stale \subseteq marker \cap {packet.path}
    BY <1>1, FailsSubset
  <2> QED
    BY <1>3, <2>1, PresentSubset
<1>5. /\ final' \in [Paths -> Files \cup {NoFile}]
      /\ \A p \in Paths :
           final'[p] = IF p \in (Aborted \cup {packet.path}) \ kept THEN NoFile ELSE final[p]
  BY <1>1, <1>2, <1>3, WithoutType
<1>6. /\ missed' \in [Paths -> Nat]
      /\ \A p \in Paths \ {packet.path} :
           missed'[p] = IF p \in kept THEN missed[p] + 1 ELSE missed[p]
      /\ packet.path \in kept => missed'[packet.path] >= 1
      /\ packet.path \in stale => missed'[packet.path] >= 1
      /\ packet.path \in kept /\ packet.path \in stale \cup marked => missed'[packet.path] >= 2
  <2> DEFINE m0 == [missed EXCEPT ![packet.path] = 0]
             m1 == More(m0, kept)
             m2 == More(m1, kept \cap (marked \ Aborted))
  <2>1. m0 \in [Paths -> Nat] /\ m0[packet.path] = 0
        /\ \A p \in Paths \ {packet.path} : m0[p] = missed[p]
    BY <1>2
  <2> HIDE DEF m0
  <2>2. /\ m1 \in [Paths -> Nat]
        /\ \A p \in Paths : m1[p] = IF p \in kept THEN m0[p] + 1 ELSE m0[p]
    BY <2>1, MoreType
  <2> HIDE DEF m1
  <2>3. /\ m2 \in [Paths -> Nat]
        /\ \A p \in Paths :
             m2[p] = IF p \in kept \cap (marked \ Aborted) THEN m1[p] + 1 ELSE m1[p]
    BY <2>2, MoreType
  <2> HIDE DEF m2
  <2>4. /\ missed' \in [Paths -> Nat]
        /\ \A p \in Paths : missed'[p] = IF p \in stale THEN m2[p] + 1 ELSE m2[p]
    <3>1. missed' = More(m2, stale)
      BY <1>1 DEF m2, m1, m0
    <3> QED
      BY <2>3, <3>1, MoreType
  <2>5. \A p \in Paths \ {packet.path} :
          missed'[p] = IF p \in kept THEN missed[p] + 1 ELSE missed[p]
    BY <1>4, <2>1, <2>2, <2>3, <2>4
  <2>6. PICK j \in Nat, k \in Nat, l \in Nat, n \in Nat :
          /\ j = m0[packet.path] /\ k = m1[packet.path] /\ l = m2[packet.path]
          /\ n = missed'[packet.path]
    BY <2>1, <2>2, <2>3, <2>4
  <2>7. /\ k = IF packet.path \in kept THEN 1 ELSE 0
        /\ l = IF packet.path \in kept /\ packet.path \in marked THEN k + 1 ELSE k
        /\ n = IF packet.path \in stale THEN l + 1 ELSE l
    BY <1>2, <2>1, <2>2, <2>3, <2>4, <2>6
  <2> QED
    BY <2>4, <2>5, <2>6, <2>7
<1>7. marker' \subseteq Paths
  BY <1>1, <1>2
<1>8. Twice'
  <2> SUFFICES ASSUME NEW p \in marker', final'[p] # NoFile
               PROVE  missed'[p] >= 2
    BY DEF Twice
  <2>1. p \in Paths
    BY <1>7
  <2>2. CASE p = packet.path
    <3>1. p \in kept
      BY <1>5, <2>1, <2>2
    <3>2. p \in stale \cup marked
      BY <1>1, <2>2
    <3> QED
      BY <1>6, <2>2, <3>1, <3>2
  <2>3. CASE p \in Aborted
    <3>1. p \in kept /\ final[p] # NoFile /\ p # packet.path
      BY <1>2, <1>5, <2>1, <2>3
    <3>2. missed[p] >= 1
      BY <2>3, <3>1 DEF IInv, OneOutcome, Aborted
    <3>3. PICK n \in Nat : n = missed[p]
      BY <1>2, <2>1
    <3>4. missed'[p] = n + 1
      BY <1>6, <2>1, <3>1, <3>3
    <3> QED
      BY <3>2, <3>3, <3>4
  <2>4. CASE p # packet.path /\ p \notin Aborted
    <3>1. p \in marker /\ final[p] # NoFile /\ p \notin kept
      BY <1>1, <1>4, <1>5, <2>1, <2>4
    <3>2. missed'[p] = missed[p]
      BY <1>6, <2>1, <2>4, <3>1
    <3> QED
      BY <3>1, <3>2 DEF IInv, OneOutcome
  <2> QED
    BY <2>2, <2>3, <2>4
<1>9. ASSUME packet.path \notin marked
      PROVE  \/ final'[packet.path] = NoFile /\ packet.path \notin marker'
             \/ missed'[packet.path] >= 1
  <2>1. CASE packet.path \in kept \cup stale
    BY <1>6, <2>1
  <2>2. CASE packet.path \notin kept \cup stale
    BY <1>1, <1>5, <1>9, <2>2
  <2> QED
    BY <2>1, <2>2
<1> QED
  BY <1>5, <1>6, <1>7, <1>8, <1>9

\* The transfers given up by a START are the one in progress.
LEMMA AbortedIsReceived == \A p \in Aborted : Receiving /\ p = state.file_path
BY DEF Aborted

\* An early return of new_file preserves the inductive invariant.
LEMMA StartRejectedIInv ==
  ASSUME IInv, NEW packet \in Packets, StartRejected(packet)
  PROVE  IInv'
<1>1. DirectoryOK /\ mark_failure(Aborted) /\ Aborted \in SUBSET Paths
  BY AbortedPaths DEF StartRejected, IInv
<1>2. partial' \in [Paths -> Files \cup {NoFile}]
  BY <1>1, PartialsClearedType DEF StartRejected
<1>3. DirectoryOK'
  <2>1. stats' \in [files_transferred: Nat, files_failed: Nat]
    BY FailureCount DEF StartRejected, IInv, DirectoryOK
  <2> QED
    BY <1>1, <1>2, <2>1, MarkFailureStep DEF DirectoryOK
<1>4. Twice'
  BY <1>1, AbortedIsReceived, MarkFailureTwice
<1>5. state' = NewState
  BY DEF StartRejected, reset_transfer
<1> QED
  BY <1>3, <1>4, <1>5, IdleStep

\* So does a START whose .partial cannot be opened.
LEMMA StartNotOpenedIInv ==
  ASSUME IInv, NEW packet \in Packets, StartNotOpened(packet)
  PROVE  IInv'
<1>1. /\ packet.path \in Paths /\ packet.path # state.file_path
      /\ ClearWay(packet, Aborted \cup {packet.path})
  BY DEF StartNotOpened, NewStart, is_safe_rel_path
<1>2. FreshFile(0) \in Files
  BY FreshIsFile
<1>3. PICK left \in PartialsCleared(Aborted \cup {packet.path}) :
        partial' = left \/ partial' = [left EXCEPT ![packet.path] = FreshFile(0)]
  BY DEF StartNotOpened
<1>4. left \in [Paths -> Files \cup {NoFile}]
  BY PartialsClearedType DEF IInv
<1>5. partial' \in [Paths -> Files \cup {NoFile}]
  BY <1>1, <1>2, <1>3, <1>4
<1>6. /\ final' \in [Paths -> Files \cup {NoFile}] /\ marker' \subseteq Paths
      /\ missed' \in [Paths -> Nat] /\ Twice'
  BY <1>1, ClearWayStep
<1>7. stats' \in [files_transferred: Nat, files_failed: Nat]
  BY FailureCount DEF StartNotOpened, IInv, DirectoryOK
<1>8. state' = NewState
  BY AbortedState DEF StartNotOpened
<1> QED
  BY <1>5, <1>6, <1>7, <1>8, IdleStep DEF DirectoryOK

\* So does a START that opens a transfer.
LEMMA StartOpenedIInv ==
  ASSUME IInv, NEW packet \in Packets, StartOpened(packet)
  PROVE  IInv'
<1>1. /\ packet.path \in Paths /\ packet.path # NoPath /\ packet.path_hash \in PathHash
      /\ packet.count \in Nat /\ packet.parity \in Nat
      /\ packet.count \in {p.count : p \in StartPackets} \cup {0}
  BY PacketFields, ProtoAssumption DEF StartOpened, NewStart, is_safe_rel_path
<1>2. FreshFile(packet.count) \in Files /\ FreshFile(packet.count) # NoFile
  BY <1>1, FreshIsFile
<1>3. state' = [NewState EXCEPT !.file_path = packet.path, !.path_hash = packet.path_hash,
                                !.file_size = packet.count,
                                !.parity_per_batch = packet.parity,
                                !.current_batch = 0, !.output = TRUE]
  BY AbortedState DEF StartOpened
<1>4. /\ state' \in StateType
      /\ state'.data_buffer = <<>> /\ state'.parity_buffer = <<>> /\ state'.bytes_buffered = 0
      /\ state'.file_path = packet.path /\ state'.output = TRUE
  BY <1>1, <1>3, NewStateType DEF NewState, StateType
<1>5. Sound(state')
  BY <1>4, EmptySound
<1>6. /\ partial' \in [Paths -> Files \cup {NoFile}]
      /\ partial'[packet.path] # NoFile
  <2>1. PICK left \in PartialsCleared(Aborted) :
          partial' = [left EXCEPT ![packet.path] = FreshFile(packet.count)]
    BY DEF StartOpened
  <2>2. left \in [Paths -> Files \cup {NoFile}]
    BY PartialsClearedType DEF IInv
  <2> QED
    BY <1>1, <1>2, <2>1, <2>2
<1>7. /\ final' \in [Paths -> Files \cup {NoFile}] /\ marker' \subseteq Paths
      /\ missed' \in [Paths -> Nat] /\ Twice'
      /\ \/ final'[packet.path] = NoFile /\ packet.path \notin marker'
         \/ missed'[packet.path] >= 1
  <2>1. packet.path # state.file_path /\ ClearWay(packet, Aborted)
    BY DEF StartOpened, NewStart
  <2>2. packet.path \notin Aborted
    BY <2>1 DEF Aborted
  <2> QED
    BY <1>1, <2>1, <2>2, ClearWayStep
<1>8. DirectoryOK'
  <2>1. stats' \in [files_transferred: Nat, files_failed: Nat]
    BY FailureCount DEF StartOpened, IInv, DirectoryOK
  <2> QED
    BY <1>6, <1>7, <2>1 DEF DirectoryOK
<1>9. OneOutcome'
  BY <1>4, <1>6, <1>7 DEF OneOutcome, Twice
<1>10. IdleClean'
  BY <1>1, <1>4 DEF IdleClean, Receiving
<1> QED
  BY <1>5, <1>8, <1>9, <1>10 DEF IInv

\* So does an END that publishes the file.
LEMMA EndStoredIInv ==
  ASSUME IInv, NEW packet \in Packets, NEW io \in Io, EndStored(packet, io)
  PROVE  IInv'
<1>1. Receiving /\ state \in StateType /\ state.file_path \in Paths
  BY DEF EndStored, IInv, Sound, StateType, Receiving
<1>2. partial[state.file_path] \in Files
  BY <1>1 DEF IInv, OneOutcome, DirectoryOK
<1>3. Written(state, partial[state.file_path]) \in Files
  BY <1>1, <1>2, WrittenIsFile
<1>4. final' \in [Paths -> Files \cup {NoFile}]
      /\ \A p \in Paths \ {state.file_path} : final'[p] = final[p]
  BY <1>1, <1>3 DEF Completed, EndStored, IInv, DirectoryOK
<1>5. PICK stale \in Fails(StaleMarkers) :
        marker' = marker \ (StaleMarkers \ stale) /\ missed' = More(missed, stale)
  BY DEF EndStored
<1>6. stale \subseteq marker \cap {state.file_path}
  BY FailsSubset DEF StaleMarkers
<1>7. /\ missed' \in [Paths -> Nat] /\ missed \in [Paths -> Nat] /\ marker \subseteq Paths
      /\ \A p \in Paths : missed'[p] = IF p \in stale THEN missed[p] + 1 ELSE missed[p]
  BY <1>5, MoreType DEF IInv, DirectoryOK
<1>8. DirectoryOK'
  <2>1. partial' \in [Paths -> Files \cup {NoFile}]
    BY WithoutType DEF EndStored, IInv, DirectoryOK
  <2>2. stats' \in [files_transferred: Nat, files_failed: Nat]
    BY DEF EndStored, IInv, DirectoryOK
  <2> QED
    BY <1>4, <1>5, <1>7, <2>1, <2>2 DEF IInv, DirectoryOK
<1>9. Twice'
  <2> SUFFICES ASSUME NEW p \in marker', final'[p] # NoFile
               PROVE  missed'[p] >= 2
    BY DEF Twice
  <2>1. p \in marker /\ p \in Paths
    BY <1>5, <1>7
  <2>2. PICK n \in Nat : n = missed[p]
    BY <1>7, <2>1
  <2>3. CASE p = state.file_path
    <3>1. p \in stale
      BY <1>5, <2>1, <2>3 DEF StaleMarkers
    <3>2. n >= 1
      BY <1>1, <2>1, <2>2, <2>3 DEF IInv, OneOutcome
    <3> QED
      BY <1>7, <2>1, <2>2, <3>1, <3>2
  <2>4. CASE p # state.file_path
    BY <1>4, <1>6, <1>7, <2>1, <2>4 DEF IInv, OneOutcome
  <2> QED
    BY <2>3, <2>4
<1>10. state' = NewState
  BY DEF EndStored, reset_transfer
<1> QED
  BY <1>8, <1>9, <1>10, IdleStep

\* So does an END that marks the file as failed.
LEMMA EndFailedIInv ==
  ASSUME IInv, NEW packet \in Packets, NEW io \in Io, EndFailed(packet, io)
  PROVE  IInv'
<1>1. /\ DirectoryOK /\ Receiving /\ mark_failure({state.file_path})
      /\ state.file_path \in Paths
  BY DEF EndFailed, IInv, Sound, StateType, Receiving
<1>2. partial' \in [Paths -> Files \cup {NoFile}]
  BY <1>1, PartialsClearedType DEF EndFailed
<1>3. DirectoryOK'
  <2>1. stats' \in [files_transferred: Nat, files_failed: Nat]
    BY DEF EndFailed, IInv, DirectoryOK
  <2> QED
    BY <1>1, <1>2, <2>1, MarkFailureStep DEF DirectoryOK
<1>4. Twice'
  <2>1. {state.file_path} \in SUBSET Paths
    BY <1>1
  <2> QED
    BY <1>1, <2>1, MarkFailureTwice
<1>5. state' = NewState
  BY DEF EndFailed, reset_transfer
<1> QED
  BY <1>3, <1>4, <1>5, IdleStep

\* Ignored packets and stuttering change nothing.
LEMMA UnchangedIInv == IInv /\ UNCHANGED vars => IInv'
BY DEF IInv, Sound, Belongs, DirectoryOK, IdleClean, OneOutcome, Receiving, vars

\* A restart keeps the directory and starts from a new state.
LEMMA RestartIInv == IInv /\ Restart => IInv'
<1> SUFFICES ASSUME IInv, Restart PROVE IInv'
  OBVIOUS
<1>1. DirectoryOK' /\ Twice'
  BY DEF IInv, DirectoryOK, OneOutcome, Twice, Restart, disk
<1> QED
  BY <1>1, IdleStep DEF Restart

\* Every step preserves the inductive invariant.
LEMMA NextIInv == IInv /\ [Next]_vars => IInv'
<1> SUFFICES ASSUME IInv, [Next]_vars PROVE IInv'
  OBVIOUS
<1>1. ASSUME NEW packet \in Packets, Handle(packet)
      PROVE  IInv'
  <2>1. ASSUME NEW io \in Io, \/ HandleData(packet, io) \/ HandleParity(packet, io)
                              \/ EndStored(packet, io) \/ EndFailed(packet, io)
        PROVE  IInv'
    BY <2>1, HandleDataIInv, HandleParityIInv, EndStoredIInv, EndFailedIInv
  <2>2. CASE StartAgain(packet) \/ Ignore(packet)
    BY <2>2, UnchangedIInv DEF StartAgain, Ignore
  <2>3. CASE StartRejected(packet) \/ StartNotOpened(packet) \/ StartOpened(packet)
    BY <2>3, StartRejectedIInv, StartNotOpenedIInv, StartOpenedIInv
  <2> QED
    BY <1>1, <2>1, <2>2, <2>3 DEF Handle
<1> QED
  BY <1>1, UnchangedIInv, RestartIInv DEF Next

\* The inductive invariant holds throughout.
LEMMA AlwaysIInv == Spec => []IInv
BY InitIInv, NextIInv, PTL DEF Spec

-----------------------------------------------------------------------------
(* Safety                                                                  *)

\* The state and the output directory keep their types: FEC never reads past a
\* codeword, and a file never changes its announced size while it is received.
THEOREM TypeCorrect == Spec => []TypeOK
<1>1. IInv => TypeOK
  BY IInvImplies
<1> QED
  BY <1>1, AlwaysIInv, PTL

\* No transfer inherits anything from the one before.
THEOREM NothingLeaks == Spec => []IdleClean
<1>1. IInv => IdleClean
  BY IInvImplies
<1> QED
  BY <1>1, AlwaysIInv, PTL

\* Only chunks of the current batch of the current file are ever buffered.
THEOREM BuffersBelong == Spec => []BufferBelongs
<1>1. IInv => BufferBelongs
  BY IInvImplies
<1> QED
  BY <1>1, AlwaysIInv, PTL

\* Whatever file operations fail, removals included: a published file stands
\* beside a .failed marker only where two removals failed, and while a path is
\* received something old of it is left only where one did.
THEOREM OutcomeIsUnique == Spec => []OneOutcome
<1>1. IInv => OneOutcome
  BY IInvImplies
<1> QED
  BY <1>1, AlwaysIInv, PTL

\* No packet sequence makes the receiver buffer more than the cap.
THEOREM MemoryIsBounded == Spec => []WithinBufferLimit
<1>1. IInv => WithinBufferLimit
  BY IInvImplies
<1> QED
  BY <1>1, AlwaysIInv, PTL

-----------------------------------------------------------------------------
(* Action properties                                                       *)

NotRewritten ==
  \A p \in Paths : final[p] # NoFile /\ final'[p] \notin {final[p], NoFile} => missed[p] >= 1

\* A START that is not that of the transfer in progress takes files away at most.
LEMMA StartTakesAway ==
  ASSUME IInv, NEW packet \in Packets,
         StartRejected(packet) \/ StartNotOpened(packet) \/ StartOpened(packet)
  PROVE  \A p \in Paths : final'[p] \in {final[p], NoFile}
<1>1. CASE StartRejected(packet)
  <2>1. DirectoryOK /\ Aborted \in SUBSET Paths /\ mark_failure(Aborted)
    BY <1>1, AbortedPaths DEF StartRejected, IInv
  <2> QED
    BY <2>1, MarkFailureStep
<1>2. CASE StartNotOpened(packet) \/ StartOpened(packet)
  <2>1. /\ packet.path \in Paths /\ packet.path # state.file_path
        /\ \E marked \in {Aborted, Aborted \cup {packet.path}} : ClearWay(packet, marked)
    BY <1>2 DEF StartNotOpened, StartOpened, NewStart, is_safe_rel_path
  <2> QED
    BY <2>1, ClearWayStep
<1> QED
  BY <1>1, <1>2

\* So does an END that fails.
LEMMA EndTakesAway ==
  ASSUME IInv, NEW packet \in Packets, NEW io \in Io, EndFailed(packet, io)
  PROVE  \A p \in Paths : final'[p] \in {final[p], NoFile}
<1>1. DirectoryOK /\ {state.file_path} \in SUBSET Paths /\ mark_failure({state.file_path})
  BY DEF EndFailed, IInv, Sound, StateType, Receiving
<1> QED
  BY <1>1, MarkFailureStep

\* A step rewrites a published file only if its removal failed before.
LEMMA NextNotRewritten == IInv /\ [Next]_vars => NotRewritten
<1> SUFFICES ASSUME IInv, [Next]_vars PROVE NotRewritten
  OBVIOUS
<1>1. final \in [Paths -> Files \cup {NoFile}]
  BY DEF IInv, DirectoryOK
<1>2. CASE UNCHANGED vars \/ Restart
  BY <1>2 DEF NotRewritten, vars, Restart, disk
<1>3. ASSUME NEW packet \in Packets, NEW io \in Io,
             \/ HandleData(packet, io) \/ HandleParity(packet, io) \/ EndFailed(packet, io)
      PROVE  NotRewritten
  BY <1>3, EndTakesAway DEF NotRewritten, HandleData, HandleParity
<1>4. ASSUME NEW packet \in Packets, StartAgain(packet) \/ Ignore(packet)
      PROVE  NotRewritten
  BY <1>4 DEF NotRewritten, StartAgain, Ignore, vars
<1>5. ASSUME NEW packet \in Packets,
             StartRejected(packet) \/ StartNotOpened(packet) \/ StartOpened(packet)
      PROVE  NotRewritten
  BY <1>5, StartTakesAway DEF NotRewritten
<1>6. ASSUME NEW packet \in Packets, NEW io \in Io, EndStored(packet, io)
      PROVE  NotRewritten
  <2>1. final[state.file_path] # NoFile => missed[state.file_path] >= 1
    BY <1>6 DEF EndStored, IInv, OneOutcome
  <2>2. \A p \in Paths \ {state.file_path} : final'[p] = final[p]
    BY <1>1, <1>6 DEF EndStored
  <2> QED
    BY <2>1, <2>2 DEF NotRewritten
<1> QED
  BY <1>2, <1>3, <1>4, <1>5, <1>6 DEF Next, Handle

\* Whatever file operations fail: somebody who reads the output directory sees a
\* file change under its name only where its removal failed at the START.
THEOREM NeverRewritten == Spec => PublishedNeverRewritten
<1>1. IInv /\ [Next]_vars => [NotRewritten]_vars
  BY NextNotRewritten
<1> QED
  BY <1>1, AlwaysIInv, PTL DEF Spec, PublishedNeverRewritten, NotRewritten

StaysFailed ==
  Receiving /\ state.failed =>
    /\ final'[state.file_path] \in {final[state.file_path], NoFile}
    /\ state'.file_path = state.file_path => state'.failed

\* No step revives or publishes a failed transfer.
LEMMA NextStaysFailed == IInv /\ [Next]_vars => StaysFailed
<1> SUFFICES ASSUME IInv, [Next]_vars, Receiving, state.failed
             PROVE  /\ final'[state.file_path] \in {final[state.file_path], NoFile}
                    /\ state'.file_path = state.file_path => state'.failed
  BY DEF StaysFailed
<1>1. state.file_path \in Paths
  BY DEF IInv, Sound, StateType, Receiving
<1>2. NewState.file_path # state.file_path
  BY DEF NewState, Receiving
<1>3. CASE UNCHANGED vars \/ Restart
  BY <1>2, <1>3 DEF vars, Restart, disk
<1>4. ASSUME NEW packet \in Packets, NEW io \in Io,
             \/ HandleData(packet, io) \/ HandleParity(packet, io) \/ EndStored(packet, io)
      PROVE  FALSE
  BY <1>4 DEF HandleData, HandleParity, Accepts, EndStored, FinishOk
<1>5. ASSUME NEW packet \in Packets, StartAgain(packet) \/ Ignore(packet)
      PROVE  UNCHANGED vars
  BY <1>5 DEF StartAgain, Ignore
<1>6. ASSUME NEW packet \in Packets, NEW io \in Io, EndFailed(packet, io)
      PROVE  state' = NewState /\ final'[state.file_path] \in {final[state.file_path], NoFile}
  BY <1>1, <1>6, EndTakesAway DEF EndFailed, reset_transfer
<1>7. ASSUME NEW packet \in Packets,
             StartRejected(packet) \/ StartNotOpened(packet) \/ StartOpened(packet)
      PROVE  /\ state'.file_path # state.file_path
             /\ final'[state.file_path] \in {final[state.file_path], NoFile}
  <2>1. packet.path # state.file_path
    BY <1>7 DEF StartRejected, StartNotOpened, StartOpened, NewStart
  <2>2. state'.file_path \in {NoPath, packet.path}
    <3>1. CASE StartRejected(packet)
      BY <3>1 DEF StartRejected, reset_transfer, NewState
    <3>2. CASE StartNotOpened(packet)
      BY <3>2, AbortedState DEF StartNotOpened, NewState
    <3>3. CASE StartOpened(packet)
      <4>1. state' = [NewState EXCEPT !.file_path = packet.path, !.path_hash = packet.path_hash, !.file_size = packet.count,
                                      !.parity_per_batch = packet.parity,
                                      !.current_batch = 0, !.output = TRUE]
        BY <3>3, AbortedState DEF StartOpened
      <4> QED
        BY <4>1 DEF NewState
    <3> QED
      BY <1>7, <3>1, <3>2, <3>3
  <2>3. state'.file_path # state.file_path
    BY <2>1, <2>2 DEF Receiving
  <2> QED
    BY <1>1, <1>7, <2>3, StartTakesAway
<1> QED
  BY <1>2, <1>3, <1>4, <1>5, <1>6, <1>7 DEF Next, Handle

\* A failed transfer is never published, nor made good by a repeated START.
THEOREM FailureStays == Spec => FailureIsFinal
<1>1. IInv /\ [Next]_vars => [StaysFailed]_vars
  BY NextStaysFailed
<1> QED
  BY <1>1, AlwaysIInv, PTL DEF Spec, FailureIsFinal, StaysFailed

-----------------------------------------------------------------------------
(* Receiver implements DeliveryContract                                    *)

\* The contract gives up the path new_file gives up.
LEMMA InterruptedIsAborted == Contract!Interrupted = Aborted
BY DEF Contract!Interrupted, Aborted, Receiving

\* The initial states are initial states of the contract.
LEMMA InitContract == Init => Contract!Init
BY DEF Init, Contract!Init, NewState

\* What comes of an attempt is what does not fail of it.
LEMMA AttemptedRest ==
  ASSUME NEW ps, NEW qs, qs \subseteq ps, IoOutcomes = {TRUE} => qs = {}
  PROVE  ps \ qs \in Contract!Attempted(ps)
<1>1. ps \ qs \in SUBSET ps
  OBVIOUS
<1>2. qs = {} => ps \ qs = ps
  OBVIOUS
<1> QED
  BY <1>1, <1>2 DEF Contract!Attempted

\* A step that means to take the files of ps and others away, to mark ps and to
\* take the markers of others away, is a Fail step of the contract.
LEMMA FailStep ==
  ASSUME NEW ps, NEW others,
         NEW kept \in Fails(Present(final, ps \cup others)),
         NEW stale \in Fails(marker \cap others), NEW unmarked \in Fails(ps),
         final' = Without(final, (ps \cup others) \ kept),
         marker' = (marker \ (others \ stale)) \cup (ps \ unmarked)
  PROVE  Contract!Fail(ps, others)
<1>1. /\ kept \subseteq ps \cup others /\ (IoOutcomes = {TRUE} => kept = {})
      /\ stale \subseteq others /\ (IoOutcomes = {TRUE} => stale = {})
      /\ unmarked \subseteq ps /\ (IoOutcomes = {TRUE} => unmarked = {})
  <2>1. kept \subseteq ps \cup others /\ (IoOutcomes = {TRUE} => kept = {})
    <3>1. kept \subseteq Present(final, ps \cup others) /\ (IoOutcomes = {TRUE} => kept = {})
      BY FailsSubset
    <3>2. Present(final, ps \cup others) \subseteq ps \cup others
      BY PresentSubset
    <3> QED
      BY <3>1, <3>2
  <2>2. stale \subseteq marker \cap others /\ (IoOutcomes = {TRUE} => stale = {})
    BY FailsSubset
  <2>3. unmarked \subseteq ps /\ (IoOutcomes = {TRUE} => unmarked = {})
    BY FailsSubset
  <2> QED
    BY <2>1, <2>2, <2>3
<1>2. PICK gone, lowered, raised :
        /\ gone = (ps \cup others) \ kept
        /\ lowered = others \ stale
        /\ raised = ps \ unmarked
  OBVIOUS
<1>3. /\ gone \in Contract!Attempted(ps \cup others)
      /\ lowered \in Contract!Attempted(others)
      /\ raised \in Contract!Attempted(ps)
  BY <1>1, <1>2, AttemptedRest
<1>4. final' = [p \in Paths |-> IF p \in gone THEN NoFile ELSE final[p]]
  BY <1>2 DEF Without
<1>5. marker' = (marker \ lowered) \cup raised
  BY <1>2
<1> QED
  BY <1>3, <1>4, <1>5 DEF Contract!Fail

\* mark_failure is a Fail step.
LEMMA MarkFailureFails ==
  ASSUME NEW ps, mark_failure(ps)
  PROVE  Contract!Fail(ps, {})
<1>1. PICK kept \in Fails(Present(final, ps)), unmarked \in Fails(ps) :
        /\ final' = Without(final, ps \ kept)
        /\ marker' = marker \cup (ps \ unmarked)
  BY DEF mark_failure
<1>2. ps \cup {} = ps /\ marker \cap {} = {} /\ marker \ ({} \ {}) = marker
  OBVIOUS
<1>3. {} \in Fails(marker \cap {})
  BY <1>2 DEF Fails
<1>4. kept \in Fails(Present(final, ps \cup {}))
  BY <1>2
<1>5. final' = Without(final, (ps \cup {}) \ kept)
  BY <1>1, <1>2
<1>6. marker' = (marker \ ({} \ {})) \cup (ps \ unmarked)
  BY <1>1, <1>2
<1> QED
  BY <1>3, <1>4, <1>5, <1>6, FailStep

\* So is what a START does to the directory, its path among the others.
LEMMA ClearWayFails ==
  ASSUME NEW packet, NEW marked, marked \subseteq FinalsCleared(packet),
         Aborted \subseteq marked, ClearWay(packet, marked)
  PROVE  Contract!Fail(marked, {packet.path})
<1>1. PICK kept \in Fails(Present(final, FinalsCleared(packet))),
           stale \in Fails(marker \cap {packet.path}), unmarked \in Fails(marked) :
        /\ final' = Without(final, FinalsCleared(packet) \ kept)
        /\ marker' = (marker \ ({packet.path} \ stale)) \cup (marked \ unmarked)
  BY DEF ClearWay
<1>2. FinalsCleared(packet) = marked \cup {packet.path}
  BY DEF FinalsCleared
<1>3. /\ kept \in Fails(Present(final, marked \cup {packet.path}))
      /\ final' = Without(final, (marked \cup {packet.path}) \ kept)
  BY <1>1, <1>2
<1> QED
  BY <1>1, <1>3, FailStep

\* The counters are counters of the contract.
LEMMA CountStep ==
  ASSUME IInv, NEW n \in Nat,
         stats' = [stats EXCEPT !.files_failed = FailuresAfterAbort + n]
  PROVE  [well |-> stats'.files_transferred, badly |-> stats'.files_failed] = Contract!Failures(n)
BY DEF IInv, DirectoryOK, Contract!Failures, FailuresAfterAbort, Receiving

\* A START that opens a transfer is a Begin of the contract.
LEMMA StartOpenedContract ==
  ASSUME IInv, NEW packet \in Packets, StartOpened(packet)
  PROVE  Contract!Begin(packet.path)
<1>1. packet.path # state.file_path
  BY DEF StartOpened, NewStart
<1>2. state'.file_path = packet.path
  <2>1. state' = [NewState EXCEPT !.file_path = packet.path, !.path_hash = packet.path_hash, !.file_size = packet.count,
                                  !.parity_per_batch = packet.parity,
                                  !.current_batch = 0, !.output = TRUE]
    BY AbortedState DEF StartOpened
  <2> QED
    BY <2>1 DEF NewState
<1>4. Contract!Fail(Aborted, {packet.path})
  BY ClearWayFails DEF StartOpened, FinalsCleared
<1>5. [well |-> stats'.files_transferred, badly |-> stats'.files_failed] = Contract!Failures(0)
  <2>1. stats' = [stats EXCEPT !.files_failed = FailuresAfterAbort + 0]
    BY FailureCount DEF StartOpened
  <2> QED
    BY <2>1, CountStep
<1> QED
  BY <1>1, <1>2, <1>4, <1>5, InterruptedIsAborted DEF Contract!Begin

\* A START whose .partial cannot be opened is a step of the contract.
LEMMA StartNotOpenedContract ==
  ASSUME IInv, NEW packet \in Packets, StartNotOpened(packet)
  PROVE  Contract!Refuse({packet.path})
<1>1. packet.path # state.file_path
  BY DEF StartNotOpened, NewStart
<1>2. state'.file_path = NoPath
  BY AbortedState DEF StartNotOpened, NewState
<1>5. Contract!Fail(Aborted \cup {packet.path}, {packet.path})
  BY ClearWayFails DEF StartNotOpened, FinalsCleared
<1>6. [well |-> stats'.files_transferred, badly |-> stats'.files_failed] = Contract!Failures(1)
  BY CountStep DEF StartNotOpened
<1> QED
  BY <1>1, <1>2, <1>5, <1>6, InterruptedIsAborted DEF Contract!Refuse

\* A rejected START is a step of the contract.
LEMMA StartRejectedContract ==
  ASSUME IInv, NEW packet \in Packets, StartRejected(packet)
  PROVE  Contract!Refuse({})
<1>1. state'.file_path = NoPath
  BY DEF StartRejected, reset_transfer, NewState
<1>2. Aborted \cup {} = Aborted
  OBVIOUS
<1>3. Contract!Fail(Aborted \cup {}, {})
  BY <1>2, MarkFailureFails DEF StartRejected
<1>4. [well |-> stats'.files_transferred, badly |-> stats'.files_failed] = Contract!Failures(1)
  BY CountStep DEF StartRejected
<1> QED
  BY <1>1, <1>3, <1>4, InterruptedIsAborted DEF Contract!Refuse

\* An END that publishes is a step of the contract.
LEMMA EndStoredContract ==
  ASSUME IInv, NEW packet \in Packets, NEW io \in Io, EndStored(packet, io)
  PROVE  Contract!Publish
<1> DEFINE new == Written(state, partial[state.file_path])
<1>1. Receiving /\ state \in StateType /\ state.file_path \in Paths
      /\ final \in [Paths -> Files \cup {NoFile}]
  BY DEF EndStored, IInv, Sound, StateType, Receiving, DirectoryOK
<1>2. partial[state.file_path] \in Files
  BY <1>1 DEF IInv, OneOutcome, DirectoryOK
<1>3. new \in Files
  BY <1>1, <1>2, WrittenIsFile
<1>4. final' = [final EXCEPT ![state.file_path] = new]
  BY DEF Completed, EndStored
<1> HIDE DEF new
<1>5. final'[state.file_path] = new
  BY <1>1, <1>4
<1>6. [well |-> stats'.files_transferred, badly |-> stats'.files_failed]
        = [[well |-> stats.files_transferred, badly |-> stats.files_failed]
             EXCEPT !.well = @ + 1]
  BY DEF EndStored, IInv, DirectoryOK
<1>7. state'.file_path = NoPath
      /\ \E lowered \in Contract!Attempted({state.file_path}) : marker' = marker \ lowered
  <2>1. PICK stale \in Fails(StaleMarkers) : marker' = marker \ (StaleMarkers \ stale)
    BY DEF EndStored
  <2>2. stale \subseteq {state.file_path} /\ (IoOutcomes = {TRUE} => stale = {})
    <3>1. stale \subseteq StaleMarkers /\ (IoOutcomes = {TRUE} => stale = {})
      BY <2>1, FailsSubset
    <3> QED
      BY <3>1 DEF StaleMarkers
  <2>3. marker' = marker \ ({state.file_path} \ stale)
    BY <2>1 DEF StaleMarkers
  <2> QED
    BY <2>2, <2>3, AttemptedRest DEF EndStored, reset_transfer, NewState
<1>8. final' = [final EXCEPT ![state.file_path] = final'[state.file_path]]
  BY <1>4, <1>5
<1> QED
  BY <1>1, <1>3, <1>5, <1>6, <1>7, <1>8 DEF Contract!Publish, Receiving

\* An END that marks a failure is a step of the contract.
LEMMA EndFailedContract ==
  ASSUME IInv, NEW packet \in Packets, NEW io \in Io, EndFailed(packet, io)
  PROVE  Contract!GiveUp
<1>1. Receiving /\ Aborted = {state.file_path}
  BY DEF EndFailed, Aborted
<1>2. state'.file_path = NoPath
  BY DEF EndFailed, reset_transfer, NewState
<1>4. Contract!Fail(Aborted, {})
  BY <1>1, MarkFailureFails DEF EndFailed
<1>5. stats' = [stats EXCEPT !.files_failed = FailuresAfterAbort + 0]
  BY <1>1 DEF EndFailed, IInv, DirectoryOK, FailuresAfterAbort
<1>6. [well |-> stats'.files_transferred, badly |-> stats'.files_failed] = Contract!Failures(0)
  BY <1>5, CountStep
<1> QED
  BY <1>1, <1>2, <1>4, <1>6, InterruptedIsAborted DEF Contract!GiveUp, Receiving

\* Every step of the receiver is a step of the contract or a stutter.
LEMMA NextContract == IInv /\ [Next]_vars => [Contract!Next]_(Contract!vars)
<1> SUFFICES ASSUME IInv, [Next]_vars PROVE [Contract!Next]_(Contract!vars)
  OBVIOUS
<1>1. CASE UNCHANGED vars
  BY <1>1 DEF vars, Contract!vars
<1>2. CASE Restart
  <2>1. Contract!Restart
    BY <1>2 DEF Restart, disk, NewState, Contract!Restart
  <2> QED
    BY <2>1 DEF Contract!Next
<1>3. ASSUME NEW packet \in Packets, Handle(packet)
      PROVE  [Contract!Next]_(Contract!vars)
  <2>1. ASSUME NEW io \in Io, HandleData(packet, io) \/ HandleParity(packet, io)
        PROVE  [Contract!Next]_(Contract!vars)
    <3>1. UNCHANGED <<stats, final, marker>>
      BY <2>1 DEF HandleData, HandleParity
    <3>2. state'.file_path = state.file_path
      BY <2>1, HandleDataTransfer, HandleParityTransfer DEF SameTransfer
    <3> QED
      BY <3>1, <3>2 DEF Contract!vars
  <2>2. CASE StartAgain(packet) \/ Ignore(packet)
    BY <2>2 DEF StartAgain, Ignore, vars, Contract!vars
  <2>3. CASE StartRejected(packet)
    BY <2>3, StartRejectedContract DEF Contract!Next
  <2>4. CASE StartNotOpened(packet)
    <3>1. packet.path \in Paths
      BY <2>4 DEF StartNotOpened, is_safe_rel_path
    <3> QED
      BY <2>4, <3>1, StartNotOpenedContract DEF Contract!Next
  <2>5. CASE StartOpened(packet)
    <3>1. packet.path \in Paths
      BY <2>5 DEF StartOpened, is_safe_rel_path
    <3> QED
      BY <2>5, <3>1, StartOpenedContract DEF Contract!Next
  <2>6. ASSUME NEW io \in Io, EndStored(packet, io)
        PROVE  [Contract!Next]_(Contract!vars)
    BY <2>6, EndStoredContract DEF Contract!Next
  <2>7. ASSUME NEW io \in Io, EndFailed(packet, io)
        PROVE  [Contract!Next]_(Contract!vars)
    BY <2>7, EndFailedContract DEF Contract!Next
  <2> QED
    BY <1>3, <2>1, <2>2, <2>3, <2>4, <2>5, <2>6, <2>7 DEF Handle
<1> QED
  BY <1>1, <1>2, <1>3 DEF Next

\* Whatever packets arrive in whatever order, and whichever file operations
\* fail, removals and markers included, the output directory evolves as
\* DeliveryContract says: where operations may fail, as it says for a directory
\* that is not reliable.
THEOREM ImplementsContract == Spec => RefinesContract
BY InitContract, NextContract, AlwaysIInv, PTL DEF Spec, RefinesContract, Contract!Spec

-----------------------------------------------------------------------------
(* Induction, without a theorem that takes a predicate: the values that    *)
(* have the property are a set, and WFMin gives the least one outside it.   *)

\* Below is an order on Nat without infinite descent.
LEMMA NatIsWellFounded == IsWellFoundedOn({p \in Nat \X Nat : p[1] < p[2]}, Nat)
<1>1. OpToRel(<, Nat) = {p \in Nat \X Nat : p[1] < p[2]}
  BY DEF OpToRel
<1> QED
  BY <1>1, NatLessThanWellFounded

\* Induction: the numbers that have a property, as a set.
LEMMA NatInductionSet ==
  ASSUME NEW S, 0 \in S, \A n \in Nat : n \in S => n + 1 \in S
  PROVE  Nat \subseteq S
<1> DEFINE R == {p \in Nat \X Nat : p[1] < p[2]}
           T == Nat \ S
<1>1. SUFFICES ASSUME T # {} PROVE FALSE
  OBVIOUS
<1>2. PICK x \in T : \A y \in T : <<y, x>> \notin R
  <2>1. T \subseteq Nat
    OBVIOUS
  <2>2. IsWellFoundedOn(R, Nat)
    BY NatIsWellFounded
  <2> HIDE DEF T, R
  <2> QED
    BY <1>1, <2>1, <2>2, WFMin
<1>3. x \in Nat /\ x # 0 /\ x - 1 \in Nat
  OBVIOUS
<1>4. <<x - 1, x>> \in R
  BY <1>3
<1>5. x - 1 \in S
  BY <1>2, <1>3, <1>4
<1>6. x - 1 + 1 = x
  BY <1>3
<1> QED
  BY <1>3, <1>5, <1>6

\* Induction over the subsets of a finite set, one element at a time.
LEMMA SubsetInduction ==
  ASSUME NEW D, IsFiniteSet(D), NEW G, {} \in G,
         \A E \in SUBSET D : \A x \in D \ E : E \in G => E \cup {x} \in G
  PROVE  SUBSET D \subseteq G
<1> DEFINE S == {n \in Nat : \A E \in SUBSET D : Cardinality(E) = n => E \in G}
<1>1. 0 \in S
  <2> SUFFICES ASSUME NEW E \in SUBSET D, Cardinality(E) = 0 PROVE E \in G
    OBVIOUS
  <2>1. IsFiniteSet(E)
    BY FS_Subset
  <2> QED
    BY <2>1, FS_EmptySet
<1>2. ASSUME NEW n \in Nat, n \in S PROVE n + 1 \in S
  <2> SUFFICES ASSUME NEW E \in SUBSET D, Cardinality(E) = n + 1 PROVE E \in G
    OBVIOUS
  <2>1. IsFiniteSet(E)
    BY FS_Subset
  <2>2. E # {}
    BY FS_EmptySet
  <2>3. PICK x \in E : TRUE
    BY <2>2
  <2>4. Cardinality(E \ {x}) = n
    <3>1. Cardinality(E \ {x}) = Cardinality(E) - 1
      BY <2>1, FS_RemoveElement
    <3>2. n + 1 - 1 = n
      OBVIOUS
    <3> QED
      BY <3>1, <3>2
  <2>5. E \ {x} \in G
    BY <1>2, <2>4
  <2>6. (E \ {x}) \cup {x} = E
    OBVIOUS
  <2> QED
    BY <2>5, <2>6
<1>3. Nat \subseteq S
  <2> HIDE DEF S
  <2> QED
    BY <1>1, <1>2, NatInductionSet
<1> SUFFICES ASSUME NEW E \in SUBSET D PROVE E \in G
  OBVIOUS
<1>4. Cardinality(E) \in Nat
  BY FS_Subset, FS_CardinalityType
<1> QED
  BY <1>3, <1>4

-----------------------------------------------------------------------------
(* The bytes behind bytes_buffered                                         *)

\* The bytes of the chunks s of a buffer, one by one: pairs of a chunk and the
\* number of the byte in it.
Bytes(buffer, s) == UNION {{i} \X (1 .. buffer[i].len) : i \in s}

\* Counting the bytes of one more chunk adds its length.
LEMMA BytesAdd ==
  ASSUME NEW buffer, NEW s, NEW i, i \notin s, buffer[i].len \in Nat,
         IsFiniteSet(Bytes(buffer, s))
  PROVE  /\ IsFiniteSet(Bytes(buffer, s \cup {i}))
         /\ Cardinality(Bytes(buffer, s \cup {i})) = Cardinality(Bytes(buffer, s)) + buffer[i].len
<1> DEFINE new == {i} \X (1 .. buffer[i].len)
           old == Bytes(buffer, s)
<1>1. IsFiniteSet(new) /\ Cardinality(new) = buffer[i].len
  <2>1. IsFiniteSet({i}) /\ Cardinality({i}) = 1
    BY FS_Singleton
  <2>2. PICK n \in Nat : n = buffer[i].len
    OBVIOUS
  <2>3. IsFiniteSet(1 .. n) /\ Cardinality(1 .. n) = n
    <3>1. 1 \in Int /\ n \in Int
      OBVIOUS
    <3>2. IsFiniteSet(1 .. n) /\ Cardinality(1 .. n) = IF 1 > n THEN 0 ELSE n - 1 + 1
      BY <3>1, FS_Interval
    <3> QED
      BY <3>2
  <2>4. /\ IsFiniteSet({i} \X (1 .. n))
        /\ Cardinality({i} \X (1 .. n)) = Cardinality({i}) * Cardinality(1 .. n)
    BY <2>1, <2>3, FS_Product
  <2>5. 1 * n = n
    OBVIOUS
  <2> QED
    BY <2>1, <2>2, <2>3, <2>4, <2>5
<1>2. Bytes(buffer, s \cup {i}) = old \cup new
  BY DEF Bytes
<1>3. old \cap new = {}
  BY DEF Bytes
<1>4. Cardinality(old) \in Nat
  BY FS_CardinalityType
<1>5. /\ IsFiniteSet(old \cup new)
      /\ Cardinality(old \cup new) = Cardinality(old) + Cardinality(new) - Cardinality(old \cap new)
  <2> HIDE DEF new
  <2> QED
    BY <1>1, FS_Union
<1>6. Cardinality({}) = 0
  BY FS_EmptySet
<1>7. PICK m \in Nat, n \in Nat : m = Cardinality(old) /\ n = Cardinality(new)
  BY <1>1, <1>4, FS_CardinalityType
<1>8. m + n - 0 = m + n
  OBVIOUS
<1> HIDE DEF new
<1> QED
  BY <1>1, <1>2, <1>3, <1>5, <1>6, <1>7, <1>8

\* The bytes of finitely many chunks are finitely many.
LEMMA BytesFinite ==
  ASSUME NEW buffer, NEW D, IsFiniteSet(D), \A i \in D : buffer[i].len \in Nat
  PROVE  \A s \in SUBSET D : IsFiniteSet(Bytes(buffer, s))
<1> DEFINE G == {s \in SUBSET D : IsFiniteSet(Bytes(buffer, s))}
<1>1. {} \in G
  <2>1. Bytes(buffer, {}) = {}
    BY DEF Bytes
  <2> QED
    BY <2>1, FS_EmptySet
<1>2. ASSUME NEW s \in SUBSET D, NEW x \in D \ s, s \in G PROVE s \cup {x} \in G
  BY <1>2, BytesAdd
<1>3. SUBSET D \subseteq G
  <2> HIDE DEF G
  <2> QED
    BY <1>1, <1>2, SubsetInduction
<1> QED
  BY <1>3

\* The sum over a buffer counts its bytes, whatever order it picks the chunks in.
LEMMA SumCountsBytes ==
  ASSUME NEW buffer, NEW D, D = DOMAIN buffer, IsFiniteSet(D), \A i \in D : buffer[i].len \in Nat
  PROVE  BytesIn(buffer) = Cardinality(Bytes(buffer, D))
<1> DEFINE pick(s) == CHOOSE x \in s : TRUE
           Sums(f) == f = [s \in SUBSET D |-> IF s = {} THEN 0
                                              ELSE buffer[pick(s)].len + f[s \ {pick(s)}]]
           counts == [s \in SUBSET D |-> Cardinality(Bytes(buffer, s))]
           sums == CHOOSE f : Sums(f)
<1>1. BytesIn(buffer) = sums[D]
  BY DEF BytesIn, MapThenSumSet, MapThenFoldSet
<1>2. Bytes(buffer, {}) = {} /\ Cardinality({}) = 0
  BY FS_EmptySet DEF Bytes
<1>3. ASSUME NEW s \in SUBSET D, NEW x \in s
      PROVE  counts[s] = buffer[x].len + counts[s \ {x}]
  <2>1. (s \ {x}) \cup {x} = s /\ s \ {x} \in SUBSET D
    OBVIOUS
  <2>2. IsFiniteSet(Bytes(buffer, s \ {x}))
    BY <2>1, BytesFinite
  <2>3. Cardinality(Bytes(buffer, s \ {x})) \in Nat
    BY <2>2, FS_CardinalityType
  <2>4. x \notin s \ {x} /\ buffer[x].len \in Nat
    OBVIOUS
  <2>5. Cardinality(Bytes(buffer, (s \ {x}) \cup {x}))
          = Cardinality(Bytes(buffer, s \ {x})) + buffer[x].len
    BY <2>2, <2>4, BytesAdd
  <2>6. \A m, n \in Nat : m + n = n + m
    OBVIOUS
  <2>7. counts[s] = Cardinality(Bytes(buffer, s))
        /\ counts[s \ {x}] = Cardinality(Bytes(buffer, s \ {x}))
    BY <2>1
  <2> HIDE DEF counts
  <2> QED
    BY <2>1, <2>3, <2>4, <2>5, <2>6, <2>7
<1>4. \A s \in SUBSET D : s # {} => pick(s) \in s
  OBVIOUS
<1> HIDE DEF pick
<1>5. Sums(counts)
  <2>1. ASSUME NEW s \in SUBSET D
        PROVE  counts[s] = IF s = {} THEN 0 ELSE buffer[pick(s)].len + counts[s \ {pick(s)}]
    <3>1. CASE s = {}
      BY <1>2, <3>1
    <3>2. CASE s # {}
      <4>1. pick(s) \in s
        BY <1>4, <3>2
      <4> HIDE DEF counts
      <4> QED
        BY <1>3, <3>2, <4>1
    <3> QED
      BY <3>1, <3>2
  <2> QED
    BY <2>1
<1>6. Sums(sums)
  <2> HIDE DEF Sums, counts
  <2> QED
    BY <1>5
<1>7. counts[{}] = 0
  BY <1>2
<1>14. counts[D] = Cardinality(Bytes(buffer, D))
  OBVIOUS
<1> HIDE DEF sums, counts
<1> DEFINE S == {n \in Nat : \A s \in SUBSET D : Cardinality(s) = n => sums[s] = counts[s]}
<1>8. 0 \in S
  <2> SUFFICES ASSUME NEW s \in SUBSET D, Cardinality(s) = 0 PROVE sums[s] = counts[s]
    OBVIOUS
  <2>1. IsFiniteSet(s)
    BY FS_Subset
  <2>2. s = {}
    BY <2>1, FS_EmptySet
  <2> QED
    BY <1>6, <1>7, <2>2
<1>9. ASSUME NEW n \in Nat, n \in S PROVE n + 1 \in S
  <2> SUFFICES ASSUME NEW s \in SUBSET D, Cardinality(s) = n + 1 PROVE sums[s] = counts[s]
    OBVIOUS
  <2>1. IsFiniteSet(s)
    BY FS_Subset
  <2>2. s # {}
    BY FS_EmptySet
  <2>3. PICK x \in s : x = pick(s)
    BY <1>4, <2>2
  <2>4. Cardinality(s \ {x}) = n
    <3>1. Cardinality(s \ {x}) = Cardinality(s) - 1
      BY <2>1, FS_RemoveElement
    <3>2. n + 1 - 1 = n
      OBVIOUS
    <3> QED
      BY <3>1, <3>2
  <2>5. sums[s \ {x}] = counts[s \ {x}]
    BY <1>9, <2>4
  <2>6. sums[s] = buffer[x].len + sums[s \ {x}]
    BY <1>6, <2>2, <2>3
  <2>7. counts[s] = buffer[x].len + counts[s \ {x}]
    BY <1>3
  <2> QED
    BY <2>5, <2>6, <2>7
<1>10. Nat \subseteq S
  <2> HIDE DEF S
  <2> QED
    BY <1>8, <1>9, NatInductionSet
<1>11. Cardinality(D) \in Nat
  BY FS_CardinalityType
<1>12. sums[D] = counts[D]
  BY <1>10, <1>11
<1> QED
  BY <1>1, <1>12, <1>14

\* The sum over a buffer is a number; nothing buffered is no byte.
LEMMA BytesInNat ==
  ASSUME NEW buffer, IsFiniteSet(DOMAIN buffer), \A i \in DOMAIN buffer : buffer[i].len \in Nat
  PROVE  BytesIn(buffer) \in Nat
<1>1. BytesIn(buffer) = Cardinality(Bytes(buffer, DOMAIN buffer))
  BY SumCountsBytes
<1>2. IsFiniteSet(Bytes(buffer, DOMAIN buffer))
  BY BytesFinite
<1> QED
  BY <1>1, <1>2, FS_CardinalityType

\* Nothing buffered is no byte.
LEMMA BytesInEmpty == IsFiniteSet(DOMAIN <<>>) /\ BytesIn(<<>>) = 0
<1> DEFINE none == <<>>
<1>1. DOMAIN none = {}
  OBVIOUS
<1>2. IsFiniteSet(DOMAIN none) /\ \A i \in DOMAIN none : none[i].len \in Nat
  BY <1>1, FS_EmptySet
<1>3. Bytes(none, DOMAIN none) = {}
  BY <1>1 DEF Bytes
<1> HIDE DEF none
<1>4. BytesIn(none) = Cardinality(Bytes(none, DOMAIN none))
  BY <1>2, SumCountsBytes
<1>5. BytesIn(none) = 0
  BY <1>3, <1>4, FS_EmptySet
<1> QED
  BY <1>2, <1>5 DEF none

\* A chunk that was not buffered yet adds its length to the sum.
LEMMA BytesInInsert ==
  ASSUME NEW buffer, IsFiniteSet(DOMAIN buffer), \A i \in DOMAIN buffer : buffer[i].len \in Nat,
         NEW key, key \notin DOMAIN buffer, NEW data, data.len \in Nat
  PROVE  /\ IsFiniteSet(DOMAIN Insert(buffer, key, data))
         /\ BytesIn(Insert(buffer, key, data)) = BytesIn(buffer) + data.len
<1> DEFINE new == Insert(buffer, key, data)
           D == DOMAIN buffer
<1>1. /\ DOMAIN new = D \cup {key}
      /\ new[key] = data
      /\ \A i \in D : new[i] = buffer[i]
  BY DEF Insert
<1> HIDE DEF new
<1>2. IsFiniteSet(DOMAIN new)
  BY <1>1, FS_AddElement
<1>3. \A i \in DOMAIN new : new[i].len \in Nat
  BY <1>1
<1>4. Bytes(new, D) = Bytes(buffer, D)
  BY <1>1 DEF Bytes
<1>5. IsFiniteSet(Bytes(new, D))
  BY <1>4, BytesFinite
<1>6. Cardinality(Bytes(new, D \cup {key})) = Cardinality(Bytes(new, D)) + new[key].len
  BY <1>1, <1>5, BytesAdd
<1>7. BytesIn(new) = Cardinality(Bytes(new, DOMAIN new))
  BY <1>2, <1>3, SumCountsBytes
<1>8. BytesIn(buffer) = Cardinality(Bytes(buffer, D))
  BY SumCountsBytes
<1> QED
  BY <1>1, <1>2, <1>4, <1>6, <1>7, <1>8 DEF new

\* BytesAccounted of one value, and what its induction needs: only finitely
\* many chunks are buffered, even if infinitely many can arrive.
Accounted(s) ==
  /\ IsFiniteSet(DOMAIN s.data_buffer)
  /\ IsFiniteSet(DOMAIN s.parity_buffer)
  /\ s.bytes_buffered = BytesIn(s.data_buffer) + BytesIn(s.parity_buffer)

\* What is buffered has a length.
LEMMA BufferedLengths ==
  ASSUME NEW s \in StateType
  PROVE  /\ \A i \in DOMAIN s.data_buffer : s.data_buffer[i].len \in Nat
         /\ \A j \in DOMAIN s.parity_buffer : s.parity_buffer[j].len \in Nat
<1>1. s.data_buffer \in DataBuffers /\ s.parity_buffer \in ParityBuffers
  BY DEF StateType
<1>2. \A i \in DOMAIN s.data_buffer : s.data_buffer[i] \in {packet.data : packet \in DataPackets}
  BY <1>1, BufferElim DEF DataBuffers
<1>3. \A j \in DOMAIN s.parity_buffer :
        s.parity_buffer[j] \in {packet.data : packet \in ParityPackets}
  BY <1>1, BufferElim DEF ParityBuffers
<1>4. /\ \A packet \in DataPackets : packet.data.len \in Nat
      /\ \A packet \in ParityPackets : packet.data.len \in Nat
  BY PacketFields DEF DataPackets, ParityPackets, DataPayload, ParityPayload
<1> QED
  BY <1>2, <1>3, <1>4

\* With nothing buffered the counter has to be 0.
LEMMA EmptyAccounted ==
  ASSUME NEW s, s.data_buffer = <<>>, s.parity_buffer = <<>>, s.bytes_buffered = 0
  PROVE  Accounted(s)
BY BytesInEmpty DEF Accounted

\* Moving on to another batch keeps the account.
LEMMA EnterAccounted ==
  ASSUME NEW s, Sound(s), Accounted(s), NEW batch \in Nat, NEW io,
         NEW t, t = EnterBatch(s, batch, io)
  PROVE  Accounted(t)
<1>1. CASE t = s
  BY <1>1
<1>2. CASE t = advance_to_batch(s, batch, io)
  <2>1. \/ /\ t.data_buffer = s.data_buffer /\ t.parity_buffer = s.parity_buffer
           /\ t.bytes_buffered = s.bytes_buffered
        \/ t.data_buffer = <<>> /\ t.parity_buffer = <<>> /\ t.bytes_buffered = 0
    BY <1>2, AdvanceFacts DEF Sound
  <2> QED
    BY <2>1, EmptyAccounted DEF Accounted
<1> QED
  BY <1>1, <1>2 DEF EnterBatch

\* A data chunk is added with its bytes, a duplicate with neither.
LEMMA BufferDataAccounted ==
  ASSUME NEW s, Sound(s), Accounted(s), NEW packet \in Packets, packet.type = "DATA",
         NEW t, t = buffer_data(s, packet)
  PROVE  Accounted(t)
<1> DEFINE new == Insert(s.data_buffer, packet.count, packet.data)
<1>1. s \in StateType /\ s.bytes_buffered \in Nat /\ packet.data.len \in Nat
  BY PacketFields DEF Sound, StateType, DataPayload
<1>2. CASE t = s \/ t = [s EXCEPT !.failed = TRUE]
  <2>1. /\ t.data_buffer = s.data_buffer /\ t.parity_buffer = s.parity_buffer
        /\ t.bytes_buffered = s.bytes_buffered
    BY <1>1, <1>2 DEF StateType
  <2> QED
    BY <2>1 DEF Accounted
<1>3. CASE /\ packet.count \notin DOMAIN s.data_buffer
           /\ t = [s EXCEPT !.bytes_buffered = @ + packet.data.len,
                            !.bytes_transferred = @ + packet.data.len,
                            !.data_buffer = new]
  <2>1. /\ t.data_buffer = new /\ t.parity_buffer = s.parity_buffer
        /\ t.bytes_buffered = s.bytes_buffered + packet.data.len
    <3> HIDE DEF new
    <3> QED
      BY <1>1, <1>3 DEF StateType
  <2>2. IsFiniteSet(DOMAIN new) /\ BytesIn(new) = BytesIn(s.data_buffer) + packet.data.len
    BY <1>1, <1>3, BufferedLengths, BytesInInsert DEF Accounted
  <2>3. PICK d \in Nat, p \in Nat, len \in Nat :
          d = BytesIn(s.data_buffer) /\ p = BytesIn(s.parity_buffer) /\ len = packet.data.len
    BY <1>1, BufferedLengths, BytesInNat DEF Accounted
  <2>4. d + p + len = d + len + p
    OBVIOUS
  <2> HIDE DEF new
  <2> QED
    BY <2>1, <2>2, <2>3, <2>4 DEF Accounted
<1> QED
  BY <1>2, <1>3 DEF buffer_data

\* So is a parity shard.
LEMMA BufferParityAccounted ==
  ASSUME NEW s, Sound(s), Accounted(s), NEW packet \in Packets, packet.type = "PARITY",
         NEW idx, NEW t, t = buffer_parity(s, packet, idx)
  PROVE  Accounted(t)
<1> DEFINE new == Insert(s.parity_buffer, idx, packet.data)
<1>1. s \in StateType /\ s.bytes_buffered \in Nat /\ packet.data.len \in Nat
  BY PacketFields DEF Sound, StateType, ParityPayload
<1>2. CASE t = s \/ t = [s EXCEPT !.failed = TRUE]
  <2>1. /\ t.data_buffer = s.data_buffer /\ t.parity_buffer = s.parity_buffer
        /\ t.bytes_buffered = s.bytes_buffered
    BY <1>1, <1>2 DEF StateType
  <2> QED
    BY <2>1 DEF Accounted
<1>3. CASE /\ idx \notin DOMAIN s.parity_buffer
           /\ t = [s EXCEPT !.bytes_buffered = @ + packet.data.len, !.parity_buffer = new]
  <2>1. /\ t.parity_buffer = new /\ t.data_buffer = s.data_buffer
        /\ t.bytes_buffered = s.bytes_buffered + packet.data.len
    <3> HIDE DEF new
    <3> QED
      BY <1>1, <1>3 DEF StateType
  <2>2. IsFiniteSet(DOMAIN new) /\ BytesIn(new) = BytesIn(s.parity_buffer) + packet.data.len
    BY <1>1, <1>3, BufferedLengths, BytesInInsert DEF Accounted
  <2>3. PICK d \in Nat, p \in Nat, len \in Nat :
          d = BytesIn(s.data_buffer) /\ p = BytesIn(s.parity_buffer) /\ len = packet.data.len
    BY <1>1, BufferedLengths, BytesInNat DEF Accounted
  <2>4. d + p + len = d + (p + len)
    OBVIOUS
  <2> HIDE DEF new
  <2> QED
    BY <2>1, <2>2, <2>3, <2>4 DEF Accounted
<1> QED
  BY <1>2, <1>3 DEF buffer_parity

\* Both chunk arms keep the account.
LEMMA ChunkAccounted ==
  ASSUME IInv, Accounted(state), NEW packet \in Packets, NEW io,
         HandleData(packet, io) \/ HandleParity(packet, io)
  PROVE  Accounted(state')
<1>1. CASE HandleData(packet, io)
  <2>1. PICK batch, s :
          /\ batch = batch_for_data(packet.count)
          /\ s = EnterBatch(state, batch, io)
          /\ packet.type = "DATA"
          /\ state' = s \/ state' = buffer_data(s, packet)
    BY <1>1 DEF HandleData
  <2>2. batch \in Nat
    BY <2>1, PacketFields, ProtoAssumption DEF batch_for_data
  <2>3. Sound(s) /\ Accounted(s)
    BY <2>1, <2>2, EnterSound, EnterAccounted DEF IInv
  <2> QED
    BY <2>1, <2>3, BufferDataAccounted
<1>2. CASE HandleParity(packet, io)
  <2>1. PICK batch, s, idx :
          /\ batch = batch_for_parity(packet.count)
          /\ s = EnterBatch(state, batch, io)
          /\ packet.type = "PARITY"
          /\ state' = s \/ state' = buffer_parity(s, packet, idx)
    BY <1>2 DEF HandleParity
  <2>2. batch \in Nat
    BY <2>1, PacketFields, ProtoAssumption DEF batch_for_parity
  <2>3. Sound(s) /\ Accounted(s)
    BY <2>1, <2>2, EnterSound, EnterAccounted DEF IInv
  <2> QED
    BY <2>1, <2>3, BufferParityAccounted
<1> QED
  BY <1>1, <1>2

\* Every step keeps the account: outside the chunk arms nothing is buffered.
LEMMA NextAccounted == IInv /\ Accounted(state) /\ [Next]_vars => Accounted(state')
<1> SUFFICES ASSUME IInv, Accounted(state), [Next]_vars PROVE Accounted(state')
  OBVIOUS
<1>1. ASSUME NEW s, \/ s = NewState
                    \/ \E path, hash, size, parity :
                         s = [NewState EXCEPT !.file_path = path, !.path_hash = hash,
                                              !.file_size = size, !.parity_per_batch = parity,
                                              !.current_batch = 0, !.output = TRUE]
      PROVE  Accounted(s)
  BY <1>1, EmptyAccounted DEF NewState
<1>2. ASSUME NEW packet \in Packets, Handle(packet)
      PROVE  Accounted(state')
  <2>1. ASSUME NEW io \in Io, HandleData(packet, io) \/ HandleParity(packet, io)
        PROVE  Accounted(state')
    BY <2>1, ChunkAccounted
  <2>2. CASE StartAgain(packet) \/ Ignore(packet)
    BY <2>2 DEF StartAgain, Ignore, vars
  <2>3. ASSUME \/ StartRejected(packet) \/ StartNotOpened(packet)
               \/ \E io \in Io : EndStored(packet, io) \/ EndFailed(packet, io)
        PROVE  Accounted(state')
    <3>1. state' = NewState
      BY <2>3, AbortedState
      DEF StartRejected, StartNotOpened, EndStored, EndFailed, reset_transfer
    <3> QED
      BY <1>1, <3>1
  <2>4. CASE StartOpened(packet)
    <3>1. state' = [NewState EXCEPT !.file_path = packet.path, !.path_hash = packet.path_hash,
                                    !.file_size = packet.count,
                                    !.parity_per_batch = packet.parity,
                                    !.current_batch = 0, !.output = TRUE]
      BY <2>4, AbortedState DEF StartOpened
    <3> QED
      BY <1>1, <3>1
  <2> QED
    BY <1>2, <2>1, <2>2, <2>3, <2>4 DEF Handle
<1>3. CASE Restart
  BY <1>1, <1>3 DEF Restart
<1>4. CASE UNCHANGED vars
  BY <1>4 DEF vars
<1> QED
  BY <1>2, <1>3, <1>4 DEF Next

\* BytesAccounted and what its induction needs, of the current state.
Account == Accounted(state)

\* The account holds throughout.
LEMMA AlwaysAccounted == Spec => []Account
<1>1. Init => Account
  BY EmptyAccounted DEF Init, NewState, Account
<1>2. IInv /\ Account /\ [Next]_vars => Account'
  BY NextAccounted DEF Account
<1> QED
  BY <1>1, <1>2, AlwaysIInv, PTL DEF Spec

\* The counter the memory cap is checked against is the sum of what is buffered:
\* whatever arrives, clear_batch, a duplicate, or a failed or aborted transfer
\* never leaves a byte behind in it or takes one too many out.
THEOREM CounterIsExact == Spec => []BytesAccounted
<1>1. Account => BytesAccounted
  BY DEF Account, Accounted, BytesAccounted
<1> QED
  BY <1>1, AlwaysAccounted, PTL

\* So the cap holds of the bytes themselves, not only of their counter: for no
\* sequence of packets does the receiver buffer more than BUFFER_BYTE_LIMIT.
THEOREM BytesAreBounded ==
  Spec => [](BytesIn(state.data_buffer) + BytesIn(state.parity_buffer) <= BUFFER_BYTE_LIMIT)
<1>1. IInv /\ Account =>
        BytesIn(state.data_buffer) + BytesIn(state.parity_buffer) <= BUFFER_BYTE_LIMIT
  BY DEF IInv, Sound, Account, Accounted
<1> QED
  BY <1>1, AlwaysIInv, AlwaysAccounted, PTL

=============================================================================
