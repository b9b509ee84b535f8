------------------------------ MODULE Receiver ------------------------------
(***************************************************************************)
(* The worker thread of diode_receive (diode_receive/src/main.rs): one     *)
(* packet at a time is taken off the queue and handled to the end under    *)
(* the state and stats locks, so one packet is one action.                 *)
(*                                                                         *)
(* The packets arrive in ANY order, any number of times: every packet of   *)
(* the constant set Packets may be handled next.  This covers loss,        *)
(* duplication and reordering on the link; module Diode restricts it to    *)
(* what one sender emits over one fibre.                                   *)
(*                                                                         *)
(* Left out: log lines, the LCD, and stats.total_transferred, which only   *)
(* the LCD shows.  PKG_TYPE_UDP packets are handed to the thread of module *)
(* UdpForward and touch no variable of this module.                        *)
(***************************************************************************)
EXTENDS Proto, FiniteSets

CONSTANTS
  BUFFER_BYTE_LIMIT,  \* cap on the bytes buffered for one batch
  Packets,            \* the packets that can arrive
  IoOutcomes,         \* {TRUE}: file operations succeed; {TRUE, FALSE}: any may fail
  Hole, Garbage,      \* content of a chunk never written; bytes of no version
  MaxOutcomes         \* bound of the model: transfers counted in stats

ASSUME ReceiverAssumption ==
  /\ BUFFER_BYTE_LIMIT \in Nat
  /\ MaxOutcomes \in Nat
  /\ Packets \subseteq StartPacket \cup DataPacket \cup ParityPacket \cup EndPacket
  /\ IoOutcomes \subseteq BOOLEAN
  /\ Hole \notin Versions /\ Garbage \notin Versions /\ Hole # Garbage

VARIABLES
  state,    \* ReceiveState: the transfer in progress
  stats,    \* Stats: files_transferred, files_failed
  final,    \* final[p]: the file under its own name in the output directory
  partial,  \* partial[p]: <p>.partial
  marker,   \* the paths p for which the empty file <p>.failed exists
  missed    \* history variable, read by properties only.  missed[p]: how often
            \* a removal of p's file or marker failed since p's last START

vars == <<state, stats, final, partial, marker, missed>>

disk == <<final, partial, marker, missed>>

-----------------------------------------------------------------------------
(* State                                                                   *)

NewState ==
  [file_path |-> NoPath, path_hash |-> NoPath, file_size |-> 0, parity_per_batch |-> 0,
   current_batch |-> 0, data_buffer |-> <<>>, parity_buffer |-> <<>>,
   bytes_buffered |-> 0, bytes_transferred |-> 0, failed |-> FALSE, output |-> FALSE]

\* What open_output_file leaves on disk: set_len gives a file of holes.
FreshFile(size) ==
  [size |-> size, chunk |-> [i \in 0 .. TotalChunks(size) - 1 |-> Hole]]

Init ==
  /\ state = NewState
  /\ stats = [files_transferred |-> 0, files_failed |-> 0]
  /\ final = [p \in Paths |-> NoFile]
  /\ partial = [p \in Paths |-> NoFile]
  /\ marker = {}
  /\ missed = [p \in Paths |-> 0]

\* The outcome of the file operations a handler's result depends on.
Io == [write: IoOutcomes, rename: IoOutcomes]

\* The paths among ps for which an operation fails whose result is ignored.
Fails(ps) == {qs \in SUBSET ps : \A p \in ps : (p \notin qs) \in IoOutcomes}

Without(files, ps) == [p \in Paths |-> IF p \in ps THEN NoFile ELSE files[p]]

\* The paths among ps that have a file.
Present(files, ps) == {p \in ps : files[p] # NoFile}

\* One more failure to remove something for each of the paths ps.
More(counts, ps) == [p \in Paths |-> IF p \in ps THEN counts[p] + 1 ELSE counts[p]]

\* mark_failure for the paths ps: the file goes, a marker comes, if they can.
mark_failure(ps) ==
  \E kept \in Fails(Present(final, ps)), unmarked \in Fails(ps) :
    /\ final' = Without(final, ps \ kept)
    /\ marker' = marker \cup (ps \ unmarked)
    /\ missed' = More(missed, kept)

\* What removing the .partial files of ps leaves of all of them.
PartialsCleared(ps) ==
  {Without(partial, ps \ kept) : kept \in Fails(Present(partial, ps))}

-----------------------------------------------------------------------------
(* Admission and buffering of chunks                                       *)

\* A chunk of another file is accepted.
is_chunk_valid_AnyPath(packet, s) == packet.hash_ok

is_chunk_valid(packet, s) ==
  /\ packet.path_hash = s.path_hash
  /\ packet.type = "DATA" => packet.data.len \in 1 .. CHUNK_SIZE
  /\ packet.type = "PARITY" => packet.data.len = SHARD_SIZE
  /\ packet.hash_ok

Insert(buffer, key, data) ==
  [k \in DOMAIN buffer \cup {key} |-> IF k = key THEN data ELSE buffer[k]]

\* The cap is forgotten.
buffer_data_NoLimit(s, packet) ==
  IF packet.count \in DOMAIN s.data_buffer THEN s
  ELSE [s EXCEPT !.bytes_buffered = @ + packet.data.len,
                 !.bytes_transferred = @ + packet.data.len,
                 !.data_buffer = Insert(@, packet.count, packet.data)]

buffer_data(s, packet) ==
  IF packet.count \in DOMAIN s.data_buffer THEN s
  ELSE IF s.bytes_buffered + packet.data.len > BUFFER_BYTE_LIMIT
  THEN [s EXCEPT !.failed = TRUE]
  ELSE [s EXCEPT !.bytes_buffered = @ + packet.data.len,
                 !.bytes_transferred = @ + packet.data.len,
                 !.data_buffer = Insert(@, packet.count, packet.data)]

\* The shard is filed under its number in the file, not in the batch.
buffer_parity_AbsoluteKey(s, packet, idx_in_batch) ==
  [s EXCEPT !.bytes_buffered = @ + packet.data.len,
            !.parity_buffer = Insert(@, packet.count, packet.data)]

buffer_parity(s, packet, idx_in_batch) ==
  IF idx_in_batch \in DOMAIN s.parity_buffer THEN s
  ELSE IF s.bytes_buffered + packet.data.len > BUFFER_BYTE_LIMIT
  THEN [s EXCEPT !.failed = TRUE]
  ELSE [s EXCEPT !.bytes_buffered = @ + packet.data.len,
                 !.parity_buffer = Insert(@, idx_in_batch, packet.data)]

-----------------------------------------------------------------------------
(* finalize_current_batch                                                  *)

BatchStart(s) == s.current_batch * BATCH_DATA_CHUNKS

BatchChunks(s) ==
  LET n == batch_data_size(s.current_batch, s.file_size)
  IN {i \in BatchStart(s) .. BatchStart(s) + n - 1 : n > 0}

\* The shards the decoder is given: indices outside the code are skipped.
Originals(s) == DOMAIN s.data_buffer \cap BatchChunks(s)
Recoveries(s) == {j \in DOMAIN s.parity_buffer : j < s.parity_per_batch}

\* A full count of data chunks skips FEC, whichever chunks they are.
NeedsFec(s) == Cardinality(DOMAIN s.data_buffer) < batch_data_size(s.current_batch, s.file_size)

\* reed_solomon_simd: decode() wants as many shards as there are originals.
FecPossible(s) ==
  /\ s.parity_per_batch > 0
  /\ Cardinality(Originals(s)) + Cardinality(Recoveries(s))
       >= batch_data_size(s.current_batch, s.file_size)

\* reed_solomon_simd: what decode() restores for the missing chunk i.  It is
\* the encoded chunk if all the shards used belong to one codeword over as
\* many chunks as the decoder was built for, and meaningless bytes otherwise.
Restored(s, i) ==
  LET codes == {s.parity_buffer[j].code : j \in Recoveries(s)}
      Matches(c) ==
        /\ codes = {c}
        /\ Len(c) = batch_data_size(s.current_batch, s.file_size)
        /\ \A k \in Originals(s) : s.data_buffer[k].ver = c[k - BatchStart(s) + 1]
  IN IF \E c \in codes : Matches(c)
     THEN (CHOOSE c \in codes : Matches(c))[i - BatchStart(s) + 1]
     ELSE Garbage

\* Does finalize_current_batch return Ok?
finalize_ok(s, io) ==
  \/ batch_data_size(s.current_batch, s.file_size) = 0
  \/ /\ NeedsFec(s) => FecPossible(s)
     /\ s.output
     /\ \A i \in BatchChunks(s) :
          IF i \in DOMAIN s.data_buffer
          THEN s.data_buffer[i].len >= ChunkLen(s.file_size, i)
          ELSE NeedsFec(s)
     /\ io.write

\* The .partial file after finalize_current_batch returned Ok.  (A failing
\* call may have written some chunks first: the transfer is then failed, and
\* the .partial is removed, left lying or truncated, but never read.)
Written(s, file) ==
  [file EXCEPT !.chunk =
     [i \in DOMAIN @ |->
        IF i \notin BatchChunks(s) THEN @[i]
        ELSE IF i \in DOMAIN s.data_buffer THEN s.data_buffer[i].ver
        ELSE Restored(s, i)]]

\* The bytes of the finished batch stay accounted for.
clear_batch_KeepsBytes(s) == [s EXCEPT !.data_buffer = <<>>, !.parity_buffer = <<>>]

\* Only the data chunks of the finished batch are dropped.
clear_batch_KeepsParity(s) == [s EXCEPT !.data_buffer = <<>>, !.bytes_buffered = 0]

clear_batch(s) ==
  [s EXCEPT !.data_buffer = <<>>, !.parity_buffer = <<>>, !.bytes_buffered = 0]

\* Batches nothing arrived of are stepped over.
advance_to_batch_SkipsMissing(s, target_batch, io) ==
  IF ~finalize_ok(s, io) THEN [s EXCEPT !.failed = TRUE]
  ELSE [clear_batch(s) EXCEPT !.current_batch = target_batch]

\* advance_to_batch: the current batch is finalized, then the ones up to the
\* target.  Those have nothing buffered, so the first of them that is not
\* past the end of the file fails the transfer.
advance_to_batch(s, target_batch, io) ==
  LET next == s.current_batch + 1
  IN IF ~finalize_ok(s, io) THEN [s EXCEPT !.failed = TRUE]
     ELSE IF next < target_batch /\ batch_data_size(next, s.file_size) > 0
     THEN [clear_batch(s) EXCEPT !.current_batch = next, !.failed = TRUE]
     ELSE [clear_batch(s) EXCEPT !.current_batch = target_batch]

\* The common part of the DATA and PARITY arms: flip to a later batch first.
EnterBatch(s, batch, io) ==
  IF batch > s.current_batch THEN advance_to_batch(s, batch, io) ELSE s

WriteThrough(batch, io) ==
  IF batch > state.current_batch /\ finalize_ok(state, io)
     /\ batch_data_size(state.current_batch, state.file_size) > 0
  THEN partial' = [partial EXCEPT ![state.file_path] = Written(state, @)]
  ELSE UNCHANGED partial

-----------------------------------------------------------------------------
(* The arms of the worker's match                                          *)

Receiving == state.file_path # NoPath

Accepts(packet) == Receiving /\ ~state.failed /\ is_chunk_valid(packet, state)

HandleData(packet, io) ==
  LET batch == batch_for_data(packet.count)
      s == EnterBatch(state, batch, io)
  IN /\ packet.type = "DATA"
     /\ Accepts(packet)
     /\ state' = IF ~s.failed /\ batch = s.current_batch THEN buffer_data(s, packet) ELSE s
     /\ WriteThrough(batch, io)
     /\ UNCHANGED <<stats, final, marker, missed>>

HandleParity(packet, io) ==
  LET batch == batch_for_parity(packet.count)
      s == EnterBatch(state, batch, io)
      idx_in_batch == packet.count % BATCH_PARITY_CHUNKS
  IN /\ packet.type = "PARITY"
     /\ Accepts(packet)
     /\ state' = IF ~s.failed /\ batch = s.current_batch
                 THEN buffer_parity(s, packet, idx_in_batch) ELSE s
     /\ WriteThrough(batch, io)
     /\ UNCHANGED <<stats, final, marker, missed>>

\* The flag outlives the transfer it belongs to.
reset_transfer_KeepsFailed(s) == [NewState EXCEPT !.failed = s.failed]

\* The transfer is reported but not left.
reset_transfer_Missing(s) == s

\* The end of a transfer, for better or worse (who calls it counts it).
reset_transfer(s) == NewState

\* A repeated START gives a failed transfer another chance.
StartAgain_Revives(packet) ==
  /\ packet.type = "START"
  /\ packet.path = state.file_path
  /\ state' = [state EXCEPT !.failed = FALSE]
  /\ UNCHANGED <<stats, disk>>

\* new_file's early return: another copy of the START of this transfer.
StartAgain(packet) ==
  /\ packet.type = "START"
  /\ packet.path = state.file_path
  /\ UNCHANGED vars

\* new_file on a transfer still open: it is failed, its .partial removed.
Aborted == IF Receiving THEN {state.file_path} ELSE {}
AfterAbort == IF Receiving THEN reset_transfer(state) ELSE state
FailuresAfterAbort == stats.files_failed + (IF Receiving THEN 1 ELSE 0)

\* An old file of the path stays under its name until it is replaced.
FinalsCleared_KeepsOld(packet) == Aborted

\* The files a START takes away: the aborted one, and what the new path had.
FinalsCleared(packet) == Aborted \cup {packet.path}

\* What new_file does to files and markers when mark_failure is called for the
\* paths marked: for the aborted one, and for the new one if it cannot be opened.
\* A file of the new path that still stands then has survived a second removal.
ClearWay(packet, marked) ==
  \E kept \in Fails(Present(final, FinalsCleared(packet))), stale \in Fails(marker \cap {packet.path}),
     unmarked \in Fails(marked) :
    /\ final' = Without(final, FinalsCleared(packet) \ kept)
    /\ marker' = (marker \ ({packet.path} \ stale)) \cup (marked \ unmarked)
    /\ missed' = More(More(More([missed EXCEPT ![packet.path] = 0], kept),
                          kept \cap (marked \ Aborted)), stale)

\* A .partial that a crash left behind keeps its path locked.
NewStart_LeftoverBlocks(packet) ==
  /\ packet.type = "START"
  /\ packet.path # state.file_path
  /\ partial[packet.path] = NoFile

NewStart(packet) ==
  /\ packet.type = "START"
  /\ packet.path # state.file_path
  /\ stats.files_transferred + stats.files_failed < MaxOutcomes

\* new_file rejects the path: it is counted, but neither touched nor marked.
StartRejected(packet) ==
  /\ NewStart(packet)
  /\ ~is_safe_rel_path(packet.path)
  /\ state' = reset_transfer(AfterAbort)
  /\ stats' = [stats EXCEPT !.files_failed = FailuresAfterAbort + 1]
  /\ partial' \in PartialsCleared(Aborted)
  /\ mark_failure(Aborted)

\* open_output_file fails: the transfer is marked, and not entered.  What was
\* left of the .partial stays, or an empty one if it is set_len that failed.
StartNotOpened(packet) ==
  /\ NewStart(packet)
  /\ is_safe_rel_path(packet.path)
  /\ FALSE \in IoOutcomes
  /\ state' = AfterAbort
  /\ stats' = [stats EXCEPT !.files_failed = FailuresAfterAbort + 1]
  /\ \E left \in PartialsCleared(Aborted \cup {packet.path}) :
       \/ partial' = left
       \/ packet.count > 0 /\ partial' = [left EXCEPT ![packet.path] = FreshFile(0)]
  /\ ClearWay(packet, Aborted \cup {packet.path})

\* The .partial is created, or truncated if it could not be removed.
StartOpened(packet) ==
  /\ NewStart(packet)
  /\ is_safe_rel_path(packet.path)
  /\ TRUE \in IoOutcomes
  /\ state' = [AfterAbort EXCEPT !.file_path = packet.path, !.path_hash = packet.path_hash,
                                 !.file_size = packet.count,
                                 !.parity_per_batch = packet.parity,
                                 !.current_batch = 0, !.output = TRUE]
  /\ stats' = [stats EXCEPT !.files_failed = FailuresAfterAbort]
  /\ \E left \in PartialsCleared(Aborted) :
       partial' = [left EXCEPT ![packet.path] = FreshFile(packet.count)]
  /\ ClearWay(packet, Aborted)

\* finish_file finalizes the current batch and publishes the file.  The END
\* packet's path and count are not looked at.
FinishOk(io) == ~state.failed /\ finalize_ok(state, io) /\ io.rename

\* The last batch is not written before the file is renamed.
Completed_LastBatchMissing == partial[state.file_path]

\* The .partial that is renamed, the last batch written to it.
Completed == Written(state, partial[state.file_path])

\* Success is no reason to look for an old marker.
StaleMarkers_None == {}

\* The marker finish_file takes away when the file is published.
StaleMarkers == marker \cap {state.file_path}

EndStored(packet, io) ==
  /\ packet.type = "END"
  /\ Receiving
  /\ FinishOk(io)
  /\ final' = [final EXCEPT ![state.file_path] = Completed]
  /\ partial' = Without(partial, {state.file_path})
  /\ \E stale \in Fails(StaleMarkers) :
       /\ marker' = marker \ (StaleMarkers \ stale)
       /\ missed' = More(missed, stale)
  /\ stats' = [stats EXCEPT !.files_transferred = @ + 1]
  /\ state' = reset_transfer(state)

EndFailed(packet, io) ==
  /\ packet.type = "END"
  /\ Receiving
  /\ ~FinishOk(io)
  /\ partial' \in PartialsCleared({state.file_path})
  /\ mark_failure({state.file_path})
  /\ stats' = [stats EXCEPT !.files_failed = @ + 1]
  /\ state' = reset_transfer(state)

\* The remaining arm, and chunks that are not valid: nothing changes.
Ignore(packet) ==
  /\ \/ packet.type = "END" /\ ~Receiving
     \/ packet.type \in {"DATA", "PARITY"} /\ ~Accepts(packet)
  /\ UNCHANGED vars

Handle(packet) ==
  \/ \E io \in Io :
       \/ HandleData(packet, io)
       \/ HandleParity(packet, io)
       \/ EndStored(packet, io)
       \/ EndFailed(packet, io)
  \/ StartAgain(packet)
  \/ StartRejected(packet)
  \/ StartNotOpened(packet)
  \/ StartOpened(packet)
  \/ Ignore(packet)

\* The process is killed or panics and is started again by the service
\* manager; the output directory keeps whatever was in it.
Restart ==
  /\ state' = NewState
  /\ stats' = [files_transferred |-> 0, files_failed |-> 0]
  /\ UNCHANGED disk

Next == (\E packet \in Packets : Handle(packet)) \/ Restart

Spec == Init /\ [][Next]_vars

-----------------------------------------------------------------------------
(* Properties                                                              *)

StartPackets == {packet \in Packets : packet.type = "START"}
DataPackets == {packet \in Packets : packet.type = "DATA"}
ParityPackets == {packet \in Packets : packet.type = "PARITY"}

Buffers(keys, payloads) == UNION {[D -> payloads] : D \in SUBSET keys}

DataBuffers ==
  Buffers({packet.count : packet \in DataPackets}, {packet.data : packet \in DataPackets})

ParityBuffers ==
  Buffers(0 .. BATCH_PARITY_CHUNKS - 1, {packet.data : packet \in ParityPackets})

\* A file on disk: its announced size and, per chunk, whose bytes it holds.
FileOf(sizes) ==
  UNION {[size: {n}, chunk: [0 .. TotalChunks(n) - 1 -> Versions \cup {Hole, Garbage}]] : n \in sizes}

Files == FileOf({packet.count : packet \in StartPackets} \cup {0})

ASSUME FilesAssumption == NoFile \notin Files

StateType ==
  [file_path: Paths \cup {NoPath}, path_hash: PathHash,
   file_size: Nat, parity_per_batch: Nat, current_batch: Nat,
   data_buffer: DataBuffers, parity_buffer: ParityBuffers,
   bytes_buffered: Nat, bytes_transferred: Nat, failed: BOOLEAN, output: BOOLEAN]

\* Type invariant of the receiver's state and of its output directory.
TypeOK ==
  /\ state \in StateType
  /\ stats \in [files_transferred: Nat, files_failed: Nat]
  /\ final \in [Paths -> Files \cup {NoFile}]
  /\ partial \in [Paths -> Files \cup {NoFile}]
  /\ marker \subseteq Paths
  /\ missed \in [Paths -> Nat]

\* Between transfers every field is as ReceiveState::new() sets it.  new_file
\* relies on this: it sets neither the buffers, nor failed, nor the byte
\* counters, so anything a finished, aborted or failed transfer left there
\* would leak into the next file.
IdleClean == ~Receiving => state = NewState

\* What is buffered belongs to the transfer and the batch being collected:
\* late chunks of an earlier batch, and chunks of another file, never mix in.
BufferBelongs ==
  /\ \A i \in DOMAIN state.data_buffer :
       /\ batch_for_data(i) = state.current_batch
       /\ \E packet \in DataPackets :
            packet.path_hash = state.path_hash /\ packet.count = i /\ packet.data = state.data_buffer[i]
  /\ \A j \in DOMAIN state.parity_buffer :
       \E packet \in ParityPackets :
         /\ packet.path_hash = state.path_hash
         /\ batch_for_parity(packet.count) = state.current_batch
         /\ packet.count % BATCH_PARITY_CHUNKS = j
         /\ packet.data = state.parity_buffer[j]

\* A removal that fails once does not make the output directory contradict
\* itself: START and the end of the transfer both take old outcomes away, so a
\* published file stands beside a .failed marker only after two removals failed,
\* and while a path is being received something old of it can be seen only if
\* its START failed to take it away.
OneOutcome ==
  /\ \A p \in marker : final[p] # NoFile => missed[p] >= 2
  /\ Receiving => /\ \/ final[state.file_path] = NoFile /\ state.file_path \notin marker
                     \/ missed[state.file_path] >= 1
                  /\ partial[state.file_path] # NoFile
                  /\ state.output

\* The .partial of a transfer that has not failed has the announced size, holds
\* data in every chunk of every batch already left, and holes from the current
\* one on: no packet order makes the writer skip a chunk, seek past one, or
\* write into a batch before it is complete.
PartialTracksBatch ==
  Receiving /\ ~state.failed =>
    LET file == partial[state.file_path]
    IN /\ file.size = state.file_size
       /\ \A i \in DOMAIN file.chunk :
            (file.chunk[i] = Hole) <=> (batch_for_data(i) >= state.current_batch)

\* All packets of path p carry content x: what senders emit that hold nothing but
\* x under p, in any order, any number of times, damaged ones beside it.  A packet
\* whose digest does not match, and the packets of other paths, may carry anything.
SoleContent(p, x) ==
  \A packet \in Packets :
    /\ packet.type = "START" /\ packet.path = p =>
         packet.path_hash = p /\ packet.count = FileSize[x]
    /\ packet.type = "DATA" /\ packet.path_hash = p /\ packet.hash_ok => packet.data.ver = x
    /\ packet.type = "PARITY" /\ packet.path_hash = p /\ packet.hash_ok =>
         packet.data.code =
           [k \in 1 .. batch_data_size(batch_for_parity(packet.count), FileSize[x]) |-> x]

\* The file is content x in the batches up to last, and untouched after them.
ExactUpTo(file, x, last) ==
  /\ file.size = FileSize[x]
  /\ \A i \in DOMAIN file.chunk : file.chunk[i] = IF batch_for_data(i) <= last THEN x ELSE Hole

\* Where a path has one content, whatever is published under it is that content
\* up to some batch and untouched after it: no chunk is ever misplaced, taken
\* from another file, or reconstructed wrongly, in any order of arrival.
PublishedIsExactPrefix ==
  \A p \in Paths, x \in Versions : SoleContent(p, x) /\ final[p] # NoFile =>
    \E last \in 0 .. TotalChunks(FileSize[x]) : ExactUpTo(final[p], x, last)

\* The cap on buffered memory, and the counter it is checked against, hold for
\* every packet sequence.
WithinBufferLimit == state.bytes_buffered <= BUFFER_BYTE_LIMIT

\* A published file is replaced by way of its removal: somebody who reads the
\* output directory sees a file change under its name only if removing the old
\* one failed at the START.
PublishedNeverRewritten ==
  [][\A p \in Paths : final[p] # NoFile /\ final'[p] \notin {final[p], NoFile} =>
       missed[p] >= 1]_vars

\* A transfer that failed stays failed until it is reported: a later packet of
\* the same path, a repeated START included, can not bring it back, and nothing
\* of it is ever published.
FailureIsFinal ==
  [][Receiving /\ state.failed =>
       /\ final'[state.file_path] \in {final[state.file_path], NoFile}
       /\ state'.file_path = state.file_path => state'.failed]_vars

Contract == INSTANCE DeliveryContract WITH
  Contents <- Files,
  DirectoryReliable <- (IoOutcomes = {TRUE}),
  inflight <- state.file_path,
  published <- final,
  flagged <- marker,
  ended <- [well |-> stats.files_transferred, badly |-> stats.files_failed]

\* Whatever packets arrive, the output directory and the counters evolve as
\* DeliveryContract says: a file shows up whole and only at the end of its own
\* transfer, and no transfer ends without being counted.
RefinesContract == Contract!Spec

=============================================================================
