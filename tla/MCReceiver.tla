----------------------------- MODULE MCReceiver -----------------------------
(***************************************************************************)
(* Instances of Receiver for TLC: the packets that senders of the versions *)
(* in Held[p] emit for each path p, delivered in any order and repeatedly. *)
(***************************************************************************)
EXTENDS ReceiverAudit, TLC

CONSTANTS
  a, b, bad,      \* two paths, and one is_safe_rel_path rejects
  u, v, w,        \* versions
  Held,           \* Held[p]: the versions a sender may hold under path p
  ParityFields    \* the parity counts a START may announce

\* With CHUNK_SIZE 2 and two chunks per batch: one batch whose last chunk is
\* short; two full batches and one of a single byte; a single full chunk.
MCFileSize == u :> 3 @@ v :> 9 @@ w :> 2

\* The versions all of whose packets arrive.
MCHeld == a :> {w} @@ b :> {v}

\* A chunk left of a transfer of another content under path a.
MCStray == {MkData(a, u, 0)}

Batches(x) == {n \in 0 .. TotalChunks(FileSize[x]) : batch_data_size(n, FileSize[x]) > 0}

\* What send_file_chunks emits for content x under path p.
TransferOf(p, x) ==
  LET size == FileSize[x]
  IN {MkStart(p, size, n) : n \in ParityFields}
     \cup {MkData(p, x, i) : i \in 0 .. TotalChunks(size) - 1}
     \cup UNION {{MkParity(p, [k \in 1 .. batch_data_size(n, size) |-> x], n, j) :
                    j \in 0 .. BATCH_PARITY_CHUNKS - 1} : n \in Batches(x)}
     \cup {MkEnd(p, TotalChunks(size))}

\* All of these, the stray chunk, a damaged chunk, and a START with an
\* unsafe path.
MCPackets ==
  UNION {TransferOf(p, x) : <<p, x>> \in {q \in Paths \X Versions : q[2] \in Held[q[1]]}}
  \cup MCStray
  \cup {[MkData(b, v, 0) EXCEPT !.hash_ok = FALSE], MkStart(bad, 1, BATCH_PARITY_CHUNKS)}

=============================================================================
