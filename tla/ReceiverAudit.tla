--------------------------- MODULE ReceiverAudit ---------------------------
(***************************************************************************)
(* The step-by-step computations of the receiver that module Receiver puts *)
(* in closed form or keeps a running count of, written out as the code has *)
(* them, to hold the two against each other in every reachable state.      *)
(***************************************************************************)
EXTENDS Receiver, FiniteSetsExt

CONSTANT MaxTarget  \* bound of the model: the highest batch a chunk may ask for

ASSUME AuditAssumption == MaxTarget \in Nat

-----------------------------------------------------------------------------
(* The loop of advance_to_batch                                            *)

\* One round: the loop's condition, finalize_current_batch, and the step.
AdvanceRound(s, target_batch, io) ==
  IF s.failed \/ s.current_batch >= target_batch THEN s
  ELSE IF ~finalize_ok(s, io) THEN [s EXCEPT !.failed = TRUE]
  ELSE [clear_batch(s) EXCEPT !.current_batch = @ + 1]

\* The loop: a round fails the transfer or comes one batch closer to the
\* target, so it has ended after as many rounds as batches lie between.
AdvanceLoop(s, target_batch, io) ==
  LET after[k \in Nat] ==
        IF k = 0 THEN s ELSE AdvanceRound(after[k - 1], target_batch, io)
  IN after[target_batch - s.current_batch]

\* From every reachable state and for every target, one that lies several
\* batches ahead or past the end of the file included, the closed form of
\* advance_to_batch computes what its loop computes, and there the loop ends.
AdvanceIsLoop ==
  Receiving /\ ~state.failed =>
    \A target \in state.current_batch + 1 .. MaxTarget, io \in Io :
      LET reached == advance_to_batch(state, target, io)
      IN /\ reached = AdvanceLoop(state, target, io)
         /\ AdvanceRound(reached, target, io) = reached

-----------------------------------------------------------------------------
(* The bytes behind the counter                                            *)

\* The bytes a buffer really holds.
BytesIn(buffer) == MapThenSumSet(LAMBDA i : buffer[i].len, DOMAIN buffer)

\* bytes_buffered, the counter the memory cap is checked against, is the sum
\* of the lengths of what is buffered, across batch flips, duplicates, failed
\* and aborted transfers.
BytesAccounted ==
  state.bytes_buffered = BytesIn(state.data_buffer) + BytesIn(state.parity_buffer)

=============================================================================
