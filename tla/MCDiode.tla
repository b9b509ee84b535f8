------------------------------- MODULE MCDiode -------------------------------
(***************************************************************************)
(* Instances of Diode for TLC.                                             *)
(***************************************************************************)
EXTENDS Diode, TLC

CONSTANTS
  a, b,   \* paths
  u, v    \* versions

\* With CHUNK_SIZE 2 and two chunks per batch, u has a full batch and a short
\* one whose only chunk is a single byte; v is empty.
SizesTwoBatches == [x \in Versions |-> IF x = u THEN 5 ELSE 0]

\* Two contents of one full batch each.
SizesOneBatch == [x \in Versions |-> IF x = u THEN 4 ELSE 3]

\* Contents that differ only in their bytes.
SizesEqual == [x \in Versions |-> 3]

NoLoss == [k \in Kinds |-> 0]

\* As many losses as FEC and the repeated control packets make up for.
LossRecoverable ==
  "START" :> CONTROL_RESEND - 1 @@ "BATCH" :> BATCH_PARITY_CHUNKS @@ "END" :> CONTROL_RESEND - 1

\* The same for data and parity only.
LossOfData == [NoLoss EXCEPT !["BATCH"] = BATCH_PARITY_CHUNKS]

\* A burst may take a whole batch.
LossOfBatch == "START" :> 0 @@ "BATCH" :> BATCH_DATA_CHUNKS + BATCH_PARITY_CHUNKS @@ "END" :> 0

\* All copies of an END may be lost.
LossOfEnd == "START" :> 0 @@ "BATCH" :> BATCH_PARITY_CHUNKS @@ "END" :> CONTROL_RESEND

=============================================================================
