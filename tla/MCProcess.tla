------------------------------ MODULE MCProcess ------------------------------
(***************************************************************************)
(* An instance of Process for TLC: a count field of one digit, and a file  *)
(* whose size has two.                                                     *)
(***************************************************************************)
EXTENDS Process, TLC

CONSTANTS
  a, z,        \* two paths: z is a with a digit in front
  big, small   \* contents

MCFileSize == big :> 12 @@ small :> 3

Held == a :> big @@ z :> small

Chunks(p) ==
  {MkData(p, Held[p], i) : i \in 0 .. TotalChunks(FileSize[Held[p]]) - 1}

\* One shard per batch; a batch is as long as the file here.
Shards(p) ==
  {MkParity(p, [k \in 1 .. TotalChunks(FileSize[Held[p]]) |-> Held[p]], 0, 0)}

\* What the sender emits for the file p.
TransferOf(p) ==
  {MkStart(p, FileSize[Held[p]], BATCH_PARITY_CHUNKS), MkEnd(p, TotalChunks(FileSize[Held[p]]))}
  \cup Chunks(p) \cup Shards(p)

MCSent == UNION {TransferOf(p) : p \in Paths}

MCPayloads == {packet.data : packet \in UNION {Chunks(p) \cup Shards(p) : p \in Paths}}

\* Letters are numbers from 20 on.  The digit in front of z is the one the
\* parity count ends in, so that z is what a START of a with too large a size
\* is mistaken for.  The bytes of a chunk tell its content, those
\* of a shard the contents it was computed over.
Letter(x) == IF x = big THEN 30 ELSE 40

MCImage ==
  [x \in Paths \cup MCPayloads |->
     IF x = a THEN <<20>>
     ELSE IF x = z THEN <<BATCH_PARITY_CHUNKS % 10, 20>>
     ELSE IF "ver" \in DOMAIN x THEN [k \in 1 .. x.len |-> Letter(x.ver)]
     ELSE [k \in 1 .. x.len |-> 1 + Letter(x.code[1])]]

\* The digest of a ends in a digit, as that of a real path may.
MCDigest ==
  [x \in Paths \cup MCPayloads |->
     IF x = a THEN <<50, 5>>
     ELSE IF x = z THEN <<51, 50>>
     ELSE <<60 + x.len, MCImage[x][1]>>]

\* What the sender emits, a datagram of another kind, and two that do not decode.
MCDatagrams ==
  {Encoded(packet) : packet \in MCSent}
  \cup {<<4, 1>> \o EMPTY_HASH \o EMPTY_HASH, <<0, 1>>, <<0, 20>> \o EMPTY_HASH \o EMPTY_HASH}

-----------------------------------------------------------------------------
(* A property of this instance                                             *)

\* A file whose size does not fit the count field is never published, neither
\* under its own name nor under the one its START is mistaken for; there, only
\* the file that belongs there is ever published.
OversizeNeverPublished ==
  \A p \in Paths : final[p] # NoFile =>
    /\ FileSize[Held[p]] < Pow10[COUNT_DIGITS]
    /\ final[p] = [size |-> FileSize[Held[p]],
                   chunk |-> [i \in 0 .. TotalChunks(FileSize[Held[p]]) - 1 |-> Held[p]]]

=============================================================================
