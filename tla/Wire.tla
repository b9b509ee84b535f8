-------------------------------- MODULE Wire --------------------------------
(***************************************************************************)
(* The bytes of a packet: encode_packet_into and encode_parity_field       *)
(* (diode_common/src/proto.rs), decode_packet (diode_receive).             *)
(*                                                                         *)
(* A datagram is a sequence of characters, which are numbers here: 0 to 9  *)
(* are the digits, anything above is another character.  What a path, a    *)
(* chunk or a shard looks like, and the digest of that, are parameters.    *)
(***************************************************************************)
EXTENDS Proto

CONSTANTS
  COUNT_DIGITS,  \* characters of the count field
  HASH_LEN,      \* characters of a hash field
  MAX_U64,       \* largest number parse::<u64> accepts
  Payloads,      \* the chunks and shards that are sent
  Image,         \* Image[x]: the characters of a path or payload x
  Digest,        \* Digest[x]: the HASH_LEN characters of the MD5 of Image[x]
  NoPacket       \* None

AllPaths == Paths \cup UnsafePaths

\* 10^n, what the digit with n digits behind it counts.
Pow10[n \in Nat] == IF n = 0 THEN 1 ELSE 10 * Pow10[n - 1]

\* Every number with COUNT_DIGITS digits is a u64, and every u64 has at most
\* HASH_LEN digits.
ASSUME WireAssumption ==
  /\ COUNT_DIGITS \in Nat \ {0} /\ HASH_LEN \in Nat \ {0} /\ MAX_U64 \in Nat
  /\ \A S \in {AllPaths, Payloads} : \A x, y \in S :
       /\ Image[x] \in Seq(Nat)
       /\ Digest[x] \in Seq(Nat) /\ Len(Digest[x]) = HASH_LEN
       /\ x # y => Image[x] # Image[y] /\ Digest[x] # Digest[y]
  /\ Pow10[COUNT_DIGITS] <= MAX_U64 + 1 /\ MAX_U64 < Pow10[HASH_LEN]
  /\ NoPacket \notin [pkg_type: Nat, count: Nat, path_hash: Seq(Nat), data_hash: Seq(Nat),
                     data: Seq(Nat)]

PKG_TYPE == [START |-> 0, DATA |-> 1, END |-> 2, PARITY |-> 3]

HEADER_SIZE == 1 + COUNT_DIGITS + 2 * HASH_LEN

-----------------------------------------------------------------------------
(* Sender                                                                  *)

\* Numbers are not padded: format "{}".
Padded_Unpadded(n, width) ==
  LET d == CHOOSE k \in 1 .. n + 1 : n < Pow10[k] /\ (k = 1 \/ n >= Pow10[k - 1])
  IN [i \in 1 .. d |-> (n \div Pow10[d - i]) % 10]

\* format "{:0width}": zeros fill up to the width; a longer number is not cut.
Padded(n, width) ==
  LET d == CHOOSE k \in width .. width + n : n < Pow10[k] /\ (k = width \/ n >= Pow10[k - 1])
  IN [i \in 1 .. d |-> (n \div Pow10[d - i]) % 10]

encode_parity_field(parity_count) == Padded(parity_count, HASH_LEN)

EMPTY_HASH == Padded(0, HASH_LEN)

encode_packet_into(pkg_type, count_or_filesize, path_hash, data_hash, payload) ==
  <<pkg_type>> \o Padded(count_or_filesize, COUNT_DIGITS) \o path_hash \o data_hash \o payload

\* The datagram the sender makes of each kind of packet.
Encoded(packet) ==
  CASE packet.type = "START" ->
         encode_packet_into(PKG_TYPE.START, packet.count, Digest[packet.path],
                            encode_parity_field(packet.parity), Image[packet.path])
    [] packet.type = "END" ->
         encode_packet_into(PKG_TYPE.END, packet.count, EMPTY_HASH, EMPTY_HASH, Image[packet.path])
    [] packet.type \in {"DATA", "PARITY"} ->
         encode_packet_into(PKG_TYPE[packet.type], packet.count, Digest[packet.path_hash],
                            Digest[packet.data], Image[packet.data])

-----------------------------------------------------------------------------
(* Receiver                                                                *)

Value(s) == LET upto[i \in 0 .. Len(s)] == IF i = 0 THEN 0 ELSE 10 * upto[i - 1] + s[i]
            IN upto[Len(s)]

\* parse::<u64> succeeds.
Parses(s) == (\A i \in DOMAIN s : s[i] < 10) /\ Value(s) <= MAX_U64

decode_parity_field(s) == IF Parses(s) THEN Value(s) ELSE 0

\* The fields of a datagram, cut at fixed places.
decode_packet(raw) ==
  LET Field(from, len) == SubSeq(raw, from + 1, from + len)
      count == Field(1, COUNT_DIGITS)
  IN IF Len(raw) < HEADER_SIZE \/ raw[1] > 9 \/ ~Parses(count) THEN NoPacket
     ELSE [pkg_type |-> raw[1],
           count |-> Value(count),
           path_hash |-> Field(1 + COUNT_DIGITS, HASH_LEN),
           data_hash |-> Field(1 + COUNT_DIGITS + HASH_LEN, HASH_LEN),
           data |-> Field(HEADER_SIZE, Len(raw) - HEADER_SIZE)]

\* Reading a field back: what it is the image or the digest of, if anything.
Named(image) == {p \in AllPaths : Image[p] = image}
Digested(hash) == {p \in AllPaths : Digest[p] = hash}
Carried(image) == {x \in Payloads : Image[x] = image}
OneOf(S, none) == IF S = {} THEN none ELSE CHOOSE x \in S : TRUE

\* What the arms of the worker's match make of the fields.  Bytes that are no
\* chunk or shard of the sender do not match any digest it sends.
Understood(f) ==
  LET path_hash == OneOf(Digested(f.path_hash), NoPath)
      carried == OneOf(Carried(f.data), [len |-> Len(f.data)])
  IN CASE f.pkg_type = PKG_TYPE.START ->
            [type |-> "START", path |-> OneOf(Named(f.data), NoPath), path_hash |-> path_hash,
             count |-> f.count, parity |-> decode_parity_field(f.data_hash)]
       [] f.pkg_type = PKG_TYPE.END -> MkEnd(OneOf(Named(f.data), NoPath), f.count)
       [] f.pkg_type \in {PKG_TYPE.DATA, PKG_TYPE.PARITY} ->
            [type |-> IF f.pkg_type = PKG_TYPE.DATA THEN "DATA" ELSE "PARITY",
             path_hash |-> path_hash, count |-> f.count, data |-> carried,
             hash_ok |-> carried \in Payloads /\ Digest[carried] = f.data_hash]

\* The datagrams whose number fits into its field.
FitsField(packet) == packet.count < Pow10[COUNT_DIGITS]

=============================================================================
