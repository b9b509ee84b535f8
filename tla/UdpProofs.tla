------------------------------ MODULE UdpProofs ------------------------------
(***************************************************************************)
(* Proofs about UdpForward, for every set of datagrams and every order,    *)
(* loss and repetition of their fragments, and about UdpPath, for every    *)
(* number of copies, capacity of the fibre and number of losses.           *)
(***************************************************************************)
EXTENDS UdpPath, SequenceTheorems, TLAPS

-----------------------------------------------------------------------------
(* Fragments as slices of their datagram                                   *)

\* What can arrive: fragments of datagrams, and what visible damage makes of them.
Arrived == {packet \in Fragment : Genuine(packet) \/ Malformed(packet)}

\* A chunk number below the number of chunks begins inside the datagram.
LEMMA ChunkInside ==
  ASSUME NEW L \in Nat, NEW C \in Nat \ {0}, NEW k \in Nat, k < (L + C - 1) \div C
  PROVE  k * C < L
<1> DEFINE q == (L + C - 1) \div C
<1>1. q \in Nat /\ q * C <= L + C - 1
  BY SMT
<1>2. k + 1 <= q
  BY <1>1
<1>3. (k + 1) * C <= q * C
  BY <1>1, <1>2, SMT
<1>4. (k + 1) * C = k * C + C
  BY SMT
<1> QED
  BY <1>1, <1>3, <1>4, SMT

\* A genuine fragment is the slice of its datagram that begins at count *
\* CHUNK_SIZE, and only the last one is shorter than CHUNK_SIZE.
LEMMA GenuineSlice ==
  ASSUME NEW packet \in Fragment, Genuine(packet)
  PROVE  LET whole == Content[packet.id]
             from == packet.count * CHUNK_SIZE
             n == Len(packet.data)
         IN /\ whole \in Seq(Bytes) /\ packet.size = Len(whole)
            /\ from \in Nat /\ n \in 1 .. CHUNK_SIZE /\ from + n <= Len(whole)
            /\ from + n < Len(whole) => n = CHUNK_SIZE
            /\ \A i \in 1 .. n : packet.data[i] = whole[from + i]
<1> DEFINE whole == Content[packet.id]
           from == packet.count * CHUNK_SIZE
           rest == Len(whole) - from
           to == from + (IF rest < CHUNK_SIZE THEN rest ELSE CHUNK_SIZE)
<1>1. whole \in Seq(Bytes) /\ Len(whole) \in Nat /\ packet.count \in Nat /\ CHUNK_SIZE \in Nat \ {0}
  BY UdpAssumption DEF Fragment
<1>2. /\ packet.count < (Len(whole) + CHUNK_SIZE - 1) \div CHUNK_SIZE
      /\ packet = [id |-> packet.id, count |-> packet.count, size |-> Len(whole),
                   data |-> SubSeq(whole, from + 1, to)]
  BY DEF Genuine, MkFragment, ChunkOf, ChunkCount
<1>3. from < Len(whole)
  BY <1>1, <1>2, ChunkInside
<1>4. from \in Nat
  BY <1>1, SMT
<1>5. packet.size = Len(whole) /\ packet.data = SubSeq(whole, from + 1, to)
  BY <1>2
<1>6. /\ to \in Nat /\ to > from /\ to <= Len(whole) /\ to - from \in 1 .. CHUNK_SIZE
      /\ to < Len(whole) => to - from = CHUNK_SIZE
  <2> HIDE DEF whole, from
  <2>1. to = from + (IF Len(whole) - from < CHUNK_SIZE THEN Len(whole) - from ELSE CHUNK_SIZE)
    OBVIOUS
  <2> HIDE DEF to
  <2> DEFINE L == Len(whole)
  <2>2. L \in Nat /\ CHUNK_SIZE \in Nat \ {0} /\ from \in Nat /\ from < L
    BY <1>1, <1>3, <1>4
  <2>3. to = from + (IF L - from < CHUNK_SIZE THEN L - from ELSE CHUNK_SIZE)
    BY <2>1
  <2> HIDE DEF L
  <2>4. CASE L - from < CHUNK_SIZE
    <3>1. to = from + (L - from)
      BY <2>3, <2>4
    <3> QED
      BY <2>2, <2>4, <3>1 DEF L
  <2>5. CASE ~(L - from < CHUNK_SIZE)
    <3>1. to = from + CHUNK_SIZE
      BY <2>3, <2>5
    <3> QED
      BY <2>2, <2>5, <3>1 DEF L
  <2> QED
    BY <2>4, <2>5
<1> HIDE DEF to, from, whole
<1>7. Len(packet.data) = to - from
      /\ \A i \in 1 .. to - from : packet.data[i] = whole[from + i]
  BY <1>1, <1>4, <1>5, <1>6, SMT
<1>8. \A i \in 1 .. Len(packet.data) : packet.data[i] = whole[from + i]
  BY <1>7
<1>9. from + Len(packet.data) = to /\ Len(packet.data) \in 1 .. CHUNK_SIZE
  BY <1>1, <1>4, <1>6, <1>7, SMT
<1>10. /\ from + Len(packet.data) <= Len(whole)
       /\ from + Len(packet.data) < Len(whole) => Len(packet.data) = CHUNK_SIZE
  BY <1>6, <1>7, <1>9
<1> QED
  BY <1>1, <1>4, <1>5, <1>8, <1>9, <1>10 DEF whole, from

-----------------------------------------------------------------------------
(* The invariant                                                           *)

FlowType ==
  [current_id: Datagrams, full_packet: Seq(Bytes), previous_count: Nat, expected_size: Nat]

\* A flow that is the beginning of its datagram, possibly all of it, made of
\* the fragments up to previous_count.
Beginning(f) ==
  /\ f \in FlowType
  /\ f.expected_size = Len(Content[f.current_id])
  /\ f.expected_size <= UDP_MAX_FORWARD_BYTES
  /\ Len(f.full_packet) \in 1 .. f.expected_size
  /\ Len(f.full_packet) < f.expected_size =>
       Len(f.full_packet) = (f.previous_count + 1) * CHUNK_SIZE
  /\ \A i \in 1 .. Len(f.full_packet) : f.full_packet[i] = Content[f.current_id][i]

\* Strengthens FlowIsPrefix by the types and by the cap on the size.
UdpInv ==
  /\ fwd = NoFlow \/ (Beginning(fwd) /\ Len(fwd.full_packet) < fwd.expected_size)
  /\ stale \in BOOLEAN
  /\ OnlyWholeDatagrams

\* A flow with as many bytes as its datagram is the datagram.
LEMMA CompleteIsWhole ==
  ASSUME NEW f, Beginning(f), Len(f.full_packet) = f.expected_size
  PROVE  f.full_packet = Content[f.current_id]
<1>1. f.full_packet \in Seq(Bytes) /\ Content[f.current_id] \in Seq(Bytes)
  BY UdpAssumption DEF Beginning, FlowType
<1>2. Len(f.full_packet) = Len(Content[f.current_id])
  BY DEF Beginning
<1>3. \A i \in 1 .. Len(f.full_packet) : f.full_packet[i] = Content[f.current_id][i]
  BY DEF Beginning
<1> QED
  BY <1>1, <1>2, <1>3, SeqEqual

\* Accepting a fragment keeps the invariant.
LEMMA AcceptInv ==
  ASSUME UdpInv, NEW f, Beginning(f), Accept(f)
  PROVE  UdpInv'
<1>1. stale' \in BOOLEAN
  BY DEF Accept
<1>2. CASE Len(f.full_packet) = f.expected_size
  <2>1. fwd' = NoFlow
    BY <1>2 DEF Accept, reset
  <2>2. sent' = sent \cup {f.full_packet} \/ sent' = sent
    BY <1>2 DEF Accept
  <2>3. f.full_packet = Content[f.current_id] /\ f.current_id \in Datagrams
    BY <1>2, CompleteIsWhole DEF Beginning, FlowType
  <2>4. Len(f.full_packet) \in 1 .. UDP_MAX_FORWARD_BYTES
    BY <1>2, UdpAssumption DEF Beginning
  <2>5. OnlyWholeDatagrams'
    BY <2>2, <2>3, <2>4 DEF OnlyWholeDatagrams, UdpInv
  <2> QED
    BY <1>1, <2>1, <2>5 DEF UdpInv
<1>3. CASE Len(f.full_packet) # f.expected_size
  <2>1. fwd' = f /\ sent' = sent
    BY <1>3 DEF Accept
  <2>2. Len(f.full_packet) < f.expected_size
    BY <1>3 DEF Beginning
  <2>3. Beginning(fwd')
    BY <2>1
  <2>4. Beginning(fwd)' <=> Beginning(fwd')
    BY DEF Beginning
  <2>5. OnlyWholeDatagrams'
    BY <2>1 DEF OnlyWholeDatagrams, UdpInv
  <2> QED
    BY <1>1, <2>1, <2>2, <2>3, <2>4, <2>5 DEF UdpInv
<1> QED
  BY <1>2, <1>3

\* A first fragment begins a flow, after whatever reset left.
LEMMA FirstFragmentInv ==
  ASSUME UdpInv, NEW packet \in Arrived, FirstFragment(packet)
  PROVE  UdpInv'
<1> DEFINE f == [reset(fwd) EXCEPT !.current_id = packet.id, !.expected_size = packet.size,
                                   !.full_packet = packet.data]
<1>1. packet \in Fragment /\ (Genuine(packet) \/ Malformed(packet))
  BY DEF Arrived
<1>2. packet.count = 0 /\ ValidFirst(packet) /\ Accept(f)
  BY DEF FirstFragment
<1>3. Genuine(packet)
  BY <1>1, <1>2 DEF Malformed
<1>4. /\ f \in FlowType
      /\ f.current_id = packet.id /\ f.full_packet = packet.data
      /\ f.previous_count = 0 /\ f.expected_size = packet.size
  BY <1>1 DEF reset, NoFlow, Fragment, FlowType
<1> HIDE DEF f
<1>5. packet.count * CHUNK_SIZE = 0 /\ CHUNK_SIZE \in Nat \ {0}
  BY <1>2, UdpAssumption
<1> DEFINE whole == Content[packet.id]
<1>6. /\ whole \in Seq(Bytes) /\ packet.size = Len(whole)
      /\ Len(packet.data) \in 1 .. CHUNK_SIZE /\ 0 + Len(packet.data) <= Len(whole)
      /\ 0 + Len(packet.data) < Len(whole) => Len(packet.data) = CHUNK_SIZE
      /\ \A i \in 1 .. Len(packet.data) : packet.data[i] = whole[0 + i]
  BY <1>1, <1>3, <1>5, GenuineSlice
<1>7. /\ packet.id \in Datagrams /\ packet.data \in Seq(Bytes) /\ packet.size \in Nat
      /\ packet.size <= UDP_MAX_FORWARD_BYTES
  BY <1>1, <1>2 DEF Fragment, ValidFirst
<1> HIDE DEF whole
<1>8. /\ Len(packet.data) \in 1 .. packet.size
      /\ Len(packet.data) < packet.size => Len(packet.data) = (0 + 1) * CHUNK_SIZE
      /\ \A i \in 1 .. Len(packet.data) : packet.data[i] = whole[i]
  BY <1>5, <1>6, <1>7
<1>9. Beginning(f)
  BY <1>4, <1>6, <1>7, <1>8 DEF Beginning, whole
<1> QED
  BY <1>2, <1>9, AcceptInv

\* The next fragment of the flow extends it by the next slice.
LEMMA NextFragmentInv ==
  ASSUME UdpInv, NEW packet \in Arrived, NextFragment(packet)
  PROVE  UdpInv'
<1> DEFINE f == [fwd EXCEPT !.full_packet = @ \o packet.data, !.previous_count = packet.count]
           whole == Content[packet.id]
           old == fwd.full_packet
           n == Len(old)
           m == Len(packet.data)
<1>1. packet \in Fragment /\ (Genuine(packet) \/ Malformed(packet))
  BY DEF Arrived
<1>2. IsNext(packet) /\ Fits(packet) /\ Accept(f)
  BY DEF NextFragment
<1>3. packet.id \in Datagrams /\ packet.data \in Seq(Bytes) /\ packet.count \in Nat
  BY <1>1 DEF Fragment
<1>4. packet.id = fwd.current_id /\ packet.count = fwd.previous_count + 1
      /\ packet.size = fwd.expected_size /\ packet.count > 0
  BY <1>2 DEF IsNext
<1>5. Beginning(fwd) /\ n < fwd.expected_size
  <2>1. fwd # NoFlow
    BY <1>3, <1>4, UdpAssumption DEF NoFlow
  <2> QED
    BY <2>1 DEF UdpInv
<1>6. Genuine(packet)
  <2>1. packet.size = Len(Content[packet.id])
    BY <1>4, <1>5 DEF Beginning
  <2>2. Len(packet.data) \in 1 .. CHUNK_SIZE /\ packet.count # 0
    BY <1>2, <1>3, <1>4 DEF Fits
  <2> QED
    BY <1>1, <2>1, <2>2 DEF Malformed
<1>7. n = packet.count * CHUNK_SIZE
  BY <1>4, <1>5 DEF Beginning
<1>8. /\ whole \in Seq(Bytes) /\ packet.size = Len(whole)
      /\ m \in 1 .. CHUNK_SIZE /\ n + m <= Len(whole)
      /\ n + m < Len(whole) => m = CHUNK_SIZE
      /\ \A i \in 1 .. m : packet.data[i] = whole[n + i]
  BY <1>1, <1>6, <1>7, GenuineSlice
<1>9. old \in Seq(Bytes) /\ n \in Nat /\ m \in Nat /\ CHUNK_SIZE \in Nat
      /\ \A i \in 1 .. n : old[i] = whole[i]
  BY <1>3, <1>4, <1>5, UdpAssumption DEF Beginning, FlowType
<1>10. old \o packet.data \in Seq(Bytes) /\ Len(old \o packet.data) = n + m
  BY <1>3, <1>9
<1>11. \A i \in 1 .. n + m : (old \o packet.data)[i] = whole[i]
  <2> SUFFICES ASSUME NEW i \in 1 .. n + m
               PROVE  (old \o packet.data)[i] = whole[i]
    OBVIOUS
  <2>1. CASE i <= n
    BY <1>3, <1>9, <2>1
  <2>2. CASE i > n
    <3>1. (old \o packet.data)[i] = packet.data[i - n] /\ i - n \in 1 .. m
      <4>1. (old \o packet.data)[i] = IF i <= n THEN old[i] ELSE packet.data[i - n]
        BY <1>3, <1>9, ConcatProperties
      <4>2. ~(i <= n) /\ i - n \in 1 .. m
        <5> HIDE DEF n, m
        <5> QED
          BY <1>9, <2>2
      <4> QED
        BY <4>1, <4>2
    <3>2. packet.data[i - n] = whole[n + (i - n)] /\ n + (i - n) = i
      BY <1>8, <1>9, <3>1
    <3> QED
      BY <3>1, <3>2
  <2> QED
    BY <1>9, <2>1, <2>2
<1>12. /\ f \in FlowType
       /\ f.current_id = packet.id /\ f.full_packet = old \o packet.data
       /\ f.previous_count = packet.count /\ f.expected_size = packet.size
  BY <1>3, <1>4, <1>5, <1>10 DEF Beginning, FlowType
<1>13. n + m < Len(whole) => n + m = (packet.count + 1) * CHUNK_SIZE
  BY <1>3, <1>7, <1>8, <1>9
<1>14. packet.size \in Nat /\ packet.size <= UDP_MAX_FORWARD_BYTES
  BY <1>4, <1>5 DEF Beginning
<1>15. Beginning(f)
  <2> HIDE DEF f, n, m, old
  <2>1. n + m \in 1 .. packet.size
    BY <1>8, <1>9, <1>14
  <2> QED
    BY <1>3, <1>8, <1>10, <1>11, <1>12, <1>13, <1>14, <2>1 DEF Beginning
<1> QED
  BY <1>2, <1>15, AcceptInv

\* A step that leaves the flow and what was sent alone keeps the invariant.
LEMMA SameFlowInv ==
  ASSUME UdpInv, fwd' = fwd, stale' \in BOOLEAN, sent' = sent
  PROVE  UdpInv'
BY DEF UdpInv, OnlyWholeDatagrams, Beginning

\* Whatever the forwarding thread does with a fragment keeps the invariant.
LEMMA HandleFragmentInv ==
  ASSUME UdpInv, NEW packet \in Arrived, HandleFragment(packet)
  PROVE  UdpInv'
<1>1. CASE DropFlow(packet)
  BY <1>1 DEF DropFlow, reset, UdpInv, OnlyWholeDatagrams
<1>2. CASE IgnoreFragment(packet)
  BY <1>2, SameFlowInv DEF IgnoreFragment, udpVars, UdpInv
<1> QED
  BY <1>1, <1>2, FirstFragmentInv, NextFragmentInv DEF HandleFragment

\* Every step of the forwarding thread keeps the invariant.
LEMMA UdpNextInv == UdpInv /\ [UdpNext]_udpVars => UdpInv'
<1> SUFFICES ASSUME UdpInv, [UdpNext]_udpVars
             PROVE  UdpInv'
  OBVIOUS
<1>1. ASSUME NEW packet \in Fragments, HandleFragment(packet)
      PROVE  UdpInv'
  BY <1>1, UdpAssumption, HandleFragmentInv DEF Arrived
<1>2. CASE Elapse
  BY <1>2, SameFlowInv DEF Elapse
<1>3. CASE UNCHANGED udpVars
  BY <1>3, SameFlowInv DEF udpVars, UdpInv
<1> QED
  BY <1>1, <1>2, <1>3 DEF UdpNext

\* The invariant says what the properties say.
LEMMA UdpInvImplies == UdpInv => FlowIsPrefix /\ OnlyWholeDatagrams
<1> SUFFICES ASSUME UdpInv
             PROVE  FlowIsPrefix
  BY DEF UdpInv
<1>1. CASE fwd = NoFlow
  BY <1>1 DEF FlowIsPrefix, NoFlow
<1>2. CASE Beginning(fwd) /\ Len(fwd.full_packet) < fwd.expected_size
  <2> DEFINE whole == Content[fwd.current_id]
             part == fwd.full_packet
  <2>1. fwd.current_id # NoId
    BY <1>2, UdpAssumption DEF Beginning, FlowType
  <2>2. whole \in Seq(Bytes) /\ part \in Seq(Bytes) /\ Len(part) \in 1 .. Len(whole)
        /\ \A i \in 1 .. Len(part) : part[i] = whole[i]
    BY <1>2, UdpAssumption DEF Beginning, FlowType
  <2> HIDE DEF whole, part
  <2>3. SubSeq(whole, 1, Len(part)) \in Seq(Bytes) /\ Len(SubSeq(whole, 1, Len(part))) = Len(part)
        /\ \A i \in 1 .. Len(part) : SubSeq(whole, 1, Len(part))[i] = whole[i]
    BY <2>2
  <2>4. part = SubSeq(whole, 1, Len(part))
    BY <2>2, <2>3, SeqEqual
  <2> QED
    BY <1>2, <2>1, <2>4 DEF FlowIsPrefix, Beginning, whole, part
<1> QED
  BY <1>1, <1>2 DEF UdpInv

\* The invariant holds of every behaviour.
LEMMA AlwaysUdpInv == UdpSpec => []UdpInv
<1>1. UdpInit => UdpInv
  BY DEF UdpInit, UdpInv, OnlyWholeDatagrams
<1> QED
  BY <1>1, UdpNextInv, PTL DEF UdpSpec

\* For every set of datagrams, and whatever becomes of their fragments on the
\* way, the flow being reassembled is the beginning of one datagram.
THEOREM FlowStaysPrefix == UdpSpec => []FlowIsPrefix
BY AlwaysUdpInv, UdpInvImplies, PTL

\* For every set of datagrams, and whatever becomes of their fragments on the
\* way, only whole datagrams reach the internal host.
THEOREM WholeDatagramsOnly == UdpSpec => []OnlyWholeDatagrams
BY AlwaysUdpInv, UdpInvImplies, PTL

-----------------------------------------------------------------------------
(* The path from sender to receiver                                        *)

Position == [d: Datagrams \cup {NoId}, copy: Nat, count: Nat]

\* The sender is at a chunk there is, and what is under way can arrive.
PathType ==
  /\ cur \in Position
  /\ cur # NotSending => cur.d \in Datagrams /\ cur.count < ChunkCount(cur.d)
  /\ wire \in Seq(Arrived)
  /\ anyLoss \in BOOLEAN

\* What reaches the receiver i-th from now: a fragment under way or, after the
\* last of them, the one to send next.  (Between datagrams there is none, and
\* the count is 0, which any first fragment has.)
Upcoming(i) == IF i <= Len(wire) THEN wire[i] ELSE [id |-> cur.d, count |-> cur.count]

IsLastChunk(packet) == ~(packet.count + 1 < ChunkCount(packet.id))

\* After a fragment comes its successor, after the last one a first one.
Follows(packet, next) ==
  IF IsLastChunk(packet) THEN next.count = 0 ELSE next.id = packet.id /\ next.count = packet.count + 1

\* No flow is in the way of a first fragment; a flow that waits for another one
\* waits for this one.
Ready(next) ==
  \/ fwd = NoFlow
  \/ next.count > 0 /\ fwd.current_id = next.id /\ fwd.previous_count = next.count - 1

\* Without loss everything arrives in order, and finds the receiver ready.
InOrder ==
  /\ refused = {}
  /\ \A i \in 1 .. Len(wire) : Genuine(wire[i]) /\ Follows(wire[i], Upcoming(i + 1))
  /\ Ready(Upcoming(1))

PathInv == UdpInv /\ PathType /\ (~anyLoss => InOrder)

\* The number of chunks is a number, and so many cover the datagram.
LEMMA ChunksCover ==
  ASSUME NEW d \in Datagrams
  PROVE  /\ ChunkCount(d) \in Nat
         /\ \A k \in Nat : ChunkCount(d) <= k => Len(Content[d]) <= k * CHUNK_SIZE
<1> DEFINE L == Len(Content[d])
           q == (L + CHUNK_SIZE - 1) \div CHUNK_SIZE
<1>1. L \in Nat /\ CHUNK_SIZE \in Nat \ {0} /\ ChunkCount(d) = q
  BY UdpAssumption DEF ChunkCount
<1> HIDE DEF L
<1>2. q \in Nat /\ L + CHUNK_SIZE - 1 < (q + 1) * CHUNK_SIZE
  BY <1>1, SMT
<1> HIDE DEF q
<1>3. ASSUME NEW k \in Nat, q <= k
      PROVE  L <= k * CHUNK_SIZE
  <2>1. (q + 1) * CHUNK_SIZE = q * CHUNK_SIZE + CHUNK_SIZE /\ q * CHUNK_SIZE <= k * CHUNK_SIZE
        /\ q * CHUNK_SIZE \in Nat /\ k * CHUNK_SIZE \in Nat
    BY <1>1, <1>2, <1>3, SMT
  <2> QED
    BY <1>1, <1>2, <2>1
<1> QED
  BY <1>1, <1>2, <1>3 DEF L

\* What the sender makes of a chunk there is, is a fragment that can arrive.
LEMMA FragmentIsGenuine ==
  ASSUME NEW d \in Datagrams, NEW count \in Nat, count < ChunkCount(d)
  PROVE  /\ MkFragment(d, count) \in Arrived /\ Genuine(MkFragment(d, count))
         /\ MkFragment(d, count).id = d /\ MkFragment(d, count).count = count
<1> DEFINE whole == Content[d]
           from == count * CHUNK_SIZE
           rest == Len(whole) - from
           to == from + (IF rest < CHUNK_SIZE THEN rest ELSE CHUNK_SIZE)
<1>1. whole \in Seq(Bytes) /\ Len(whole) \in Nat /\ CHUNK_SIZE \in Nat \ {0} /\ from \in Nat
  BY UdpAssumption, SMT
<1>2. from < Len(whole)
  BY <1>1, ChunkInside DEF ChunkCount
<1>3. ChunkOf(d, count) = SubSeq(whole, from + 1, to)
  BY DEF ChunkOf
<1> HIDE DEF whole, from
<1>4. to \in Nat /\ to <= Len(whole)
  BY <1>1, <1>2
<1> HIDE DEF to
<1>5. ChunkOf(d, count) \in Seq(Bytes)
  BY <1>1, <1>3, <1>4
<1>6. MkFragment(d, count) \in Fragment
  BY <1>1, <1>5 DEF MkFragment, Fragment, whole
<1>7. MkFragment(d, count).id = d /\ MkFragment(d, count).count = count
  BY DEF MkFragment
<1> QED
  BY <1>6, <1>7 DEF Genuine, Arrived

\* The last chunk of a datagram ends where the datagram ends.
LEMMA LastChunkEnds ==
  ASSUME NEW packet \in Fragment, Genuine(packet), IsLastChunk(packet)
  PROVE  packet.count * CHUNK_SIZE + Len(packet.data) = Len(Content[packet.id])
<1> DEFINE L == Len(Content[packet.id])
           from == packet.count * CHUNK_SIZE
           n == Len(packet.data)
<1>1. packet.id \in Datagrams /\ packet.count \in Nat /\ CHUNK_SIZE \in Nat \ {0}
  BY UdpAssumption DEF Fragment
<1>2. /\ L \in Nat /\ from \in Nat /\ n \in 1 .. CHUNK_SIZE /\ from + n <= L
      /\ from + n < L => n = CHUNK_SIZE
  BY GenuineSlice
<1>3. ChunkCount(packet.id) <= packet.count + 1
  BY <1>1, ChunksCover DEF IsLastChunk
<1>4. L <= (packet.count + 1) * CHUNK_SIZE
  <2>1. \A k \in Nat : ChunkCount(packet.id) <= k => L <= k * CHUNK_SIZE
    BY <1>1, ChunksCover
  <2>2. packet.count + 1 \in Nat
    BY <1>1
  <2> HIDE DEF L
  <2> QED
    BY <1>3, <2>1, <2>2, Zenon
<1>5. (packet.count + 1) * CHUNK_SIZE = from + CHUNK_SIZE
  BY <1>1, SMT
<1> HIDE DEF L, from, n
<1>6. from + n = L
  BY <1>1, <1>2, <1>4, <1>5
<1> QED
  BY <1>6 DEF L, from, n

\* A fragment the receiver is ready for leaves it ready for what follows: a
\* complete flow is dropped, any other waits for the successor.
LEMMA DeliveredInOrder ==
  ASSUME UdpInv, NEW packet \in Arrived, Genuine(packet), Ready(packet), HandleFragment(packet),
         NEW next, Follows(packet, next)
  PROVE  /\ packet.count = 0 => fwd.current_id = NoId
         /\ fwd' = NoFlow \/ (next.count > 0 /\ fwd'.current_id = next.id
                              /\ fwd'.previous_count = next.count - 1)
<1>1. /\ packet \in Fragment /\ packet.id \in Datagrams /\ packet.count \in Nat
      /\ packet.data \in Seq(Bytes) /\ NoId \notin Datagrams
      /\ packet.size = Len(Content[packet.id])
  BY UdpAssumption, GenuineSlice DEF Arrived, Fragment
<1>2. packet.count = 0 => fwd = NoFlow
  BY <1>1 DEF Ready
<1>3. packet.count = 0 => fwd.current_id = NoId
  BY <1>2 DEF NoFlow
<1>4. ASSUME NEW f, Accept(f), f.current_id = packet.id, f.previous_count = packet.count,
             f.expected_size = packet.size,
             Len(f.full_packet) = packet.count * CHUNK_SIZE + Len(packet.data)
      PROVE  fwd' = NoFlow \/ (next.count > 0 /\ fwd'.current_id = next.id
                              /\ fwd'.previous_count = next.count - 1)
  <2>1. CASE IsLastChunk(packet)
    <3>1. Len(f.full_packet) = f.expected_size
      BY <1>1, <1>4, <2>1, LastChunkEnds
    <3> QED
      BY <1>4, <3>1 DEF Accept, reset
  <2>2. CASE ~IsLastChunk(packet)
    <3>1. next.id = packet.id /\ next.count = packet.count + 1
      BY <2>2 DEF Follows
    <3>2. fwd' = NoFlow \/ fwd' = f
      BY <1>4 DEF Accept, reset
    <3>3. next.count > 0 /\ next.count - 1 = packet.count
      BY <1>1, <3>1
    <3> QED
      BY <1>4, <3>1, <3>2, <3>3
  <2> QED
    BY <2>1, <2>2
<1>5. CASE FirstFragment(packet)
  <2> DEFINE f == [reset(fwd) EXCEPT !.current_id = packet.id, !.expected_size = packet.size,
                                     !.full_packet = packet.data]
  <2>1. packet.count = 0 /\ Accept(f)
    BY <1>5 DEF FirstFragment
  <2>2. f.current_id = packet.id /\ f.previous_count = 0 /\ f.expected_size = packet.size
        /\ f.full_packet = packet.data
    BY DEF reset, NoFlow
  <2> HIDE DEF f
  <2>3. packet.count * CHUNK_SIZE + Len(packet.data) = Len(packet.data)
    <3>1. packet.count * CHUNK_SIZE = 0
      BY <2>1, UdpAssumption
    <3>2. Len(packet.data) \in Nat
      BY <1>1
    <3> QED
      BY <3>1, <3>2
  <2> QED
    BY <1>3, <1>4, <2>1, <2>2, <2>3
<1>6. CASE NextFragment(packet)
  <2> DEFINE f == [fwd EXCEPT !.full_packet = @ \o packet.data, !.previous_count = packet.count]
  <2>1. Accept(f) /\ packet.id = fwd.current_id /\ packet.size = fwd.expected_size
        /\ packet.count = fwd.previous_count + 1
    BY <1>6 DEF NextFragment, IsNext
  <2>2. Beginning(fwd) /\ Len(fwd.full_packet) < fwd.expected_size
    <3>1. fwd # NoFlow
      BY <1>1, <2>1 DEF NoFlow
    <3> QED
      BY <3>1 DEF UdpInv
  <2>3. Len(fwd.full_packet) = packet.count * CHUNK_SIZE
    BY <2>1, <2>2 DEF Beginning
  <2>4. /\ f.current_id = packet.id /\ f.previous_count = packet.count
        /\ f.expected_size = packet.size /\ f.full_packet = fwd.full_packet \o packet.data
        /\ fwd.full_packet \in Seq(Bytes)
    BY <2>1, <2>2 DEF Beginning, FlowType
  <2> HIDE DEF f
  <2>5. Len(f.full_packet) = packet.count * CHUNK_SIZE + Len(packet.data)
    <3>1. Len(f.full_packet) = Len(fwd.full_packet) + Len(packet.data)
      BY <1>1, <2>4
    <3> QED
      BY <2>3, <3>1
  <2> QED
    BY <1>3, <1>4, <2>1, <2>4, <2>5
<1>7. CASE DropFlow(packet)
  BY <1>3, <1>7 DEF DropFlow, reset
<1>8. CASE IgnoreFragment(packet)
  <2>1. fwd' = fwd
    BY <1>8 DEF IgnoreFragment, udpVars
  <2>2. CASE fwd = NoFlow
    BY <1>3, <2>1, <2>2
  <2>3. CASE fwd # NoFlow
    <3>1. packet.count > 0 /\ fwd.current_id = packet.id /\ fwd.previous_count = packet.count - 1
      BY <2>3 DEF Ready
    <3>2. packet.size = fwd.expected_size
      BY <1>1, <2>3, <3>1 DEF UdpInv, Beginning
    <3>3. IsNext(packet)
      BY <1>1, <3>1, <3>2 DEF IsNext
    <3> QED
      BY <1>1, <1>8, <3>1, <3>3 DEF IgnoreFragment
  <2> QED
    BY <2>2, <2>3
<1> QED
  BY <1>3, <1>5, <1>6, <1>7, <1>8 DEF HandleFragment

\* Between two datagrams the sender is at no chunk.
LEMMA NotSendingType == NotSending \in Position /\ NotSending.d = NoId /\ NotSending.count = 0
BY DEF NotSending, Position

\* Advancing goes to the successor or to a first fragment.
LEMMA AdvanceFollows ==
  ASSUME PathType, cur # NotSending
  PROVE  /\ Advance \in Position
         /\ Advance # NotSending => Advance.d \in Datagrams /\ Advance.count < ChunkCount(Advance.d)
         /\ Follows(MkFragment(cur.d, cur.count), [id |-> Advance.d, count |-> Advance.count])
<1>1. /\ cur \in Position /\ cur.d \in Datagrams /\ cur.count \in Nat /\ cur.copy \in Nat
      /\ cur.count < ChunkCount(cur.d) /\ ChunkCount(cur.d) \in Nat
  BY ChunksCover DEF PathType, Position
<1>2. MkFragment(cur.d, cur.count).id = cur.d /\ MkFragment(cur.d, cur.count).count = cur.count
  BY DEF MkFragment
<1>3. CASE cur.count + 1 < ChunkCount(cur.d)
  <2>1. Advance = [cur EXCEPT !.count = @ + 1]
    BY <1>3 DEF Advance
  <2>2. Advance \in Position /\ Advance.d = cur.d /\ Advance.count = cur.count + 1
    BY <1>1, <2>1 DEF Position
  <2> QED
    BY <1>1, <1>2, <1>3, <2>2 DEF Follows, IsLastChunk
<1>4. CASE ~(cur.count + 1 < ChunkCount(cur.d))
  <2>1. Advance = [cur EXCEPT !.copy = @ + 1, !.count = 0] \/ Advance = NotSending
    BY <1>4 DEF Advance
  <2>2. Advance \in Position /\ Advance.count = 0 /\ (Advance = NotSending \/ Advance.d = cur.d)
    <3>1. CASE Advance = NotSending
      BY <3>1, NotSendingType
    <3>2. CASE Advance = [cur EXCEPT !.copy = @ + 1, !.count = 0]
      <4>1. cur.copy + 1 \in Nat
        BY <1>1
      <4> QED
        BY <1>1, <3>2, <4>1 DEF Position
    <3> QED
      BY <2>1, <3>1, <3>2
  <2> QED
    BY <1>1, <1>2, <1>4, <2>2 DEF Follows, IsLastChunk
<1> QED
  BY <1>3, <1>4

\* Initially nothing is under way.
LEMMA InitPathInv == Init => PathInv
<1> SUFFICES ASSUME Init
             PROVE  PathInv
  OBVIOUS
<1>1. fwd = NoFlow /\ stale = FALSE /\ sent = {} /\ cur = NotSending /\ wire = <<>>
      /\ anyLoss = FALSE /\ refused = {}
  BY DEF Init, UdpInit
<1>2. UdpInv
  BY <1>1 DEF UdpInv, OnlyWholeDatagrams
<1>3. PathType
  <2>1. wire \in Seq(Arrived)
    BY <1>1
  <2>2. anyLoss \in BOOLEAN
    BY <1>1
  <2> QED
    BY <1>1, <2>1, <2>2, NotSendingType, Zenon DEF PathType
<1>4. InOrder
  BY <1>1 DEF InOrder, Ready
<1> QED
  BY <1>2, <1>3, <1>4 DEF PathInv

\* The first fragment of the next datagram follows the last one of this.
LEMMA TakePath ==
  ASSUME PathInv, NEW d \in Datagrams, TakeDatagram(d)
  PROVE  PathInv'
<1>1. /\ cur = NotSending /\ UNCHANGED <<fwd, stale, sent, wire, anyLoss, refused>>
      /\ cur' = IF ChunkCount(d) = 0 THEN NotSending ELSE [d |-> d, copy |-> 1, count |-> 0]
  BY DEF TakeDatagram, udpVars
<1>2. UdpInv'
  BY <1>1, SameFlowInv DEF PathInv, UdpInv
<1>3. ChunkCount(d) \in Nat
  BY ChunksCover
<1>4. PathType'
  BY <1>1, <1>3 DEF PathInv, PathType, Position, NotSending
<1>5. cur'.count = 0 /\ cur.count = 0 /\ cur.d = NoId
  BY <1>1 DEF NotSending
<1>6. ASSUME InOrder
      PROVE  InOrder'
  <2>1. wire \in Seq(Arrived) /\ Len(wire) \in Nat
    BY DEF PathInv, PathType
  <2>2. \A i \in 1 .. Len(wire) : wire[i].id \in Datagrams
    BY <2>1 DEF Arrived, Fragment
  <2>3. ASSUME NEW i \in 1 .. Len(wire), Follows(wire[i], Upcoming(i + 1))
        PROVE  Follows(wire'[i], Upcoming(i + 1)')
    <3>1. CASE i + 1 <= Len(wire)
      BY <1>1, <2>3, <3>1 DEF Upcoming
    <3>2. CASE ~(i + 1 <= Len(wire))
      <4>1. Upcoming(i + 1).id = NoId /\ Upcoming(i + 1).count = 0 /\ Upcoming(i + 1)'.count = 0
        BY <1>1, <1>5, <3>2 DEF Upcoming
      <4>2. wire[i].id # NoId
        BY <2>2, UdpAssumption
      <4> QED
        BY <1>1, <2>3, <4>1, <4>2 DEF Follows
    <3> QED
      BY <3>1, <3>2
  <2>4. Ready(Upcoming(1))'
    <3>1. CASE 1 <= Len(wire)
      BY <1>1, <1>6, <3>1 DEF InOrder, Ready, Upcoming
    <3>2. CASE ~(1 <= Len(wire))
      <4>1. Upcoming(1).count = 0
        BY <1>5, <3>2 DEF Upcoming
      <4>2. fwd = NoFlow
        BY <1>6, <4>1 DEF InOrder, Ready
      <4> QED
        BY <1>1, <4>2 DEF Ready
    <3> QED
      BY <3>1, <3>2
  <2> QED
    BY <1>1, <1>6, <2>3, <2>4 DEF InOrder
<1> QED
  BY <1>1, <1>2, <1>4, <1>6 DEF PathInv

\* A fragment sent is the one that was to come next; its successor comes after.
LEMMA SendPath ==
  ASSUME PathInv, SendFragment
  PROVE  PathInv'
<1> DEFINE new == MkFragment(cur.d, cur.count)
<1>1. /\ cur # NotSending /\ UNCHANGED <<fwd, stale, sent, anyLoss, refused>>
      /\ wire' = Append(wire, new) /\ cur' = Advance
  BY DEF SendFragment, udpVars
<1>2. UdpInv'
  BY <1>1, SameFlowInv DEF PathInv, UdpInv
<1>3. new \in Arrived /\ Genuine(new) /\ new.id = cur.d /\ new.count = cur.count
  BY <1>1, FragmentIsGenuine DEF PathInv, PathType, Position
<1>4. /\ cur' \in Position
      /\ cur' # NotSending => cur'.d \in Datagrams /\ cur'.count < ChunkCount(cur'.d)
      /\ Follows(new, [id |-> cur'.d, count |-> cur'.count])
  BY <1>1, AdvanceFollows DEF PathInv
<1> HIDE DEF new
<1>5. wire \in Seq(Arrived) /\ Len(wire) \in Nat
  BY DEF PathInv, PathType
<1>6. /\ wire' \in Seq(Arrived) /\ Len(wire') = Len(wire) + 1 /\ wire'[Len(wire) + 1] = new
      /\ \A i \in 1 .. Len(wire) : wire'[i] = wire[i]
  BY <1>1, <1>3, <1>5
<1>7. PathType'
  BY <1>1, <1>4, <1>6 DEF PathInv, PathType
<1>8. \A i \in 1 .. Len(wire) + 1 :
        Upcoming(i)'.id = Upcoming(i).id /\ Upcoming(i)'.count = Upcoming(i).count
  <2> SUFFICES ASSUME NEW i \in 1 .. Len(wire) + 1
               PROVE  Upcoming(i)'.id = Upcoming(i).id /\ Upcoming(i)'.count = Upcoming(i).count
    OBVIOUS
  <2>1. CASE i <= Len(wire)
    BY <1>5, <1>6, <2>1 DEF Upcoming
  <2>2. CASE i = Len(wire) + 1
    <3>1. Upcoming(i) = [id |-> cur.d, count |-> cur.count] /\ Upcoming(i)' = new
      BY <1>5, <1>6, <2>2 DEF Upcoming
    <3> QED
      BY <1>3, <3>1
  <2> QED
    BY <1>5, <2>1, <2>2
<1>9. ASSUME InOrder
      PROVE  InOrder'
  <2>1. ASSUME NEW i \in 1 .. Len(wire')
        PROVE  Genuine(wire'[i]) /\ Follows(wire'[i], Upcoming(i + 1)')
    <3>1. CASE i <= Len(wire)
      <4>1. i \in 1 .. Len(wire) /\ i + 1 \in 1 .. Len(wire) + 1
        BY <1>5, <3>1
      <4>2. Genuine(wire[i]) /\ Follows(wire[i], Upcoming(i + 1)) /\ wire'[i] = wire[i]
        BY <1>6, <1>9, <4>1 DEF InOrder
      <4> QED
        BY <1>8, <4>1, <4>2 DEF Follows
    <3>2. CASE i = Len(wire) + 1
      <4>1. Upcoming(i + 1)' = [id |-> cur'.d, count |-> cur'.count]
        BY <1>5, <1>6, <3>2 DEF Upcoming
      <4> QED
        BY <1>3, <1>4, <1>6, <3>2, <4>1
    <3> QED
      BY <1>5, <1>6, <3>1, <3>2
  <2>2. Ready(Upcoming(1))'
    <3>1. 1 \in 1 .. Len(wire) + 1
      BY <1>5
    <3>2. Upcoming(1)'.id = Upcoming(1).id /\ Upcoming(1)'.count = Upcoming(1).count
      BY <1>8, <3>1
    <3> QED
      BY <1>1, <1>9, <3>2 DEF InOrder, Ready
  <2>3. \A i \in 1 .. Len(wire') : (Genuine(wire[i]) /\ Follows(wire[i], Upcoming(i + 1)))'
    BY <2>1 DEF Genuine, Follows, IsLastChunk, MkFragment, ChunkOf, ChunkCount
  <2> QED
    BY <1>1, <1>9, <2>2, <2>3 DEF InOrder
<1> QED
  BY <1>1, <1>2, <1>7, <1>9 DEF PathInv

\* After a loss, only what is under way matters.
LEMMA LossPath ==
  ASSUME PathInv, LoseFragment \/ DamageFragment
  PROVE  PathInv'
<1>1. cur # NotSending /\ UNCHANGED <<fwd, stale, sent>> /\ anyLoss' = TRUE /\ cur' = Advance
  BY DEF LoseFragment, DamageFragment, udpVars
<1>2. UdpInv'
  BY <1>1, SameFlowInv DEF PathInv, UdpInv
<1>3. /\ cur' \in Position
      /\ cur' # NotSending => cur'.d \in Datagrams /\ cur'.count < ChunkCount(cur'.d)
  BY <1>1, AdvanceFollows DEF PathInv
<1>4. wire' \in Seq(Arrived)
  <2>1. wire' = wire \/ \E damaged \in Fragments : wire' = Append(wire, damaged)
    BY DEF LoseFragment, DamageFragment
  <2>2. Fragments \subseteq Arrived /\ wire \in Seq(Arrived)
    BY UdpAssumption DEF Arrived, PathInv, PathType
  <2> QED
    BY <2>1, <2>2
<1> QED
  BY <1>1, <1>2, <1>3, <1>4 DEF PathInv, PathType

\* The oldest fragment under way is delivered, and the next one is the oldest.
LEMMA DeliverPath ==
  ASSUME PathInv, DeliverFragment
  PROVE  PathInv'
<1> DEFINE packet == Head(wire)
<1>1. /\ wire # <<>> /\ HandleFragment(packet) /\ wire' = Tail(wire) /\ cur' = cur /\ anyLoss' = anyLoss
      /\ refused' = IF packet.count = 0 /\ fwd.current_id \notin {NoId, packet.id} /\ ~stale
                    THEN refused \cup {packet.id} ELSE refused
  BY DEF DeliverFragment, senderVars
<1>2. wire \in Seq(Arrived)
  BY DEF PathInv, PathType
<1>3. /\ packet \in Arrived /\ packet = wire[1] /\ Len(wire) \in Nat \ {0}
      /\ wire' \in Seq(Arrived) /\ Len(wire') = Len(wire) - 1
      /\ \A i \in 1 .. Len(wire) - 1 : wire'[i] = wire[i + 1]
  BY <1>1, <1>2
<1> HIDE DEF packet
<1>4. UdpInv'
  BY <1>1, <1>3, HandleFragmentInv DEF PathInv
<1>5. PathType'
  BY <1>1, <1>3 DEF PathInv, PathType
<1>6. \A i \in 1 .. Len(wire) : Upcoming(i)' = Upcoming(i + 1)
  BY <1>1, <1>3 DEF Upcoming
<1>7. ASSUME InOrder
      PROVE  InOrder'
  <2>1. 1 \in 1 .. Len(wire) /\ 1 + 1 = 2
    BY <1>3
  <2>2. Genuine(packet) /\ Follows(packet, Upcoming(2)) /\ Ready(packet)
    <3>1. Upcoming(1) = packet
      BY <1>3 DEF Upcoming
    <3> QED
      BY <1>3, <1>7, <2>1, <3>1 DEF InOrder
  <2>3. /\ packet.count = 0 => fwd.current_id = NoId
        /\ fwd' = NoFlow \/ (Upcoming(2).count > 0 /\ fwd'.current_id = Upcoming(2).id
                             /\ fwd'.previous_count = Upcoming(2).count - 1)
    BY <1>1, <1>3, <2>2, DeliveredInOrder DEF PathInv
  <2>4. refused' = {}
    BY <1>1, <1>7, <2>3 DEF InOrder
  <2>5. Upcoming(1)' = Upcoming(2)
    BY <1>6, <2>1
  <2>6. Ready(Upcoming(1))'
    BY <2>3, <2>5 DEF Ready
  <2>7. ASSUME NEW i \in 1 .. Len(wire')
        PROVE  (Genuine(wire[i]) /\ Follows(wire[i], Upcoming(i + 1)))'
    <3>1. i + 1 \in 1 .. Len(wire) /\ i \in 1 .. Len(wire) - 1
      BY <1>3
    <3>2. wire'[i] = wire[i + 1] /\ Upcoming(i + 1)' = Upcoming((i + 1) + 1)
      BY <1>3, <1>6, <3>1
    <3>3. Genuine(wire[i + 1]) /\ Follows(wire[i + 1], Upcoming((i + 1) + 1))
      BY <1>7, <3>1 DEF InOrder
    <3> QED
      BY <3>2, <3>3 DEF Genuine, Follows, IsLastChunk, MkFragment, ChunkOf, ChunkCount
  <2> QED
    BY <2>4, <2>6, <2>7 DEF InOrder
<1> QED
  BY <1>1, <1>4, <1>5, <1>7 DEF PathInv

\* Every step keeps the invariant.
LEMMA NextPathInv == PathInv /\ [Next]_vars => PathInv'
<1> SUFFICES ASSUME PathInv, [Next]_vars
             PROVE  PathInv'
  OBVIOUS
<1>1. ASSUME UNCHANGED <<fwd, sent, cur, wire, anyLoss, refused>>, stale' \in BOOLEAN
      PROVE  PathInv'
  <2>1. UdpInv'
    BY <1>1, SameFlowInv DEF PathInv
  <2> QED
    BY <1>1, <2>1 DEF PathInv, PathType, InOrder, Upcoming, Ready
<1>2. CASE Elapse /\ UNCHANGED <<senderVars, wire, refused>>
  BY <1>1, <1>2 DEF Elapse, senderVars
<1>3. CASE UNCHANGED vars
  BY <1>1, <1>3 DEF vars, PathInv, UdpInv
<1> QED
  BY <1>2, <1>3, TakePath, SendPath, LossPath, DeliverPath DEF Next

\* The invariant holds of every behaviour of sender, fibre and receiver.
LEMMA AlwaysPathInv == Spec => []PathInv
BY InitPathInv, NextPathInv, PTL DEF Spec

\* For every set of datagrams, number of copies and capacity of the fibre: as
\* long as nothing is lost or damaged, no datagram is refused because of
\* another one, however sender, receiver and clock take turns.
THEOREM RefusedNeedsLoss == Spec => []RefusedOnlyAfterLoss
<1>1. PathInv => RefusedOnlyAfterLoss
  BY DEF PathInv, PathType, InOrder, RefusedOnlyAfterLoss
<1> QED
  BY <1>1, AlwaysPathInv, PTL

\* From sender to receiver, with whatever loss, only whole datagrams get
\* through, and flows do not mix.
THEOREM PathKeepsFlows == Spec => [](FlowIsPrefix /\ OnlyWholeDatagrams)
<1>1. PathInv => FlowIsPrefix /\ OnlyWholeDatagrams
  BY UdpInvImplies DEF PathInv
<1> QED
  BY <1>1, AlwaysPathInv, PTL

=============================================================================
