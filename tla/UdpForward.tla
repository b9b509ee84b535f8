----------------------------- MODULE UdpForward -----------------------------
(***************************************************************************)
(* forward_udp_packets: the receiver's thread that reassembles forwarded   *)
(* UDP datagrams from fragments, one flow at a time, and sends them on.    *)
(* Fragments arrive in any order and any number of times here; module      *)
(* UdpPath restricts that to what one sender emits over one fibre.         *)
(*                                                                         *)
(* A datagram is a sequence of bytes, Content[d].  The id of its flow, the *)
(* digits of an MD5 of the sending time, is abstracted to d: two datagrams *)
(* never share an id.  The clock is abstracted to whether UDP_FLOW_TIMEOUT *)
(* has passed since last_activity (stale).                                 *)
(***************************************************************************)
EXTENDS Naturals, Sequences

CONSTANTS
  CHUNK_SIZE,             \* most bytes of a fragment
  UDP_MAX_FORWARD_BYTES,  \* most bytes of a datagram
  Datagrams, Bytes,
  Content,                \* Content[d]: the bytes of datagram d
  Fragments,              \* the fragments that can arrive
  NoId,                   \* None
  SendOutcomes            \* {TRUE}: the target accepts; {TRUE, FALSE}: send_to may fail

Fragment == [id: Datagrams, count: Nat, size: Nat, data: Seq(Bytes)]

\* data.chunks(CHUNK_SIZE): chunk number count of datagram d.
ChunkOf(d, count) ==
  LET from == count * CHUNK_SIZE
      rest == Len(Content[d]) - from
  IN SubSeq(Content[d], from + 1, from + (IF rest < CHUNK_SIZE THEN rest ELSE CHUNK_SIZE))

ChunkCount(d) == (Len(Content[d]) + CHUNK_SIZE - 1) \div CHUNK_SIZE

\* The sender's packet: the length of the datagram rides in the path_hash field.
MkFragment(d, count) ==
  [id |-> d, count |-> count, size |-> Len(Content[d]), data |-> ChunkOf(d, count)]

ValidFirst(packet) ==
  /\ packet.size \in 1 .. UDP_MAX_FORWARD_BYTES
  /\ Len(packet.data) \in 1 .. CHUNK_SIZE
  /\ Len(packet.data) <= packet.size

\* A fragment damaged in a way that shows (UDP packets carry no digest).
Malformed(packet) ==
  IF packet.count = 0 THEN ~ValidFirst(packet)
  ELSE Len(packet.data) \notin 1 .. CHUNK_SIZE \/ packet.size # Len(Content[packet.id])

Genuine(packet) ==
  packet.count < ChunkCount(packet.id) /\ packet = MkFragment(packet.id, packet.count)

ASSUME UdpAssumption ==
  /\ CHUNK_SIZE \in Nat \ {0}
  /\ UDP_MAX_FORWARD_BYTES \in Nat
  /\ Content \in [Datagrams -> Seq(Bytes)]
  /\ Fragments \subseteq {packet \in Fragment : Genuine(packet) \/ Malformed(packet)}
  /\ NoId \notin Datagrams
  /\ SendOutcomes \subseteq BOOLEAN

VARIABLES
  fwd,    \* UdpForwardState: the flow being reassembled
  stale,  \* last_activity is longer ago than UDP_FLOW_TIMEOUT
  sent    \* the datagrams sent to the target

udpVars == <<fwd, stale, sent>>

-----------------------------------------------------------------------------

NoFlow ==
  [current_id |-> NoId, full_packet |-> <<>>, previous_count |-> 0, expected_size |-> 0]

\* The number of the last fragment survives the flow.
reset_KeepsCount(f) == [NoFlow EXCEPT !.previous_count = f.previous_count]

\* The flow that was forwarded still counts as being in progress.
reset_KeepsId(f) == [NoFlow EXCEPT !.current_id = f.current_id]

reset(f) == NoFlow

UdpInit ==
  /\ fwd = NoFlow
  /\ stale = FALSE
  /\ sent = {}

\* A fragment was accepted: the flow is now f.  If it is complete it is
\* forwarded and dropped, whatever send_to says.
Accept(f) ==
  /\ IF Len(f.full_packet) = f.expected_size
     THEN /\ fwd' = reset(f)
          /\ \E ok \in SendOutcomes : sent' = IF ok THEN sent \cup {f.full_packet} ELSE sent
     ELSE fwd' = f /\ UNCHANGED sent
  /\ stale' = FALSE

-----------------------------------------------------------------------------
(* count = 0: the first fragment of a flow                                 *)

\* A flow in progress never gives way.
MayRearm_NeverStale(packet) == fwd.current_id \in {NoId, packet.id}

\* A flow in progress gives way to its own retransmission, or when it is stale.
MayRearm(packet) == fwd.current_id \in {NoId, packet.id} \/ stale

FirstFragment(packet) ==
  /\ packet.count = 0
  /\ ValidFirst(packet)
  /\ MayRearm(packet)
  /\ Accept([reset(fwd) EXCEPT !.current_id = packet.id, !.expected_size = packet.size,
                               !.full_packet = packet.data])

-----------------------------------------------------------------------------
(* count > 0: a continuation                                               *)

\* The next fragment of any flow is taken for the next one of this flow.
IsNext_AnyFlow(packet) ==
  /\ packet.count > 0
  /\ fwd.current_id # NoId
  /\ packet.count = fwd.previous_count + 1
  /\ packet.size = fwd.expected_size

\* The successor of the last fragment accepted, of the flow in progress.
IsNext(packet) ==
  /\ packet.count > 0
  /\ packet.id = fwd.current_id
  /\ packet.count = fwd.previous_count + 1
  /\ packet.size = fwd.expected_size

Fits(packet) ==
  /\ Len(packet.data) \in 1 .. CHUNK_SIZE
  /\ Len(packet.data) <= fwd.expected_size - Len(fwd.full_packet)

NextFragment(packet) ==
  /\ IsNext(packet)
  /\ Fits(packet)
  /\ Accept([fwd EXCEPT !.full_packet = @ \o packet.data, !.previous_count = packet.count])

\* A fragment that can not belong: the flow is dropped.
DropFlow(packet) ==
  /\ IsNext(packet)
  /\ ~Fits(packet)
  /\ fwd' = reset(fwd)
  /\ UNCHANGED <<stale, sent>>

\* A refused first fragment, a duplicate, a gap, a foreign id: nothing changes.
IgnoreFragment(packet) ==
  /\ IF packet.count = 0 THEN ~(ValidFirst(packet) /\ MayRearm(packet)) ELSE ~IsNext(packet)
  /\ UNCHANGED udpVars

HandleFragment(packet) ==
  \/ FirstFragment(packet)
  \/ NextFragment(packet)
  \/ DropFlow(packet)
  \/ IgnoreFragment(packet)

\* UDP_FLOW_TIMEOUT passes without an accepted fragment.
Elapse ==
  /\ fwd.current_id # NoId
  /\ ~stale
  /\ stale' = TRUE
  /\ UNCHANGED <<fwd, sent>>

UdpNext == (\E packet \in Fragments : HandleFragment(packet)) \/ Elapse

UdpSpec == UdpInit /\ [][UdpNext]_udpVars

-----------------------------------------------------------------------------
(* Properties                                                              *)

\* Type invariant of the forwarding thread.
UdpTypeOK ==
  /\ fwd \in [current_id: Datagrams \cup {NoId}, full_packet: Seq(Bytes),
              previous_count: Nat, expected_size: Nat]
  /\ stale \in BOOLEAN
  /\ sent \subseteq Seq(Bytes)

\* The flow in progress is, byte for byte, the beginning of the one datagram
\* its id stands for, made of the fragments up to previous_count, and not yet
\* all of it: no retransmission, takeover or reset in between mixes two flows
\* or leaves a counter of an earlier one behind.
FlowIsPrefix ==
  IF fwd.current_id = NoId THEN fwd = NoFlow
  ELSE LET whole == Content[fwd.current_id]
       IN /\ fwd.expected_size = Len(whole)
          /\ Len(fwd.full_packet) = (fwd.previous_count + 1) * CHUNK_SIZE
          /\ Len(fwd.full_packet) < Len(whole)
          /\ fwd.full_packet = SubSeq(whole, 1, Len(fwd.full_packet))

\* Only whole datagrams reach the internal host, each as it was sent, and none
\* above UDP_MAX_FORWARD_BYTES.
OnlyWholeDatagrams ==
  \A x \in sent : /\ Len(x) \in 1 .. UDP_MAX_FORWARD_BYTES
                  /\ \E d \in Datagrams : x = Content[d]

=============================================================================
