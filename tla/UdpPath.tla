------------------------------- MODULE UdpPath -------------------------------
(***************************************************************************)
(* UDP forwarding end to end: the second thread of spawn_udp_forwarder     *)
(* (diode_send), the fibre, and the thread of module UdpForward.           *)
(***************************************************************************)
EXTENDS UdpForward

CONSTANTS
  UDP_RESEND,     \* times each datagram is sent
  WireCapacity,   \* fragments under way before the sender blocks
  MaxLost         \* fragments that may be lost of each datagram

ASSUME PathAssumption ==
  /\ UDP_RESEND \in Nat \ {0} /\ WireCapacity \in Nat \ {0} /\ MaxLost \in Nat

VARIABLES
  cur,      \* the datagram being sent, the copy and the fragment to send next
  taken,    \* the datagrams taken off the channel so far
  wire,     \* the fragments under way, oldest first
  losses,   \* fragments of cur lost so far
  anyLoss,  \* history: was a fragment of any datagram lost?
  refused   \* history: datagrams whose first fragment met another flow

senderVars == <<cur, taken, losses, anyLoss>>
vars == <<fwd, stale, sent, cur, taken, wire, losses, anyLoss, refused>>

NotSending == [d |-> NoId, copy |-> 1, count |-> 0]

Init ==
  /\ UdpInit
  /\ cur = NotSending
  /\ taken = {}
  /\ wire = <<>>
  /\ losses = 0
  /\ anyLoss = FALSE
  /\ refused = {}

\* The next datagram of the channel.  Of an empty one nothing is sent.
TakeDatagram(d) ==
  /\ cur = NotSending
  /\ d \notin taken
  /\ taken' = taken \cup {d}
  /\ cur' = IF ChunkCount(d) = 0 THEN NotSending ELSE [d |-> d, copy |-> 1, count |-> 0]
  /\ losses' = 0
  /\ UNCHANGED <<udpVars, wire, anyLoss, refused>>

\* One copy too few.
Advance_OneShort ==
  IF cur.count + 1 < ChunkCount(cur.d) THEN [cur EXCEPT !.count = @ + 1]
  ELSE IF cur.copy < UDP_RESEND - 1 THEN [cur EXCEPT !.copy = @ + 1, !.count = 0]
  ELSE NotSending

\* The position after the current fragment.
Advance ==
  IF cur.count + 1 < ChunkCount(cur.d) THEN [cur EXCEPT !.count = @ + 1]
  ELSE IF cur.copy < UDP_RESEND THEN [cur EXCEPT !.copy = @ + 1, !.count = 0]
  ELSE NotSending

\* send_to_blocking waits for room; an error is logged, and the next sent.
SendFragment ==
  /\ cur # NotSending
  /\ Len(wire) < WireCapacity
  /\ wire' = Append(wire, MkFragment(cur.d, cur.count))
  /\ cur' = Advance
  /\ UNCHANGED <<udpVars, taken, losses, anyLoss, refused>>

LoseFragment ==
  /\ cur # NotSending
  /\ losses < MaxLost
  /\ losses' = losses + 1
  /\ anyLoss' = TRUE
  /\ cur' = Advance
  /\ UNCHANGED <<udpVars, taken, wire, refused>>

\* A fragment is damaged on its way, in a way that shows (a constant names the
\* shapes this may take): for the datagram this is a loss.
DamageFragment ==
  /\ cur # NotSending
  /\ losses < MaxLost
  /\ Len(wire) < WireCapacity
  /\ \E damaged \in Fragments :
       /\ damaged.id = cur.d /\ damaged.count = cur.count /\ Malformed(damaged)
       /\ wire' = Append(wire, damaged)
  /\ losses' = losses + 1
  /\ anyLoss' = TRUE
  /\ cur' = Advance
  /\ UNCHANGED <<udpVars, taken, refused>>

\* The forwarding thread takes the oldest fragment.
DeliverFragment ==
  /\ wire # <<>>
  /\ HandleFragment(Head(wire))
  /\ refused' = IF Head(wire).count = 0 /\ fwd.current_id \notin {NoId, Head(wire).id} /\ ~stale
                THEN refused \cup {Head(wire).id} ELSE refused
  /\ wire' = Tail(wire)
  /\ UNCHANGED senderVars

Next ==
  \/ \E d \in Datagrams : TakeDatagram(d)
  \/ SendFragment
  \/ LoseFragment
  \/ DamageFragment
  \/ DeliverFragment
  \/ Elapse /\ UNCHANGED <<senderVars, wire, refused>>

\* Both threads keep running.  The arrival of datagrams, losses and the clock
\* are not fair.
Spec == Init /\ [][Next]_vars /\ WF_vars(SendFragment) /\ WF_vars(DeliverFragment)

-----------------------------------------------------------------------------
(* Properties                                                              *)

\* Without loss no flow ever stands in the way of another: each datagram's
\* second copy is over before the next datagram begins.
RefusedOnlyAfterLoss == refused # {} => anyLoss

\* The second copy makes up for a loss in the first, and the first for a loss
\* in the second: a datagram that is not forwarded was refused because of
\* another one.
LostOnlyIfRefused ==
  \A d \in Datagrams :
    (d \in taken /\ Content[d] # <<>>) ~> (Content[d] \in sent \/ d \in refused)

\* A flow that lost its tail stands in the way of others only until it is
\* stale: the next datagram after that is forwarded, losses notwithstanding.
StaleFlowGivesWay ==
  \A d \in Datagrams :
    (cur = [d |-> d, copy |-> 1, count |-> 0] /\ wire = <<>> /\ (fwd.current_id = NoId \/ stale))
      ~> (Content[d] \in sent)

=============================================================================
