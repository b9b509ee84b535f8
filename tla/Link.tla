-------------------------------- MODULE Link --------------------------------
(***************************************************************************)
(* The way from diode_send's socket to the receiver's worker: send buffer, *)
(* fibre, SO_RCVBUF, the listener thread and the mpsc channel it feeds.    *)
(* One direction, first in first out, nothing duplicated: packets are only *)
(* lost.  (Module Receiver is checked for every other order.)              *)
(*                                                                         *)
(* How much may be lost is a parameter, per kind of packet: copies of one  *)
(* START, packets of one FEC batch, copies of one END.                     *)
(***************************************************************************)
EXTENDS Proto

CONSTANTS
  LinkCapacity,  \* packets under way before the sender blocks on ENOBUFS
  MaxLost        \* MaxLost[kind]: losses allowed among packets sent together

Kinds == {"START", "BATCH", "END"}

ASSUME LinkAssumption ==
  /\ LinkCapacity \in Nat \ {0}
  /\ MaxLost \in [Kinds -> Nat]

VARIABLES
  link,  \* the packets under way, oldest first
  lost   \* lost[kind]: losses so far in the current group of that kind

LinkInit ==
  /\ link = <<>>
  /\ lost = [k \in Kinds |-> 0]

\* send_to_blocking: hand the packet to the socket, waiting (ENOBUFS and
\* back-off) while there is no room; it may then be lost.  first: the packet
\* opens a new group of its kind.
Transmit(packet, kind, first) ==
  LET before == IF first THEN 0 ELSE lost[kind]
  IN \/ /\ Len(link) < LinkCapacity
        /\ link' = Append(link, packet)
        /\ lost' = [lost EXCEPT ![kind] = before]
     \/ /\ before < MaxLost[kind]
        /\ lost' = [lost EXCEPT ![kind] = before + 1]
        /\ UNCHANGED link

=============================================================================
