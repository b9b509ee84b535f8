-------------------------------- MODULE Diode --------------------------------
(***************************************************************************)
(* The diode: one sender, the link, one receiver.  The sender learns       *)
(* nothing of what arrives.                                                *)
(***************************************************************************)
EXTENDS Sender

CONSTANTS
  BUFFER_BYTE_LIMIT, Hole, Garbage, IoOutcomes,
  MaxOutcomes,    \* bound of the model, large enough never to hold up the link
  MaxRestarts     \* bound of the model: restarts of the receiver

VARIABLES state, stats, final, partial, marker, missed,  \* of module Receiver
          restarts  \* what has been used of MaxRestarts

\* Here packets come from the link, not from the open environment Packets.
R == INSTANCE Receiver WITH Packets <- {}

receiverVars == <<state, stats, final, partial, marker, missed>>

vars == <<source, snd, dropped, used, link, lost, state, stats, final, partial, marker, missed,
          restarts>>

Init ==
  /\ SenderInit
  /\ R!Init
  /\ restarts = 0

\* The worker takes the oldest packet and handles it.
Deliver ==
  /\ link # <<>>
  /\ R!Handle(Head(link))
  /\ link' = Tail(link)
  /\ UNCHANGED <<source, snd, dropped, used, lost, restarts>>

\* The receiver is started again; what its socket and channel held is gone.
ReceiverRestart ==
  /\ restarts < MaxRestarts
  /\ restarts' = restarts + 1
  /\ R!Restart
  /\ link' = <<>>
  /\ UNCHANGED <<source, snd, dropped, used, lost>>

Next ==
  \/ SenderNext /\ UNCHANGED <<receiverVars, restarts>>
  \/ Deliver
  \/ ReceiverRestart

Spec == Init /\ [][Next]_vars

\* Both loops run for ever: the sender's main loop and the receiver's worker.
\* Users, errors and restarts are not fair: nobody has to do anything.
Fairness ==
  /\ WF_vars(SenderStep /\ UNCHANGED <<receiverVars, restarts>>)
  /\ WF_vars(Deliver)

FairSpec == Spec /\ Fairness

-----------------------------------------------------------------------------
(* Properties                                                              *)

\* The file that holds content x and nothing else.
Exactly(x) ==
  [size |-> FileSize[x], chunk |-> [i \in 0 .. TotalChunks(FileSize[x]) - 1 |-> x]]

\* A file published by the receiver is, byte for byte, one content that users
\* put into the sender's directory (README: it is stored if the hash of the
\* transferred data matches).
PublishedIntact ==
  \A p \in Paths : final[p] # NoFile => \E x \in Versions : final[p] = Exactly(x)

\* Once the sender has deleted its file and the link has drained, the receiver
\* has published the very content users dropped last.
DeletedMeansDelivered ==
  \A p \in Paths :
    dropped[p] # NoFile /\ source[p] = NoFile /\ link = <<>> => final[p] = Exactly(dropped[p])

\* As long as no more packets are lost than FEC and the repeated control
\* packets make up for, no transfer is reported as failed.
NoFalseFailure == marker = {} /\ stats.files_failed = 0

\* Every file in the sender's directory is published in the end, failing system
\* calls, restarts of the sender and files that vanish in its hands
\* notwithstanding, unless it is withdrawn itself or the receiver is restarted.
EveryFileArrives ==
  \A p \in Paths, x \in Versions :
    (source[p] = x /\ restarts = 0) ~> (final[p] = Exactly(x) \/ dropped[p] # x \/ restarts > 0)

\* The content users put under a path last is published in the end, unless
\* they replace it once more (README: a new file that is detected is transferred).
LatestArrives ==
  \A p \in Paths, x \in Versions :
    (dropped[p] = x) ~> (final[p] = Exactly(x) \/ dropped[p] # x)

\* A restart of the receiver costs the transfers under way and nothing else:
\* a file the sender turns to afterwards arrives, whatever .partial files and
\* half-sent transfers the restart left behind.
ServesAfterRestart ==
  \A p \in Paths, x \in Versions :
    (restarts = MaxRestarts /\ snd.pc = "stat" /\ snd.path = p /\ source[p] = x)
      ~> (final[p] = Exactly(x) \/ dropped[p] # x)

=============================================================================
