------------------------------- MODULE Process -------------------------------
(***************************************************************************)
(* diode_receive as a process: main(), the listener thread, the channel    *)
(* between the listener and the worker, the worker around the handlers of  *)
(* module Receiver, and the service manager that starts the process.       *)
(* Datagrams arrive in any order and any number of times.                  *)
(*                                                                         *)
(* The locks of state and stats are only ever taken by the worker (and     *)
(* once by main before the worker exists), so they appear as what remains  *)
(* of them: a panic while they are held poisons them and ends the worker.  *)
(***************************************************************************)
EXTENDS Wire

CONSTANTS
  BUFFER_BYTE_LIMIT, Hole, Garbage, IoOutcomes, MaxOutcomes,
  Sent,            \* the packets senders emit
  Datagrams,       \* the datagrams that can arrive
  QueueCapacity,   \* bound of the model: the channel itself has none
  DISPLAY_EVERY    \* packet counts the display is offered without force

\* Each kind of packet comes from the encoder of that kind: the path_hash of a
\* START is its path's digest, and the digest of a payload matches it.
ASSUME ProcessAssumption ==
  /\ \A packet \in Sent :
       \/ /\ packet \in [type: {"START"}, path: AllPaths, path_hash: AllPaths, count: Nat,
                         parity: 0 .. MAX_U64]
          /\ packet.path_hash = packet.path
       \/ packet \in [type: {"DATA", "PARITY"}, path_hash: Paths, count: Nat, data: Payloads,
                      hash_ok: {TRUE}]
       \/ packet \in [type: {"END"}, path: Paths, count: Nat]
  /\ Datagrams \subseteq Seq(Nat)
  /\ QueueCapacity \in Nat \ {0}
  /\ DISPLAY_EVERY \in Nat \ {0}

VARIABLES
  state, stats, final, partial, marker, missed,  \* of module Receiver
  queue,      \* the channel: datagrams received and not yet taken
  listening,  \* the listener thread is in its loop
  worker,     \* "running", or "dead" after a panic
  process,    \* "up", or how it ended: "exit0", "exit1", "signal"
  shown       \* the first line of the display

R == INSTANCE Receiver WITH Packets <- Sent

receiverVars == <<state, stats, final, partial, marker, missed>>
vars == <<state, stats, final, partial, marker, missed, queue, listening, worker, process, shown>>

\* Line 1 as Display::update composes it.
LineOne ==
  [state_str |-> IF state.file_path = NoPath THEN "Wait" ELSE "Rx",
   files_transferred |-> stats.files_transferred, files_failed |-> stats.files_failed]

Init ==
  /\ R!Init
  /\ queue = <<>>
  /\ listening = TRUE
  /\ worker = "running"
  /\ process = "up"
  /\ shown = LineOne

-----------------------------------------------------------------------------
(* The threads                                                             *)

\* The listener receives a datagram and hands it to the worker; when the
\* worker is gone send fails and the loop ends.
Listen(raw) ==
  /\ process = "up" /\ listening
  /\ IF worker = "running"
     THEN /\ Len(queue) < QueueCapacity
          /\ queue' = Append(queue, raw)
          /\ UNCHANGED listening
     ELSE /\ listening' = FALSE
          /\ UNCHANGED queue
  /\ UNCHANGED <<receiverVars, worker, process, shown>>

\* The display is only forced when a transfer ends.
Forced_EndOnly(f) == f.pkg_type = PKG_TYPE.END

Forced(f) == f.pkg_type \in {PKG_TYPE.START, PKG_TYPE.END}

\* The display after packet f was handled.  Without force an update happens if
\* MIN_INTERVAL has passed.
Refresh(f) ==
  \/ shown' = LineOne'
  \/ ~Forced(f) /\ UNCHANGED shown

Offered(f) == Forced(f) \/ f.count % DISPLAY_EVERY = 0

\* The worker takes a datagram; one that does not decode is skipped.
Work ==
  /\ process = "up" /\ worker = "running"
  /\ queue # <<>>
  /\ queue' = Tail(queue)
  /\ LET f == decode_packet(Head(queue))
     IN IF f = NoPacket THEN UNCHANGED <<receiverVars, shown>>
        ELSE /\ IF f.pkg_type \in {PKG_TYPE[t] : t \in DOMAIN PKG_TYPE}
                THEN R!Handle(Understood(f)) ELSE UNCHANGED receiverVars
             /\ IF Offered(f) THEN Refresh(f) ELSE UNCHANGED shown
  /\ UNCHANGED <<listening, worker, process>>

\* A handler panics (out of memory in the decoder, say) with the locks held.
\* What it had written so far is in a .partial file only.
Panic ==
  /\ process = "up" /\ worker = "running"
  /\ queue # <<>> /\ decode_packet(Head(queue)) # NoPacket
  /\ worker' = "dead"
  /\ queue' = <<>>
  /\ UNCHANGED <<receiverVars, listening, process, shown>>

-----------------------------------------------------------------------------
(* The life of the process                                                 *)

\* main joins the worker, ignores how it ended, and returns.
MainReturns ==
  /\ process = "up" /\ worker = "dead"
  /\ process' = "exit0"
  /\ UNCHANGED <<receiverVars, queue, listening, worker, shown>>

\* The process is killed, or aborts.
Killed ==
  /\ process = "up"
  /\ process' = "signal"
  /\ UNCHANGED <<receiverVars, queue, listening, worker, shown>>

\* main from the top: nothing of the past is in memory, and what the socket
\* and the channel held is gone.
Boot ==
  /\ process' = "up"
  /\ R!Restart
  /\ queue' = <<>>
  /\ listening' = TRUE
  /\ worker' = "running"
  /\ shown' = LineOne'

\* systemd, Restart=on-failure.
Respawn ==
  /\ process \in {"exit1", "signal"}
  /\ Boot

\* The directory cannot be created or the socket not bound: exit(1).
BootFails ==
  /\ process \in {"exit1", "signal"}
  /\ process' = "exit1"
  /\ UNCHANGED <<receiverVars, queue, listening, worker, shown>>

\* An operator starts the service by hand.
Operator == process = "exit0" /\ Boot

Next ==
  \/ \E raw \in Datagrams : Listen(raw)
  \/ Work
  \/ Panic
  \/ MainReturns
  \/ Killed
  \/ Respawn
  \/ BootFails
  \/ Operator

\* The process's threads run and the service manager does its job.  Arrivals,
\* faults and operators are not fair.
Spec ==
  /\ Init /\ [][Next]_vars
  /\ WF_vars(Work) /\ WF_vars(MainReturns) /\ WF_vars(Respawn)

-----------------------------------------------------------------------------
(* Properties                                                              *)

\* Between two packets line 1 of the display says what is the case, although
\* it is only forced for START and END: no other packet opens or ends a
\* transfer, and every way a transfer ends in, an abort by another START
\* included, is shown.
LineOneFresh == process = "up" /\ worker = "running" => shown = LineOne

\* A datagram about to be handled is taken for the packet it was made from, if
\* its number fits the count field: both sides agree on every offset, and on
\* the parity count in the hash field of START.
DecodedAsSent ==
  \A packet \in Sent : queue # <<>> /\ Head(queue) = Encoded(packet) /\ FitsField(packet) =>
    LET f == decode_packet(Head(queue)) IN f # NoPacket /\ Understood(f) = packet

\* After a panic the worker continues (README, "Security model", item 5).
ContinuesAfterPanic == (worker = "dead") ~> (worker = "running")

=============================================================================
