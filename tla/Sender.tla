------------------------------- MODULE Sender -------------------------------
(***************************************************************************)
(* The main thread of diode_send (diode_send/src/main.rs): scan the        *)
(* directory, wait until a file's size stands still, send it as START,     *)
(* DATA batches with parity, END, and remove it.  Between any two packets  *)
(* the rest of the world may move, so each packet is an action.            *)
(***************************************************************************)
EXTENDS Link

CONSTANTS
  CONTROL_RESEND,  \* copies of each START and END packet
  Overwrite,       \* may users replace a file that waits to be sent or is being sent?
  MaxDrops,        \* bound of the model: files users drop
  MaxErrors        \* bound of the model: failing system calls, restarts, withdrawals

ASSUME SenderAssumption ==
  /\ CONTROL_RESEND \in Nat \ {0}
  /\ Overwrite \in BOOLEAN
  /\ MaxDrops \in Nat /\ MaxErrors \in Nat

VARIABLES
  source,   \* source[p]: the content of file p in the watched directory
  snd,      \* the locals of send_files and send_file_chunks
  dropped,  \* dropped[p]: the content users last put under p and did not withdraw
  used      \* what has been used of MaxDrops and MaxErrors

senderVars == <<source, snd, dropped, used, link, lost>>

Idle(todo) ==
  [pc |-> "idle", todo |-> todo, path |-> NoPath, initial |-> 0, filesize |-> 0,
   reading |-> NoFile, count |-> 0, batch_idx |-> 0, batch_payloads |-> <<>>, sent |-> 0]

SenderInit ==
  /\ source = [p \in Paths |-> NoFile]
  /\ snd = Idle({})
  /\ dropped = [p \in Paths |-> NoFile]
  /\ used = [drops |-> 0, errors |-> 0]
  /\ LinkInit

-----------------------------------------------------------------------------
(* Users of the watched directory                                          *)

\* A user puts content x under p, by renaming a finished file into the
\* directory: a reader that is open keeps what it opened.
Drop(p, x) ==
  /\ used.drops < MaxDrops
  /\ Overwrite \/ (source[p] = NoFile /\ snd.path # p)
  /\ source' = [source EXCEPT ![p] = x]
  /\ dropped' = [dropped EXCEPT ![p] = x]
  /\ used' = [used EXCEPT !.drops = @ + 1]
  /\ UNCHANGED <<snd, link, lost>>

\* A user takes a file out of the directory again, at whatever moment.
Withdraw(p) ==
  /\ used.errors < MaxErrors
  /\ source[p] # NoFile
  /\ source' = [source EXCEPT ![p] = NoFile]
  /\ dropped' = [dropped EXCEPT ![p] = NoFile]
  /\ used' = [used EXCEPT !.errors = @ + 1]
  /\ UNCHANGED <<snd, link, lost>>

-----------------------------------------------------------------------------
(* send_files                                                              *)

\* walk_files: the list of files is taken once per round.
Scan ==
  /\ snd.pc = "idle" /\ snd.todo = {}
  /\ \E p \in Paths : source[p] # NoFile
  /\ snd' = Idle({p \in Paths : source[p] # NoFile})
  /\ UNCHANGED <<source, dropped, used, link, lost>>

\* is_file_stable, first look: the length before the delay.  A file that has
\* gone since the scan is passed over.
Watch(p) ==
  /\ snd.pc = "idle" /\ p \in snd.todo
  /\ snd' = IF source[p] = NoFile THEN Idle(snd.todo \ {p})
            ELSE [snd EXCEPT !.pc = "watch", !.todo = @ \ {p}, !.path = p,
                             !.initial = FileSize[source[p]]]
  /\ UNCHANGED <<source, dropped, used, link, lost>>

\* is_file_stable, second look: only the lengths are compared.
Settle ==
  /\ snd.pc = "watch"
  /\ snd' = IF source[snd.path] # NoFile /\ FileSize[source[snd.path]] = snd.initial
            THEN [snd EXCEPT !.pc = "stat"] ELSE Idle(snd.todo)
  /\ UNCHANGED <<source, dropped, used, link, lost>>

-----------------------------------------------------------------------------
(* send_file_chunks                                                        *)

\* fs::metadata: the size the START packets will announce.
Stat ==
  /\ snd.pc = "stat" /\ source[snd.path] # NoFile
  /\ snd' = [snd EXCEPT !.pc = "start", !.filesize = FileSize[source[snd.path]]]
  /\ UNCHANGED <<source, dropped, used, link, lost>>

\* After this packet, have all n of its kind been sent?  If so go to pc.
Counted(s, n, pc) ==
  IF s.sent + 1 < n THEN [s EXCEPT !.sent = @ + 1] ELSE [s EXCEPT !.sent = 0, !.pc = pc]

\* One copy too few.
send_start_packet_OneShort ==
  /\ snd.pc = "start"
  /\ Transmit(MkStart(snd.path, snd.filesize, BATCH_PARITY_CHUNKS), "START", snd.sent = 0)
  /\ snd' = Counted(snd, CONTROL_RESEND - 1, "open")
  /\ UNCHANGED <<source, dropped, used>>

send_start_packet ==
  /\ snd.pc = "start"
  /\ Transmit(MkStart(snd.path, snd.filesize, BATCH_PARITY_CHUNKS), "START", snd.sent = 0)
  /\ snd' = Counted(snd, CONTROL_RESEND, "open")
  /\ UNCHANGED <<source, dropped, used>>

OpenFile ==
  /\ snd.pc = "open" /\ source[snd.path] # NoFile
  /\ snd' = [snd EXCEPT !.pc = "read", !.reading = source[snd.path]]
  /\ UNCHANGED <<source, dropped, used, link, lost>>

\* fs::metadata or File::open finds the file gone: send_file_chunks gives up.
\* After the latter the receiver is left with a START and nothing else.
Vanished ==
  /\ snd.pc \in {"stat", "open"} /\ source[snd.path] = NoFile
  /\ snd' = Idle(snd.todo)
  /\ UNCHANGED <<source, dropped, used, link, lost>>

Remaining == ChunkLen(FileSize[snd.reading], snd.count)

\* read_chunk returns n > 0: send the chunk and remember it for the parity.
send_data_packet ==
  /\ snd.pc = "read" /\ Remaining > 0
  /\ Transmit(MkData(snd.path, snd.reading, snd.count), "BATCH", snd.batch_payloads = <<>>)
  /\ snd' = [snd EXCEPT !.count = @ + 1,
                        !.batch_payloads = Append(@, snd.reading),
                        !.pc = IF Len(snd.batch_payloads) + 1 = BATCH_DATA_CHUNKS
                               THEN "parity" ELSE "read"]
  /\ UNCHANGED <<source, dropped, used>>

\* read_chunk returns 0: leave the loop, by way of a last, short batch if any.
EndOfFile ==
  /\ snd.pc = "read" /\ Remaining = 0
  /\ snd' = [snd EXCEPT !.pc = IF snd.batch_payloads = <<>> THEN "end" ELSE "last_parity"]
  /\ UNCHANGED <<source, dropped, used, link, lost>>

\* One shard of send_parity_packets.  A send error is logged and the next
\* shard tried, so for the receiver it is a lost packet.
send_parity_packets ==
  /\ snd.pc \in {"parity", "last_parity"}
  /\ Transmit(MkParity(snd.path, snd.batch_payloads, snd.batch_idx, snd.sent), "BATCH", FALSE)
  /\ LET s == Counted(snd, BATCH_PARITY_CHUNKS, IF snd.pc = "parity" THEN "read" ELSE "end")
     IN snd' = IF s.pc = snd.pc THEN s
               ELSE [s EXCEPT !.batch_payloads = <<>>, !.batch_idx = @ + 1]
  /\ UNCHANGED <<source, dropped, used>>

\* One copy too few.
send_end_packet_OneShort ==
  /\ snd.pc = "end"
  /\ Transmit(MkEnd(snd.path, snd.count), "END", snd.sent = 0)
  /\ snd' = Counted(snd, CONTROL_RESEND - 1, "remove")
  /\ UNCHANGED <<source, dropped, used>>

send_end_packet ==
  /\ snd.pc = "end"
  /\ Transmit(MkEnd(snd.path, snd.count), "END", snd.sent = 0)
  /\ snd' = Counted(snd, CONTROL_RESEND, "remove")
  /\ UNCHANGED <<source, dropped, used>>

\* fs::remove_file at the end of send_end_packet: whatever the file holds now.
\* That the file is gone already is an error, which is logged.
RemoveSent ==
  /\ snd.pc = "remove"
  /\ source' = [source EXCEPT ![snd.path] = NoFile]
  /\ snd' = Idle(snd.todo)
  /\ UNCHANGED <<dropped, used, link, lost>>

-----------------------------------------------------------------------------
(* Failures                                                                *)

\* The file is removed although sending it failed.
SendError_Removes ==
  /\ snd.pc \in {"stat", "start", "open", "read", "end", "remove"}
  /\ used.errors < MaxErrors
  /\ snd' = Idle(snd.todo)
  /\ source' = [source EXCEPT ![snd.path] = NoFile]
  /\ used' = [used EXCEPT !.errors = @ + 1]
  /\ UNCHANGED <<dropped, link, lost>>

\* A system call of send_file_chunks fails for another reason than ENOBUFS:
\* the error is logged, the file stays and is sent again in a later round.
SendError ==
  /\ snd.pc \in {"stat", "start", "open", "read", "end", "remove"}
  /\ used.errors < MaxErrors
  /\ snd' = Idle(snd.todo)
  /\ used' = [used EXCEPT !.errors = @ + 1]
  /\ UNCHANGED <<source, dropped, link, lost>>

\* The process dies and is started again: it knows nothing of its past.
SenderRestart ==
  /\ snd.pc # "idle"
  /\ used.errors < MaxErrors
  /\ snd' = Idle({})
  /\ used' = [used EXCEPT !.errors = @ + 1]
  /\ UNCHANGED <<source, dropped, link, lost>>

SenderStep ==
  \/ Scan
  \/ \E p \in Paths : Watch(p)
  \/ Settle
  \/ Stat
  \/ send_start_packet
  \/ OpenFile
  \/ Vanished
  \/ send_data_packet
  \/ EndOfFile
  \/ send_parity_packets
  \/ send_end_packet
  \/ RemoveSent

SenderNext ==
  \/ SenderStep
  \/ SendError
  \/ SenderRestart
  \/ \E p \in Paths, x \in Versions : Drop(p, x)
  \/ \E p \in Paths : Withdraw(p)

=============================================================================
