# TLA+ specification of the data diode

This directory specifies the two programs of the repository, `diode_send` and
`diode_receive`, the display they drive and the scripts around them, in TLA+. TLC
checks the modules on small instances, and TLAPS proves the most important
properties for every value of the constants.
`PROJECT.json` relates every definition to the source lines it models, lists the
runs, the mutants that show that each property can fail, the findings, the
hazards and the theorems.

## 1. The system

Files dropped into a directory of the sending machine appear in a directory of
the receiving machine. The only connection is a fibre that carries packets one
way. Nothing ever tells the sender what arrived, so everything rests on
redundancy (repeated control packets, Reed-Solomon parity) and on the receiver
noticing what went wrong.

| component | state | operations | properties that make it correct |
|---|---|---|---|
| wire format (`diode_common/src/proto.rs`) | none | encode and decode headers, chunk and batch arithmetic, `is_safe_rel_path` | both sides agree on the fields of a header, also when a number outgrows its field, and on the chunks of a batch, at the edges of files and batches too |
| receiver, worker (`diode_receive/src/main.rs`) | `ReceiveState` (transfer in progress, buffers of one batch), `Stats`, the output directory with `x`, `x.partial`, `x.failed` | START `new_file`, DATA `buffer_data`, PARITY `buffer_parity`, END `finish_file`; `advance_to_batch`, `finalize_current_batch`, `reset_transfer`, `mark_failure` | what is published is what was sent; one outcome per path, as far as the disk obeys; nothing leaks from one transfer into the next; bounded memory |
| receiver, process (`main`, `diode-receive.service`) | listener thread, channel, worker thread, exit status | receive, hand over, decode, panic, join, restart | sender and worker agree on every header; line 1 of the display is never stale; a panic does not end the service (it does, section 4) |
| sender, files (`diode_send/src/main.rs`) | watched directory, position in the file, payloads of the current batch | scan, stability check, START, DATA, PARITY, END, removal, retry in a later round | a file is deleted only after it was sent; every file is sent |
| link | socket buffers, fibre, listener thread, channel | transmit, lose, deliver | a parameter: how much is lost |
| UDP forwarding, both programs | one flow being reassembled, its last activity | fragment, send `UDP_RESEND` times, reassemble, give way to another flow | only whole datagrams are forwarded; a lost fragment does not block the next ones for ever |
| pacer (`diode_send`) | one atomic word, `next_deadline_nanos` | `wait` | packets an interval apart, also with two threads |
| display (`Display`), Arduino sketch | bytes under way, receive buffer, display memory, cursor, row toggle | `Display::update`, serial protocol, `loop` | an update that arrives is shown, whatever was lost before |
| `bin/split_files`, `bin/merge_files` | files, chunks and a SHA256 manifest on both hosts | hash, split, remove; concatenate, verify, clean up | chunks go only when the file is whole; digests survive a second run |
| `bin/download_packages`, rc.d scripts, test script, hashing, logging | – | – | not modelled (section 8) |

How they interact. The sender's main thread and its UDP thread write to one
socket, through one pacer. At the receiver a listener thread puts datagrams
into an unbounded channel, and the worker thread takes one packet at a time and
handles it completely under the state and stats locks; UDP packets are handed to a
third thread by another channel. Users put files into the watched directory and
read the output directory while both programs work on them. Both programs are
restarted by the service manager. The worker also drives the display, over a
serial line that has no way back either. Large files are cut up before and put
together after the transfer by scripts that an operator runs.

What is hard: loss of any packet, in particular of all copies of a control
packet or of a whole batch; a second transfer of a path meeting the rest of the
first; file operations that fail one by one; restarts between any two steps;
users replacing files between two system calls of the sender; the timeout of a
UDP flow racing the second copy of its datagram; the lock-free pacer; a panic
in the thread everything depends on; a display that loses bytes and is deaf after a
reset; scripts that die half-way and are run again.
`PROJECT.json` lists these under `hazards`, each at its line.

## 2. Modules

| module | models | extends / instantiates |
|---|---|---|
| `Proto` | packets, chunk and batch arithmetic | |
| `Receiver` | worker thread and output directory; packets arrive in any order and any number of times | `Proto`; instance of `DeliveryContract` |
| `ReceiverAudit` | the loop of `advance_to_batch` round by round and the sum behind `bytes_buffered`, to be compared with the closed form and the counter of `Receiver` | `Receiver` |
| `DeliveryContract` | what the receiver promises a reader of its output directory, with no packets, batches or buffers in it | |
| `Link` | lossy FIFO with a capacity | `Proto` |
| `Sender` | main thread of `diode_send`, one action per packet or system call; users | `Link` |
| `Diode` | sender, link and receiver together, restarts of both | `Sender`; instance of `Receiver` |
| `UdpForward` | `forward_udp_packets`, fragments in any order | |
| `UdpPath` | the sender's UDP thread, the wire and `UdpForward` | `UdpForward` |
| `Pacer` | `Pacer::wait`, one action per access to the shared word | |
| `Wire` | the characters of a packet, `encode_packet_into` and `decode_packet` | `Proto` |
| `Process` | `main` of `diode_receive`, listener, channel, worker, service manager | `Wire`; instance of `Receiver` |
| `Display` | `Display`, the serial line, the Arduino sketch and its display | |
| `SplitMerge` | `split_files`, the way of the chunks, `merge_files` | |
| `MCReceiver`, `MCDiode`, `MCUdp`, `MCPacer`, `MCProcess`, `MCDisplay`, `MCSplitMerge` | instances for TLC, and the properties that only make sense on an instance | |
| `ReceiverProofs`, `ReceiverFileProofs` | theorems about `Receiver` | `ReceiverAudit`; the latter `ReceiverProofs` |
| `DiodeProofs` | theorems about sender, link and receiver together | `Diode` |
| `UdpProofs`, `PacerProofs`, `ProcessProofs`, `DisplayProofs`, `SplitMergeProofs` | theorems | `UdpPath`, `Pacer`, `Process`, `Display`, `SplitMerge` |

Definitions named like `clear_batch_KeepsBytes` are mutated forms of the
definition that follows them, and are used by no specification. Each stands for
a plausible mistake in that code and breaks the property `PROJECT.json` names.

### Receiver

One packet is one action, since the worker holds both locks while it handles
one. `state` is `ReceiveState`, field by field (`path_hash` comes from the START
packet and is not compared with the path there, as in the code); `stats` is
`Stats` without the byte total the display shows; `final`, `partial` and
`marker` are the files `x`, `x.partial` and `x.failed` of the output directory.
`missed` is a history variable: how many removals failed for a path since its last
START.

| action | code |
|---|---|
| `StartAgain`, `StartRejected`, `StartNotOpened`, `StartOpened` | `new_file`: the early return for a repeated START, an unsafe path, a failing `open_output_file`, and success. All but the first begin by giving up a transfer of another path |
| `HandleData`, `HandleParity` | the DATA and PARITY arms: `is_chunk_valid`, `advance_to_batch` (with `finalize_current_batch` and its writes), then `buffer_data` or `buffer_parity` |
| `EndStored`, `EndFailed` | `finish_file`: last batch, rename, marker, counters, reset |
| `Ignore` | packets without effect |
| `Restart` | the process is started again |

Bytes are abstracted to the version of the file they come from, and a digest to
whether it matches. A file on disk is, per chunk, a version, a `Hole` (never
written; `set_len` makes the file full of them) or `Garbage`. The Reed-Solomon
library is external: `decode` restores the encoded chunk if all shards given to
it stem from one codeword of the right length, and yields `Garbage` otherwise.

Every file operation may fail on its own. The record `io` holds the outcomes of those
whose result the code looks at, the writes of `finalize_current_batch` and the rename;
`open_output_file` fails in `StartNotOpened`. The others, `fs::remove_file` in
`mark_failure`, `new_file` and `finish_file` and the creation of a marker, are written
`let _ = ...` in the code, which goes on whatever happened: `Fails(ps)` is the set of
the ways in which some of them may fail, and `mark_failure`, `PartialsCleared`,
`ClearWay` and the last part of `EndStored` leave behind what was not removed. Where
the code removes a file twice, once in `new_file` and again in `mark_failure` if the
path cannot be opened, a file that still stands has survived both and counts twice in
`missed`. `IoOutcomes = {TRUE}` is a disk on which nothing fails.

`advance_to_batch` is a loop in the code and a closed form here, and
`bytes_buffered` is a counter that several places of the code keep. `ReceiverAudit` has
the loop (`AdvanceRound`, `AdvanceLoop`) and the sum (`BytesIn`) themselves;
`AdvanceIsLoop` and `BytesAccounted` compare the two in every reachable state.

### Sender, Link, Diode

`snd` holds the locals of `send_files` and `send_file_chunks`, with `pc` for the
position. The two looks of `is_file_stable`, `metadata`, `open`, each packet and
`remove_file` are separate actions, because users and the receiver may act in
between. `Drop` renames a finished file into the directory: a reader that has the
old one open keeps it. `SendError` is any failing system call that makes
`send_file_chunks` return an error; `SenderRestart` a crash. `Withdraw` takes a
file away again at any moment; what the sender's system calls make of that is
in `Watch`, `Settle` and `Vanished`.

The link keeps order and duplicates nothing. How many packets of one group (the
copies of one START, the packets of one FEC batch, the copies of one END) may be
lost is the parameter `MaxLost`, so that runs can separate what the redundancy
promises to survive from what it does not. In `Diode` the receiver is the same module
with its packets coming from the link.

### UdpForward, UdpPath

`fwd` is `UdpForwardState` and `stale` says whether `UDP_FLOW_TIMEOUT` has
passed since `last_activity`; it may become true at any time and every accepted fragment
makes it false. `HandleFragment` is one round of the loop of
`forward_udp_packets`, with a case for every `continue`. `UdpPath` adds the
thread that cuts datagrams into fragments and sends each datagram `UDP_RESEND`
times. `anyLoss` and `refused` are history variables for the properties.

### Wire, Process

A character is a number, 0 to 9 being the digits; what a path, a chunk, a shard
or a digest looks like is a parameter. `Encoded` is what the sender makes of a
packet, `decode_packet` cuts the fields at fixed places, and `Understood` is what
the worker's match makes of them. `Padded` is Rust's `{:010}`: it fills up to the
width and cuts nothing off. In `Process` the receiver of module `Receiver` is fed
from a channel of such datagrams. `Datagrams` are those that can arrive, which may be
anything; `Sent` are the packets senders emit. The locks appear only in what becomes of
them: main uses them once before there is a worker, then only the worker does, and
a panic that poisons them ends it. The recovery code is therefore no action of
the model: no state enables it.

### Display

`tx` holds the bytes written and not yet transmitted, `rx` the Arduino's buffer,
`lcd` the display's memory with its address counter and the sketch's variable `line`.
A byte that meets a full buffer is lost, and so is every byte between a `Reset` of the
Arduino and the `Setup` that follows it (`ready` is FALSE in between): the bootloader
runs, and `setup` has not opened the serial port. `Display::new` waits two seconds for
that after opening the port; a reset by power or button it does not notice. `update` flushes the port, so it does not
begin before `tx` is empty, but the sketch may lag behind. `Elapse` is the passing of `MIN_INTERVAL`:
by then the sketch is through (250 ms at 500 characters a second are 125
characters, a full buffer of 64 and an update of 34 are 98).

### SplitMerge

Each script is a sequence of steps, each of them interruptible: writing the
manifest (atomic, by rename), splitting, removing; concatenating, verifying and
unlinking. A digest is what it digests. Step 2 of `merge_files` is run only if the
host has a manifest and `python3` (`StartVerify`; `InstallPython` is the operator who
finds the chunks still there); without them the script merges, verifies and removes
nothing, and ends with 0. `PushChunk` and `PushManifest` are the diode and its
operator: everything may arrive damaged, and what did not arrive undamaged may be
pushed again, also while `merge_files` runs.

### Pacer

Reading the clock, loading the word, the successful and the failing
`compare_exchange_weak`, and the return are actions of their own; the clock
moves between any two. `slots` and `returned` are history variables.

## 3. Runs that pass

All runs use small values of the protocol's constants: a chunk of 2 bytes, 2 data
chunks per batch, 1 or 2 parity shards, 2 copies of control packets. The code never
uses the actual numbers; what matters are full and short batches, full and
short chunks, batches in the middle and at the end of a file, and redundancy that
is used up exactly.

| run | distinct states | what it checks |
|---|---|---|
| `receiver` | 39011 | Two paths: a file of 9 bytes (three batches, the last one a single byte) and one of 2 bytes, with a chunk of another content under its path; a damaged chunk, an unsafe path. Every packet may arrive at any time, any number of times; a batch with its parity exceeds the memory cap; the receiver may restart at any time; any open, write, rename, removal and creation of a marker may fail. `TypeOK`, `IdleClean`, `BufferBelongs`, `WithinBufferLimit`, `BytesAccounted`. `PublishedIsExactPrefix`: what is published under a path with one version is the file up to some batch, no chunk misplaced or decoded wrongly. `OneOutcome`: a marker stands beside a published file only after two removals failed since the path's last START, and something old of a path being received only after one. `PublishedNeverRewritten`: a published file is overwritten only if removing it failed at the START. `FailureIsFinal`. `AdvanceIsLoop`, for targets up to batch `MaxTarget` = 5, three past the last one. `PartialTracksBatch`: the `.partial` holds data exactly in the batches already left. `RefinesContract`: the receiver implements `DeliveryContract` with a directory that is not reliable. |
| `diode_loss` | 55929 | Sender, link and receiver; two paths, two versions, one of them empty, three files dropped; all but one copy of each control packet and as many packets of each batch as there are parity shards may be lost. `PublishedIntact`, `DeletedMeansDelivered`, `NoFalseFailure`, and the liveness property `EveryFileArrives`. |
| `restarts` | 83635 | Two files; as many packets of each batch may be lost as there are parity shards; one system call of the sender fails, the sender dies or a file is withdrawn, and the receiver dies once, losing what was queued, each at any point. `PublishedIntact`; `EveryFileArrives`, unless it is the file withdrawn or the receiver is restarted; `ServesAfterRestart`: files sent after that arrive. (Losses of control packets are left to `diode_loss`.) |
| `udp_path` | 16560 | Datagrams of 0 to 3 fragments in any order, each sent twice, one fragment of each lost or visibly damaged, the timeout passing at any point. `FlowIsPrefix`, `OnlyWholeDatagrams`; `RefusedOnlyAfterLoss`; `LostOnlyIfRefused`: the other copy makes up for the loss unless the datagram was refused because another one stood in the way; `StaleFlowGivesWay`: that ends with the timeout. |
| `pacer` | 26682 | Two threads, an interval of 2 ticks, calls begin until time 3 and the clock stops at 9. `SlotsAreSpaced`, `RateIsBounded`, `EveryCallReturns`. |
| `process` | 17750 | A count field of one digit, a file of 12 bytes whose size does not fit it, and a file of 3 bytes under the very name the START of the first is mistaken for; datagrams that do not decode, and of another type; panics, kills, failing starts. `DecodedAsSent`: a datagram whose number fits is taken for what it was made from. `OversizeNeverPublished`: the shifted START opens a transfer of the wrong path with a wrong `path_hash`, which no chunk matches. `LineOneFresh`. |
| `display` | 31664 | A display of 2 columns with a memory of 5, a receive buffer of 9 bytes (an update is 6, so two in a row overflow it), two updates after the initial blank one, forced or not, resets with a time of deafness after them. `WholeUpdateShows`, `OverflowNeedsForce`; `UnforcedShows`: an unforced update shows in the end, unless another follows or a reset, or the deafness after one, took a byte of it. |
| `split_merge` | 485074 | Threshold 2; a file of two chunks with a short last one, one of three chunks where split has two names, one at the threshold; one failure or death of a script; any damage, in any order; python3 there, not there, or installed later. `RemovedMeansWhole`, `ManifestOutlivesSplit`, `ArrivedIsMerged`. |

Bounds. `MaxOutcomes` limits the counters of the receiver where packets never
run out: no START opens a transfer once they have reached it. In `receiver` it is 1: a
transfer can abort another one and go on to its own end. Then the state is the initial
one (`IdleClean`), and after a restart, which sets the counters back to 0, the next
transfers find whatever the earlier ones left in the directory.
In `Diode` it is 10 and never reached, so it holds up nothing. `QueueCapacity` bounds
the listener's channel, which has no bound in the code. `MaxDrops`, `MaxErrors`, `MaxRestarts` bound users, errors
and restarts. `LinkCapacity` 2 lets packets of two files be under way together
and lets the sender block. In `Pacer`, `MaxTime` leaves every call that began by
`MaxStart` the time to get its slot (`EveryCallReturns` would fail otherwise).

The `Diode`, `UdpPath`, `Pacer` and `SplitMerge` runs switch the deadlock check off:
once the bounded number of inputs is used up these systems rest, as the programs
do when nothing is dropped into the directory. The receiver alone is checked for
deadlock: it accepts packets in every state.

## 4. Runs that find a disagreement

Each of these states what the repository's README says and shows a behaviour of
the code that contradicts it. The counterexamples need few losses or none.

| run | property | what happens |
|---|---|---|
| `tail_hole` | `PublishedIntact` | All packets of the last batch are lost. END finalizes the batch before it, and nothing compares it with the size announced: the file is published with zeros in place of its tail. README lines 28-29 say it is stored if the hash of the transferred data matches; END carries `EMPTY_HASH`. |
| `repush_mix` | `PublishedIntact` | All copies of END are lost. README lines 121-122 announce a marker; there is none, the transfer stays open. The operator pushes a changed file under the same path, as line 122 asks. Its START is ignored because the path is open, and its chunks join those of the first transfer: a mixture is published. |
| `deleted_unsent` | `LatestArrives` | A file is replaced while the old content is being sent: `remove_file` deletes the new content, which was never sent. No packet is lost. |
| `panic_stops` | `ContinuesAfterPanic` | A handler panics. README lines 102-105 say that the worker recovers the poisoned lock and continues. The worker is the thread that panicked; `main` joins it, returns with status 0, and `Restart=on-failure` does not start the service again. |

More of the same kind, which the models show when their parameters are set so, or
which can be read off a single action:

- With `Overwrite = TRUE` and contents of different sizes, `PublishedIntact` fails
  without any loss: START announces the size `metadata` saw, `open` finds a longer file,
  and a truncated one is published.
- After a lost END with no other file to follow, a transfer stays open for ever,
  neither published nor marked (first half of `repush_mix`).
- If the disk refuses to remove an old file at the START of its path, the file stays
  under its name while the new one is received and is then overwritten by the rename;
  if it refuses to remove an old marker at START and at the end, the marker stays
  beside the published file. `OneOutcome` and `PublishedNeverRewritten` say exactly
  that much and, without their `missed`, fail in `receiver`.
- README lines 86-87 announce a `.failed` marker for a path rejected as unsafe. `new_file`
  counts the failure and returns without calling `mark_failure` (`StartRejected`;
  `DeliveryContract!Refuse` follows the code, so `RefinesContract` does not promise a marker).
- A START whose size has more than ten digits is decoded as one of another path, the
  original one with a digit in front: a file of that name at the receiver is
  removed, although nothing is published in its place.
- `split_files` says that the manifest is moved into place only if the hash command
  succeeded on every file. The status of the inner shell is that of the last one
  only: a manifest without some file passes (`WriteManifest`; `unhashed` records it).
- `split_files` removes the original also if `split` failed or ran out of two-letter
  suffixes (676 chunks, 6.6 GiB) (`RemoveOriginal`).
- `merge_files` unlinks the chunks of every file of the same name, in whatever
  directory: with two equal names in the instance `RemovedMeansWhole` fails.
- Pushing the first chunk of a file again after it was merged and cleaned up makes
  the next `merge_files` overwrite the whole file by that chunk. `PushChunk` leaves
  this out: it pushes nothing that has been merged.
- `merge_files` reads manifest lines of the form `<hash>  <path>`. The `sha256` command
  of OpenBSD, which `split_files` prefers to `sha256sum`, prints `SHA256 (<path>) = <hash>`
  (a comment there says otherwise): of such a manifest `merge_files` finds no entry, so nothing is verified and
  all chunks stay. The model's manifest is one of `sha256sum`.

## 5. Fairness

- `Diode`: weak fairness of `SenderStep` and of `Deliver`. `main` of the sender
  calls `send_files` in an endless loop, and the worker takes packets off the
  channel for as long as there are any; neither waits for the other, except that the
  sender blocks on a full socket, which the drained link ends. Users, losses,
  errors and restarts are not fair. `Watch` takes the files of a round in any
  order, and the round's list is finished before the next scan, so no file starves.
- `UdpPath`: weak fairness of `SendFragment` and `DeliverFragment`, for the same
  reason. The clock is not fair: a flow need not become stale.
- `Process`: weak fairness of `Work`, `MainReturns` and `Respawn`: threads run,
  `join` returns when the worker has ended, and systemd restarts what failed, every
  two seconds, until a start succeeds. Arrivals, panics, kills and operators are
  not fair.
- `Display`: weak fairness of the serial line and of the sketch's loop, which wait
  for nothing. Updates, resets and the setup after a reset are not fair.
- `SplitMerge`: weak fairness of `MergeStep`: `merge_files` is run again and goes through
  with it, as an operator does until nothing is left. `split_files`, pushes, deaths and
  the installation of python3 are not fair.
- `Pacer`: weak fairness of the clock and of each thread's steps; strong fairness
  of the successful exchange. The exchange of one thread fails only because the other's
  succeeded, and that one then waits for its slot, or spuriously. That it
  does not fail spuriously for ever is what `compare_exchange_weak` gives in
  practice and not more than the code relies on.

Liveness is not proved: it is model-checked only.

## 6. What is proved

Every theorem holds for all sizes, paths, versions, sets of packets, outcomes of
file operations and orders of arrival, restarts included, unless it states a
hypothesis of its own (the whole diode below). The assumptions are
the `ASSUME`s of the modules: positive sizes, disjoint model values, packets of
the right form. TLC evaluates them in the runs. Three of them say more than that.
`DisplayAssumption`: the Arduino's buffer holds one update (34 bytes, the buffer has
64), and the lines consist of printable characters, which the format strings of
`Display::update` guarantee. `SplitAssumption`: having no manifest is not the
same as having one that lists nothing. `WireAssumption`: different paths and payloads
have different digests, a number of `COUNT_DIGITS` digits is a `u64` and a `u64` has at
most `HASH_LEN` digits (10 and 32 in the code), and `None` is no header.

**Receiver** (`ReceiverProofs`). `TypeCorrect`, `NothingLeaks`, `BuffersBelong`,
`OutcomeIsUnique` and `MemoryIsBounded` state `TypeOK`, `IdleClean`,
`BufferBelongs`, `OneOutcome` and `WithinBufferLimit`. They follow from one
inductive invariant,

    IInv == Sound(state) /\ DirectoryOK /\ IdleClean /\ OneOutcome

`Sound(s)` collects type, `Belongs` and the memory cap for a state *value*, so
that the lemmas about `advance_to_batch`, `buffer_data` and `buffer_parity`
can be stated once for the intermediate states inside a handler. None of the
parts is inductive alone: `new_file` sets neither buffers nor counters, so
`Belongs` needs `IdleClean`; a chunk can be written only because `OneOutcome`
says that the `.partial` of an open transfer exists; and the type of what FEC
restores needs that buffered shards come from packets. `NextIInv` has one lemma
per action. No theorem takes the disk to work. What a removal that fails does is in
`MarkFailureStep` (a file of the paths given up is gone, or it stayed and its count
went up) and `ClearWayStep` (the same for a START, which begins the count anew).
`Twice`, the first half of `OneOutcome`, is the delicate one: a marker that comes, or
stays, beside a file that stayed must find two failures counted. `MarkFailureTwice`
gets the second one from the fact that a path being received had nothing old, unless
its START failed once already.

`CounterIsExact` states `BytesAccounted`: the counter that the memory cap is checked
against is the sum of the lengths of all that is buffered. The invariant is
`Accounted(state)` on top of `IInv`. A sum over a set is an induction over its
elements. The library's induction theorems take a predicate as a parameter, which no
installed prover can instantiate, so the predicate is a set here: `NatInductionSet`
and `SubsetInduction` follow from the least-element theorem `WFMin`, and
`SumCountsBytes` evaluates `MapThenSumSet` one element at a time. `BytesAreBounded` puts
`CounterIsExact` and `MemoryIsBounded` together: what the buffers hold, and not only
what the counter says, stays within `BUFFER_BYTE_LIMIT`.

**Implementation of the contract** (`ReceiverProofs`).
`ImplementsContract`: every initial state maps to one of `DeliveryContract`, and
every step of the receiver is a step of it or a stutter, under `IInv`. One lemma per
action. The contract is told whether the directory is reliable (`DirectoryReliable`,
which is `IoOutcomes = {TRUE}` here): if it is, old files and flags are gone at once;
if not, any of those a step means to remove or to raise may stay as they were, and the
theorem covers both. `NeverRewritten` and `FailureStays` are the action properties
`PublishedNeverRewritten` and `FailureIsFinal`.

**The file** (`ReceiverFileProofs`). `PartialIsTracked`: `PartialTracksBatch` on
top of `IInv`. The argument is arithmetic: the chunks of a batch are those `i`
with `i \div BATCH_DATA_CHUNKS` equal to the batch, `finalize_current_batch`
writes all of them, and no batch is left without it, unless the transfer failed.

`ClosedFormIsExact` states `AdvanceIsLoop`, for a target any number of batches ahead:
the loop of `advance_to_batch` ends where its closed form says. By induction over the
rounds (`LoopWalks`), after `k` rounds the state is the one of the walk `Stepped`
describes: the first round can fail as the closed form says, and it leaves an
empty batch behind, from which either every further round fails (a batch of the file
of which nothing was buffered, `EmptyBatchNext`) or none (past the end of the file).

`PublishedStaysExact` states `PublishedIsExactPrefix`: if all intact packets of a path
carry one content (`SoleContent`; damaged packets and other paths may carry
anything), what is published is that content up to some batch and holes after it.
It needs, beside the two invariants above, `ContentInv`: everything buffered for
the path, and everything in its `.partial`, is of that content. The step that
matters is `finalize_current_batch`: where a chunk is missing and FEC goes
ahead, there is at least one shard (`FecHasShard`, by counting), all shards
are of one codeword of the right length, and all data chunks are in it, so
what is restored is the chunk sent (`RestoredExact`). How far the prefix goes is
not claimed: `tail_hole` shows that it may end before the file does.

**The whole diode** (`DiodeProofs`). `PublishedAlwaysIntact`, `DeletedIsDelivered` and
`NeverFalselyFailed` state `PublishedIntact`, `DeletedMeansDelivered` and
`NoFalseFailure` for any number of files of any size, any batch and chunk size and any
capacity of the link. They have a hypothesis, `Recoverable`, because without one
they are false (section 4; the first needs less, see below): of every START and END at least one of the `CONTROL_RESEND`
copies arrives, of every batch no more packets are lost than it has parity shards, a
batch with its parity fits below `BUFFER_BYTE_LIMIT`, users do not replace a file
that waits or is being sent, and no system call, process or file operation fails. The
constants of `diode_loss.cfg` satisfy it.

The invariant, `DiodeInv`, says where the three parts stand relative to each other.
Every packet gets a *mark*: path, content, batch, place in the batch, and how many
packets of the batch the link took up to it. `Trace(g)` says that there is a
sequence of marks `g`, the first for the packet handled last and one for each packet
of the link, such that

- each packet is the one its mark describes (`Carries`), and each mark may come after
  the one before it (`Follows`: transfers follow each other whole, and a batch begins
  only when at least as many packets of the one before got through as it has data
  chunks);
- the receiver is where the first mark puts it (`Rx`): its buffers hold as many
  packets of the batch as the mark counts, and the `.partial` exactly the batches
  before;
- the sender is where the last mark puts it (`Tx`), its losses included;
- a file that was deleted is published, or its END is in the trace with nothing of
  that path behind it (`Settled`).

A step of the sender appends a mark or none (`GoStart`, `GoData`, `GoParity`, `GoEnd`,
`GoSilent`, `GoFail`, then `MarkedGoes`, `MarkedRemoves`, `MarkedDrops`), and a delivery
takes the first one off (`MarkedDelivers`; `TakeStart`, `TakeChunk`, `TakeEnd`, then
`TraceDelivers`). The step
that matters is the first packet of a new batch, or END: the packets of the old batch
are at least as many as its chunks, so that `finalize_current_batch` restores all of
them and `advance_to_batch` loses nothing (`BatchDone`, `EnterNext`, `LastBatch`).

`IntactDespiteFaults` keeps of `Recoverable` only what it says of losses and of users
who replace files (`LossBounded`). `PublishedIntact` then holds for any number of
failing system calls and restarts of the sender, restarts of the receiver that lose
what was queued, failing file operations of the receiver and any `BUFFER_BYTE_LIMIT`,
in every behaviour in which no file is withdrawn (`NeverWithdrawn`). The other two
properties are false then: the receiver fails transfers, and what it lost is not sent
again. The invariant is `SafeInv`. The marks still describe sender and link, where a
transfer may now break off after any packet, to be followed by a START of another path
or of the same path and content (`Follows`, `Between`). The receiver need no longer be
where the first mark puts it (`RxSafe`): it is without a transfer, in a failed one of
that path, or in one of that path and content in which it is *not behind* the mark. It
may be ahead when the sender begins a file again while the receiver still has it open.
That is enough: a batch that can be finalized at all is written as it was sent
(`FinalizedIs`); packets of earlier batches change nothing, later ones move the
receiver on or fail the transfer (`SafeChunk`); and since END follows the last batch,
a receiver that is not behind publishes the whole file or nothing (`SafeEnd`).

The hypothesis on withdrawals is needed. A file is announced and vanishes before it is
opened, so that its START is left alone (`Vanished`); the user puts another content
under the same path, whose START is ignored because the path is open, and its chunks
are published with the size of the first (the cause of `repush_mix`, without its loss
of END).

**UDP** (`UdpProofs`). `FlowStaysPrefix` and `WholeDatagramsOnly`, from the
invariant `UdpInv`: the flow is empty or a proper beginning of one datagram with as
many fragments counted as bytes appended. The assumption on fragments is that
each is genuine or visibly malformed, since UDP packets carry no digest.
`PathKeepsFlows` is the same for `UdpPath`, where that is not an assumption but what
the sender emits and the fibre makes of it. `RefusedNeedsLoss`
(`RefusedOnlyAfterLoss`): as long as nothing is lost, the fragments on the wire and
the one the sender will send next follow each other, and the first of them is the one
the receiver waits for (`InOrder`); the copies of a datagram end where the next begins,
so no flow is open when a fragment of another arrives.

**Pacer** (`PacerProofs`). `SlotsStaySpaced`, for any number of threads: every
slot given out lies an interval before `next_deadline`, so the next one cannot come
too close. `RateStaysBounded` (`RateIsBounded`): a call that has returned has passed its
slot (`PassedInv`), and slots of one stretch of time fall into different intervals
(`DifferentIntervals`), of which there are only so many.

**Line 1 of the display** (`ProcessProofs`). `LineOneStaysFresh`: chunks leave alone what
line 1 is made of (`SameLine`), also when they fail the transfer; every other
packet is followed by a forced update.

**The wire** (`ProcessProofs`). `DecodedAlwaysAsSent` states `DecodedAsSent`, for any
field widths, any images of paths and payloads, and any datagrams beside those of the
sender. `Pow10` is a recursive function, so the first thing to show is that a function
with its equation exists at all (`PowersExist`, by `NatInductionSet` as above, and
`Pow10Is`). Then `Padded` gives exactly as many digits as the field has (`PaddedIs`),
and reading them one by one gives the number back (`DropDigit`, `PaddedReads`). Each
field is found where it was put (`EncodedIs`, `FieldIs`), and a field that holds a
digest or an image tells what of (`NamesAreUnique`).
`ReceiverInside`: if nothing arrives but such datagrams and those the worker skips
(`Genuine`), the process implements module `Receiver` for the packets sent, panics, kills
and starts being its `Restart` or stutters. What `ReceiverProofs` says of every sequence
of packets thus holds with wire, channel and service manager around it.

**Display** (`DisplayProofs`). `OverflowAlwaysNeedsForce` from `BufferInv`: what is
under way and what is buffered amount to one update at most, if the last one was not
forced, since an unforced one waits for `MIN_INTERVAL`, by which time the sketch is
through. `WholeUpdateAlwaysShows` from `ShownInv`: if the last update lost nothing, the
bytes still to come are its tail, and the display shows what precedes that tail
(`Progress`), whatever row and column a mutilated update before it left: the carriage
return sets both.

**Scripts** (`SplitMergeProofs`). `ManifestAlwaysOutlivesSplit` from `ManifestInv`: a
manifest is written only while every file is in one piece, and never again.
`AlwaysRemovedForOriginal` from `RemovedInv`: for any names, chunks are gone only if a
file of the same name was merged and is the original. `RemovedIsWhole` adds the
hypothesis that names are distinct and gets `RemovedMeansWhole`; without the
hypothesis that property is false (section 4).

## 7. Model-checked only

- Liveness: `EveryFileArrives`, `ServesAfterRestart`, `LostOnlyIfRefused`,
  `StaleFlowGivesWay`, `EveryCallReturns`, `UnforcedShows`, `ArrivedIsMerged`. Liveness under fairness is out of the provers' reach.
- `OversizeNeverPublished`, which is about one file of its instance.
- `PublishedIntact` when files are withdrawn (run `restarts`, where all files have the
  same content). With restarts and failures alone it is proved.

## 8. Not modelled

- Writing into a file while it is read: the code takes no precaution against it,
  and the result is a mixture. Symbolic links (skipped by `walk_files`). A path named
  `x.partial` or `x.failed` beside a path `x`.
- `is_safe_rel_path` as a function of components: the paths it accepts and rejects
  are two sets, and the runs have paths of both.
- Equal ids of two UDP flows (an MD5 of the time of sending).
- `stats.total_transferred` and the texts of the display's lines, except for what
  line 1 says; errors of the serial port, which `update` ignores; log output.
- The recovery code for poisoned locks, which no execution reaches (section 2).
- systemd's limit on restarts within an interval, and that the service comes back after
  an exit status other than 0 (what `Restart=on-failure` promises by itself).
- Errors of `ReedSolomonDecoder::new`, which fails the transfer like a missing shard
  does (`FecPossible`), and the decoder's dependence on the encoder's number of shards,
  which is `BATCH_PARITY_CHUNKS` on both sides (`Restored`).
- A number with a leading `+`, which Rust's `parse` accepts and no sender writes
  (`Parses`).
- `download_packages`, a script around `wget` and `rsync` whose state is that of
  remote servers; rc.d scripts and tests, which are configuration; `md5_hex`, the
  logger and the `sha256` tool, which are pure functions of bytes.
- The conversion of a rate in Mbit/s to the pacer's interval, and clocks near 2^64 ns.

## 9. Plan

Done in this order: `Proto`, `Receiver`, `DeliveryContract` and their proofs;
`Link`, `Sender`, `Diode`; `UdpForward`, `UdpPath`; `Pacer`; `Wire`, `Process`;
`Display`; `SplitMerge`.

Proved: first `Receiver`, its contract and its `.partial` file, `UdpForward` and the
pacer's slots; then what is published, the whole UDP path, the pacer's rate, the
display, line 1 and the two scripts; then the diode as a whole, for losses that FEC and
repetition make up for; and last the counter behind the memory cap, the loop of
`advance_to_batch`, the wire format, the receiver inside its process, and what the
diode publishes when system calls fail and processes are restarted.

What is left: `PublishedIntact` where files are withdrawn but every path always gets
the same content. The content a transfer sends would have to be a variable of the
proof, since the watched directory no longer holds it.

## 10. Running

    tlc -config receiver.cfg MCReceiver
    tlapm ReceiverProofs.tla

and likewise for the other configurations and proof modules.
