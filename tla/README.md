# The wspace access point in TLA+

A model of the access point of wspace (`src/src/wspace_ap_scout.cc` and the
files around it): a base station that sends packets to several clients over a
lossy wireless link, codes them in batches, and learns over a separate cellular
link what arrived. Everything here is translated from the C++ source; the file
names below are relative to `src/src/`.

## The system

Per client (`ClientContext`) three threads run: the sender `TxSendAth`, the
data-ack thread `TxHandleDataAck` and the raw-ack thread `TxHandleRawAck`.
Shared by all clients are `TxRcvCell`, which reads the cellular link, and
`TxSendProbe`, which adds probes to every window.

| component | state | operations | talks to |
|---|---|---|---|
| send window `TxDataBuf` | `head_pt_`, `curr_pt_`, `tail_pt_`, a ring of `BUF_SIZE` slots with bookkeeping and a lock each, `qlock_` | `EnqueuePkt`, `DequeuePkt` | producers, sender, data-ack thread, through shared memory |
| data acks and timeouts | `expect_data_ack_seq_`, `dup_data_ack_cnt_`, `contiguous_time_out_` | `HandleDataAck`, `HandleTimeOut` | moves the cursors and slots of the window |
| ack mailboxes `AckContext` | `ack_available_`, `pkt_`, `lock_`, two condition variables | `RcvAck`, `TxHandleAck` | `TxRcvCell` and one handler thread each |
| sender `TxSendAth`, encoder `CodeInfo` | the state machine, the batch, `k`, `start_seq_` | four states, `PushPkt`, `EncodeBatch`, `ClearInfo` | takes from the window, hands coded packets to `SendCodedBatch` |
| raw packet status `TxRawBuf` | `info_deq_` | `PushPktStatus`, `PopPktStatus`, `ClearPktStatus` | sender, raw-ack thread, `HandleTimeOut` |
| `FeedbackRecords` | `records_`, a window of time | `InsertPacket`, `CalcLossRates`, `FindSuccessRates` | filled by the same three threads, read by rate adaptation |
| `ScoutRateAdaptation`, `LossMap` | rate, loss per rate | `MakeDecision`, `CalcLossRates`, `SetHighLoss` | called by the sender, `InsertFeedback` and `HandleTimeOut` |
| baselines `SampleRate`, `RobustRate` | tables per rate | `InsertRecord`, `ApplyRate` | behind `ScoutRateAdaptation` |
| reports `SendLossRate` | `bsstats_seq_` | one packet per call | all threads that insert feedback |
| drop emulation `PacketDropManager` | loss traces | `PopLossRates`, `GetLossRate` | `SendCodedBatch`, `UpdateLossRates` |
| erasure code `fec.cc` | tables of GF(2^8), one `fec_parms` per batch | `init_fec`, `fec_new`, `fec_encode`, `fec_decode` | the encoder here, the decoder in the client |
| `MonotonicTimer` | a `timespec` | comparison, `+`, `-` | records, windows of time |
| GPS, tunnel, thread wrappers, options | - | I/O | - |

What is hard in it:

* four threads share one window under two levels of locks, and the sender uses
  what `DequeuePkt` returned after the slot is unlocked;
* the cursor `curr_pt_` moves *back* for retransmissions while the sender works;
* acks are lost, late and repeated, and list nacks for packets whose state has
  changed; timeouts do the client's part when it is silent;
* one thread fills the mailboxes of all clients and waits for a full one;
* three threads append to, take from and clear the record of raw packets;
* loss rates are written one rate at a time by two threads and read one rate at
  a time by the sender, and the baselines' tables have no lock at all;
* every client's sender may be the one that generates the tables of the field.

What makes each component correct: the window never overwrites, forgets or
sends too often, and an ack does not free what it nacks; every ack reaches its
handler once and in order and nobody sleeps through the news; a batch is what
its header says and leaves in the end; each raw packet is reported once, and
truthfully; a decision can be encoded and sent whatever losses it was made
from, and is cautious when all is lost; any k packets of a batch recover it, and
a batch that cannot be decoded leaves what was received.

## The modules

| module | models |
|---|---|
| `SendWindow` | abstract specification: what the window promises, per packet |
| `TxDataBuf` | `TxDataBuf`/`BasicBuf`, `HandleDataAck`, `HandleTimeOut` and their threads |
| `TxDataBufRefinement` | the refinement mapping from `TxDataBuf` to `SendWindow` |
| `TxSendAth` | the sender and its encoder, on top of `TxDataBuf` |
| `AckContext` | the mailboxes between `TxRcvCell` and the handlers |
| `TxRawBuf` | `TxRawBuf`, its three callers, and `FeedbackRecords::InsertPacket` |
| `GaloisField` | the tables of `fec.cc` and the threads that generate them |
| `Fec` | matrices, encoding and decoding over those tables |
| `CodeInfo` | a batch from `PushPkt` over the air to the client's `DecodeBatch` and `PopPkt` |
| `MonotonicTimer` | the arithmetic of timers |
| `FeedbackRecords` | the records as a sequence, `BinarySearchRecords` and the lookups |
| `RateDecision` | the arithmetic of `MakeDecision`: losses, rate, `k`, `n`, samples |
| `BaselineRates` | `SampleRate`, `RobustRate` (RRAA) and `RateAdaptation` |
| `RateControl` | `ScoutRateAdaptation` between the sender and two feedback threads; composes the four above |
| `MCTxDataBuf`, `MCTxSendAth`, `MCAckContext`, `MCCodeInfo`, `MCRateControl` | model values for TLC |
| `TxDataBuf_proofs` | theorems about the window: types and cursors; what its slots hold; that it implements `SendWindow`, and what that promises; what needs a single producer |
| `TxSendAth_proofs` | theorems about the sender and its batches |
| `AckContext_proofs` | theorems about the mailboxes |
| `TxRawBuf_proofs` | theorems about the raw packets and their fates |
| `GaloisField_proofs` | that the generated tables are the field |
| `Fec_proofs` | theorems about sums, matrices, polynomials, both inversions, `shuffle` and `fec_decode` |
| `CodeInfo_proofs` | that any k packets recover a batch |
| `RateControl_proofs` | theorems about timers, lookups, redundancy, rates, decisions and the baselines' tables |

### TxDataBuf

Cursors are positions 0, 1, 2, ...; position `p` lives in slot `p % BufSize`.
`qlock` and `lock_arr` record the owner of each lock. A producer takes four
steps: it reads the tail (`EnqueueReadTail`), locks the queue, locks the slot
and moves the tail, and stores. The first comes before the lock, as in the
code (`wspace_asym_util.cc:153`). The sender takes three. The ack thread holds
`qlock_` for a whole handler and one slot per iteration, so a handler is one
step per iteration; each branch of the two loops is an action of its own. A
step that locks a slot, works and unlocks it is one action guarded by the slot
being free: the other threads cannot observe more of it.

Abstractions:

* The nacks of an ack are in increasing order, so `nack_arr[nack_cnt ..]` is
  the set `nacks_left` and `nack_arr[nack_cnt]` its minimum.
* Timestamps are reduced to their order (`sent_before`). When a handler starts,
  `overdue` is a nondeterministic set of slots closed under "sent before":
  what may then be older than `rtt_` (or 1.2 `rtt_`). A slot that is sent again
  while the handler runs leaves the set.
* The client is external: an ack may nack any set of packets that were sent,
  with any ack number. Acks below `expect_data_ack_seq_` change nothing and are
  left out. "Sent" is taken at `DequeuePkt` in `TxDataBuf`, which allows more
  acks than the real client; `TxSendAth` restricts it to what is on the air.
* Packet contents and lengths are left out here; `TxSendAth` has them.

### TxSendAth

The states of the switch in `TxSendAth`, one action per state and outcome. The
call of `PushPkt` after `DequeuePkt` is a state of its own, because the packet
is copied there, after its slot was unlocked. `payload` is the identity of the
bytes in a slot; `batch` is what the encoder holds. `MakeDecision` is a
nondeterministic `k` in 1 .. `MaxBatch`, which `DecisionSound` of `RateControl`
justifies; `n`, rates and duplicates over the cellular link are there. One action can abstract the sends of a batch,
since no other thread reads the encoder.

### AckContext

`lock_` is held from the entry of `RcvAck` or `TxHandleAck` to a wait or the
return, so each such stretch is one step. A wait ends by a signal, by its
timeout (data acks only) or spuriously, and the thread then competes for
`lock_` again. Acks are numbered per mailbox to tell them apart.

### TxRawBuf

Each call into `TxRawBuf` or `FeedbackRecords` is under that object's lock and
is one step; between the calls the threads interleave, in particular between
the packets one `InsertFeedback` adds. Sending times are the raw sequence
numbers. `HandleTimeOut` may clear the buffer at any time, which allows more
than the counting of contiguous timeouts does. The client acknowledges raw
packets window after window, each packet in one ack, and the network may
lose, repeat or reorder acks. Windows that did not overlap are an assumption on
the client, which is not in this repository; the assertion in `PushPkts`
needs it too.

### GaloisField, Fec, CodeInfo

The bits of an element are those of a number, and the exclusive or goes through
them by halving. The field itself is defined without tables (`Product`,
polynomials modulo `Pp`), to compare with. `init_fec` is cut into the steps
in which another thread can make a difference: the flag is read, the powers of
the generator up to `GF_BITS` are set and the polynomial's terms added one by
one, the rest is filled. The matrices are functions from row and column, and
the loops over them are translated with their bounds and order, pivoting and
the in-place exchanges of `shuffle` included. `CodeInfo` is the sequence of
calls on the two objects of a batch. `Payloads` are the packets that may come:
any words in the theorems; one batch of linearly independent packets for TLC, so
that no wrong combination of them gives back one of them. `MaxBatchSize` bounds
only the matrices of `VandermondeInverted`. The air loses, repeats and reorders.
`CodeInfo::DecodeBatch` returns nothing and only prints when `fec_decode` fails,
so the model keeps no result either: `PopDecoded` hands out the buffers as they are.
Left out: `SLOW_FEC` variants, unrolled loops, byte
order, and `GF_BITS` above 8, which the build does not use.

### RateControl and what it is made of

`FeedbackRecords`, `RateDecision` and `BaselineRates` are operators, without
variables; `RateControl` has the state and the threads. Each `LossMap` and the
records have a lock held for one call, so one call is one step, and loops over
the rates interleave between calls. The baselines have no lock: entering and
leaving `InsertRecord` and `ApplyRate` are steps of their own. If two threads
are inside at once the behaviour is undefined; the tables then hold an
arbitrary value for good (`base.raced`) and any rate may be returned. This
still assumes that the race neither crashes nor returns what is not a rate.

Abstractions:

* Losses and redundancies are thousandths, rounded down. Where the code rounds
  a quotient to packets, `Floors` and `Ceils` are the sets of what floating
  point may give if the quotient is a whole number.
* Numbers of packets are far below 2^31 with one exception: for a retransmission
  `scout_rate.cc:791` converts `k/(1 - redundancy)` to an int, with a redundancy
  that may be a rounding error below 1. A redundancy of 999 or 1000 thousandths
  may be that close, so `AsInts` adds the outcome of the conversion on an x86,
  `INT_MIN`, to the quotients. Where conversions saturate the largest int results,
  which is cut to `kMaxN` like any other.
* An assertion on n that fails stops the whole program: the sender's state is then
  `"stopped"` and no thread takes a step (`Running`). `NDEBUG` is not set
  in the Makefile.
* The packets of one client have one length, so that counters of lengths follow
  from those of packets. Both baselines use the rates of the scout, although
  RRAA's table has fewer.
* When history expires in `RateAdaptation` is nondeterministic (`old`), and so is
  the interval after which failures in a row are forgotten.
* Raw packets are what `TxRawBuf` has of them: some oldest ones are told by a raw
  ack, the rest is cleared by a timeout. Of a batch only the last packets
  (`MaxFollowed`, among them the sampled rate) are followed to their feedback.
  Insertions by the sender itself, on overflow, are in `TxRawBuf` only.
* The front antenna's records are empty, and its map changes only in
  `SetHighLoss`: nobody calls `InsertFeedback(kFront, ...)`. `RcvGPS` sets the
  speed to 0, which leaves the lookup by speed dead.
* `feasible_rates_` is empty when no rate succeeds, and `IsFeasible` then admits
  all, as in the code.
* `DecisionAssumption` asks that one packet of each rate fits in the coherence
  time. The code takes it from its options and asserts it too late.
* In `-r` the rate is an option; only `Fixed` is started with every rate.

## The runs

| run | asks | answer |
|---|---|---|
| `one_producer` | cursors, overwriting, budget, stranding, order of first transmissions, and does the walk over an ack stay aligned with its nacks; B = 3, two retransmissions, 4 packets, 2 acks | holds |
| `two_producers` | what still holds with `TxRcvCell` and `TxSendProbe` together; refinement of `SendWindow`; B = 2, 3 packets | holds |
| `two_producers_nack` | does an ack still keep what it nacks | violated |
| `send_ath` | batches: consecutive, complete, own bytes on first transmission, assertions; is a started batch sent, and does every packet leave the window, also without acks; one producer, one retransmission, 3 packets | holds |
| `send_ath_payload` | do retransmissions carry their own bytes | violated |
| `send_ath_default_payload` | without retransmissions, the default, does the only transmission carry its own bytes | violated |
| `ack_context` | order, no loss, no sleeper, every ack handled; two data mailboxes and a raw one | holds |
| `raw_feedback` | is the buffer without gaps, each raw packet taken out once and its fate recorded truthfully, also when the buffer overflows in a batch | holds |
| `raw_overflow_twice` | is each raw packet recorded once when the buffer overflows | violated |
| `fec` | are the tables the field, does every set of k packets recover the batch, does a batch with a repeated packet leave what was received, are sizes the batch's own; GF(2^8), up to 3 packets of 5, inversion up to 10 | holds |
| `fec_two_clients` | are the tables right when two senders start at once | violated |
| `rates` | can every decision be encoded and sent, and when may an assertion stop it, is it cautious when all was lost, is a lossy rate the lowest, do lookups count the right packets, do the baselines' tables match their history; eight settings of six versions | holds |

Each passing property has a broken variant of one definition (the operators
marked "Broken variant") under which TLC finds it violated.

### Bounds

`MaxEnq`, `MaxAckSeq`, `MaxAcks` and `MaxRaw` bound what arrives; nothing else
is cut. Four packets in a window of three, or three in a window of two, reuse a
slot while an older ack, nack or sender still refers to it, and three slots put
one between the first and the last that an ack covers. Two retransmissions give
both branches of "first retransmission or older than `rtt_`". Two acks are
enough for one to act on what another left. Two producers with three packets
can collide on a sequence number and then be acked. Duplicate acks and
contiguous timeouts count to two. Four raw packets overflow a buffer of two,
leave room for a batch that goes on, and exceed the records' window of two. Of
mailboxes, three show a client waiting for another and both types.

In `send_ath` acks are numbered up to 2 (`MaxAckSeq`) and there is one
retransmission, to keep the liveness check small; the order of acks and the second
retransmission are the subject of `one_producer`.
`fec` has the codes <<1,2>>, <<2,2>>, <<2,4>> and <<3,5>>: no redundancy, one data
packet, and up to as much redundancy as data. `fec_two_clients` has GF(2^3): the
interleaving does not depend on the width.

In `rates` there are ten ns to the second, so that sums carry; two rates, 1 and
5.5 Mbit/s, of which at most 3 and 13 packets fit in the coherence time, below
and above the 5 that can be encoded; `kMaxK` is 2. A setting bounds how many raw
packets are followed (`pkts`, 1 to 3) and how often the limit of timeouts is
reached (`timeouts`, 0 to 2), and of how many packets one raw ack tells (`known`, 2). Two followed packets are enough to have an acked and
a lost one at the same rate, or at different ones, in one or two lookups, by one
or two threads; three make one expire while another remains. The two RRAA
settings have the race between all threads and the arithmetic of FEC apart. The
eighth setting, which reaches the stop at line 801, follows five packets, four of them
told by one raw ack: three lost of four and then one of one make a loss of
.2 x .75 + .8 = .95, which is 950 in the model.

`send_ath_default_payload` has no retransmissions and a window of two; four packets fill it, and once more while the sender holds the
address of the first.

### Fairness

* `SendFairness` (`TxSendAth`): every thread runs. The locks are strongly fair
  to a thread that keeps asking: nobody sleeps while holding them, and the ack
  thread sleeps up to `ack_time_out_` with the queue unlocked. The sender's
  wait times out when it keeps finding the queue empty. A handler that began
  ends. While no ack comes the wait for one times out, again and again
  (`ack_time_out_`): the action is strongly fair because the ack thread
  alternates between waiting and handling. No packet and no ack need ever come. `BatchIsSent` needs no more.
* `PacketsGrowOld`, under which `AllLeave` is stated: a timeout that finds a
  packet again and again at last finds it overdue, because time passes. Acks
  are bounded, so the client falls silent in the end.
* `AckContext!Fairness`: only that threads which are not waiting run. Timeouts
  and spurious wakeups are not needed and not assumed.

## Proofs

The theorems hold for every value of the constants that satisfies the
assumptions of the modules (a window of at least one slot, distinct threads,
natural bounds, ascending rates of which one packet fits in the coherence time,
packets sent more than 1 ns apart, a polynomial that is primitive). In each proof an inductive invariant was
model-checked first; then there is one lemma per action, or per group of actions
that disturb the same parts.

**The window** (`TxDataBuf_proofs`). `TypeCorrect`, `CursorsInOrder`. The order of
the cursors is not inductive: a handler computes `head_pt_final` and
`curr_pt_final` while producers move the tail. `WindowInv` adds who owns `qlock`
(`LockOwners`), that sequence numbers do not exceed the tail (`SeqsBelowTail`),
that a packet being sent is behind the tail, and that the handler's cursors lie
between its start and the tail (`ScanInWindow`). The last needs the sequence
numbers because `HandleTimeOut` takes positions from them, but does not need them
to be right, so two producers are covered.

**The slots** (`TxDataBuf_proofs`, second part), for any number of producers:
`EnqueueNeverOverwrites`, `DequeueAssertsHold`, `NoneStranded`. The invariant
`SlotsInv` says who holds each slot's lock (`LockTable`), that slots outside the
window are empty, and what a handler knows of the positions it passed (`AckScan`,
`TimeOutScan`). With several producers two positions may carry the same number,
and `HandleTimeOut` then moves `head_pt_` past a position it has not looked at.
That this position is free follows only from `BudgetOrder`: an older packet never
has more retransmissions left than a younger one, and with as many left it was
sent before. `OverdueOrder` is its counterpart for what a handler finds too old.

**Refinement** (third part): `WindowImplemented`, for any number
of producers. `Shown` says what the mapping makes of each position; every step of
every thread is then one step of one packet of `SendWindow`, or shows nothing. What
the window promises is proved of `SendWindow` and carried over: `WindowIsSafe` (packets
in the buffer are less than B apart, first transmissions and departures respect the
order of acceptance, at most `NumRetrans + 1` transmissions) and `GoneForGood` (no
packet comes back when its slot is reused). `InTurn` is what makes them inductive: a
packet leaves only after it was sent, and so after every earlier one was.

**One producer** (fourth part): `SequenceNumbersMatch`,
`EveryNackMet`, `NackedPacketsKept`, `FirstSentInOrder`. All have the hypothesis
`SingleProducer`, and TLC finds each of the four properties violated with two
producers; the run `two_producers_nack` keeps the one that matters. `WalkInv`
adds that numbers follow positions, that exactly the positions before the highest
one sent were sent, and that the nacks left are those the walk has not reached.

**The sender** (`TxSendAth_proofs`), on top of these: `SenderAssertsHold` for any
number of producers; `BatchesConsecutive`, `NothingForgotten` and
`SenderTypeCorrect` for one, as they rest on the order of first transmissions.
`FirstPayloads` says that a packet sent first carries its own bytes, although the
sender copies them after it unlocked the slot. With a retransmission to spare the
slot keeps its entry until the copy (`KeptUncopied`). Without any, the default,
`HandleTimeOut` may free it at once; then the slot keeps its bytes until
`head_pt_` has passed the packet (`LeftUncopied`), because a producer that refills
it writes a position a whole window further on (`RefilledLater`). The hypothesis
`SingleProducer` remains: with two producers two packets may have one number, and
"its own bytes" no longer says which (finding 1).

**Mailboxes** (`AckContext_proofs`): `AcksInOrderOnce`, `NobodySleeps`,
`MailboxesTyped`, from one invariant: the number of acks read is that of those
taken, the one in the mailbox and the one in `TxRcvCell`'s hands.

**Raw packets** (`TxRawBuf_proofs`): `RawTypesHold`, `BufferContiguous`,
`NacksMeetUnknown`, `RecordedFates`, `TakenByOneThread`. The invariant follows a
packet from the buffer to one thread's vector to the records: the buffer holds
the numbers from `First` on, vectors are disjoint and below `First`, a fate in the
buffer was settled by an ack already pushed, and the windows of the client's acks
are disjoint and ordered.

**Rate control** (`RateControl_proofs`).

* Operators. `LessIsEarlier` and `ArithmeticExact`: timers in normal form are
  ordered, added and subtracted as the nanoseconds they stand for, for any length
  of a second. `FECEncodable`: what `ApplyFEC` returns can be encoded and leaves
  room for a sampled packet, whatever the loss, up to the rounding of quotients;
  the exception is n = 0 for a retransmission with a redundancy within a
  thousandth of 1 ("Met while modelling", below). Lemmas
  say what `BinarySearchRecords` finds in records that the time sought parts, what
  `CalcLossRates` counts, which rate the search for the highest throughput takes,
  and how inserting and expiring move the counters of a baseline.
* `Inv`: `RateTypesHold`, `DecisionsSound`, `HighLossAtLowest`,
  `BaselineCountersMatch` and the action property `LookupsCountWindow` follow of
  it. Besides types it says that a thread finds what it goes on with
  (`Resumable`), that k, n and the rates fit between the steps of a decision
  (`Codable`), that a bounded version chose the rate under the losses it still sees
  (`BoundInv`), and that the counters are those of the history (`MatchesFrom`,
  also for a history of which some records have been removed). `LookupsCountWindow`
  uses that packets are sent more than 1 ns apart: the lookup reaches one ns
  beyond its packets.
* `SafeInv`: `HighLossIsSafe`. After `SetHighLoss` only the timeout handler goes
  on (`QuietInv`), and all it takes was sent after everything recorded, because
  raw packets are taken in the order they were sent (`OrderInv`). So all it
  inserts and finds in its lookup is lost (`OnlyLost`), and its updates leave the
  losses of the back antenna at 1. A decision begun since then reads only such
  losses (`DecidingInv`), with no throughput at any rate.
* `SampleInv`: `SampleRateDeliversInTime`, `SampleRateDelivered`. Without a race the
  averages are those of the counters, unless `ApplyRate` will recompute them
  (`AverageInv`), and the counters are those of the history; so the rate with the
  least average has an ack, if any has. An average is compared with a constant that
  stands for no acks (1e10 us in the code, 10^9 here, within TLC's integers), which
  an average itself could reach: the first theorem holds in every state in which
  the packets of the history took less than that at each rate (`HistoryFits`). The
  history is of the last 10.5 s (`rate_adaptation.cc:8`), so the code never leaves
  those states. The second theorem derives this from the number of packets followed:
  each is in the air, with one thread, or in the history (`HistoryInv`).

**The erasure code** (`GaloisField_proofs`, `Fec_proofs`, `CodeInfo_proofs`):
`AnyKRecoverAlways`, `UndecodedUntouchedAlways`, `SizeIsOwnAlways`,
`VandermondeInvertedAlways`, `FieldTablesAlways`, for every width of the field of
the code (2 to 16 bits), every code that `fec_new` accepts and all data. The one
assumption on the arithmetic is `PrimitiveAssumption`: the powers of alpha below
the last are not 1. It says of `Pp` what the comment on the table says
("Primitive polynomials", `fec.cc:97`); TLC evaluates it at the widths of the
runs, and it is a fact about sixteen numbers, not one a proof could replace.

* The field. Exclusive or is a group, by induction on the number of bits;
  multiplying by alpha is linear; so the powers of alpha run through all elements
  but 0 (a collision would make a smaller power 1), `modnn` takes the remainder,
  and products by logarithms satisfy the laws of a field without inverting
  polynomials. `AloneInv` follows the tables through `generate_gf`: what is filled
  below the loop variable, and the sum of the polynomial's terms so far. It needs
  that no other sender is in `init_fec` (finding 5). `OneSenderPassesTest` is
  `test_gf` for one sender.
* Inversion. `InvertMat` is about images: the pairs of vectors x, y with y = a x.
  After the pivots P the matrix relates the vectors with their entries in P
  exchanged, up to the row swaps so far (`GaussInv`), and without a pivot there is
  a vector other than 0 that goes to 0. Undoing the columns in reverse order is
  what makes the swaps cancel. `FastInverse`: the passes of `invert_vdm` compute the
  product of all (x - p), the division leaves out one factor, and its value at the
  point left out is what the column is divided by.
* Any k rows. `VandermondeRegular` counts roots: a polynomial of degree below k
  with k roots is 0. `EncodingRegular` carries it over to the matrix of `fec_new`.
* Decoding. `Shuffled` shows that 2k turns of the loop are enough and that an error
  means a repeat; `Decoded` that fec_decode fails exactly on a repeat, whichever of
  `shuffle` and `invert_mat` finds it. `Held` is what a failure leaves:
  `shuffle` exchanges packets and changes none, and `fec_decode` writes them only
  after the inversion succeeded, so what `PopPkt` then hands out are the packets
  received (`UndecodedUntouchedAlways`).
* `CodeInv` has the order of the calls (`EncoderInv`), the size and the buffers up to
  each packet's length (`SizeInv`: behind it a buffer may hold the last batch's
  words), and what the decoder holds (`DecoderInv`). Its parts other than the tables
  were model-checked.

Only model-checked:

* `BatchIsSent`, `AllLeave`, `EveryAckHandled`: liveness under fairness, and
  `ENABLED`, are out of the prover's reach.
* The properties of the runs that find a violation.

## Findings

1. `wspace_asym_util.cc:153`: `EnqueuePkt` reads the tail before it locks the
   queue. With two producers two slots get one number; an ack then compares a
   nack with a wrong number and frees a packet it nacks (`two_producers_nack`).
2. `wspace_ap_scout.cc:470`: a retransmission is copied after the current batch
   was sent, from a slot that may be freed and refilled meanwhile
   (`send_ath_payload`). First transmissions are safe as long as a packet has a
   retransmission to spare (`FirstPayloadMatches`).
3. `wspace_ap_scout.cc:57`: `num_retrans_` is 0 by default. `HandleTimeOut` then
   drops a packet as soon as it is out, also between `DequeuePkt` and `PushPkt`;
   when a producer refills the slot in between, the packet's only transmission
   carries other bytes (`send_ath_default_payload`).
4. `wspace_ap_scout.cc:348`: after an overflow of `TxRawBuf` the same packets
   are recorded again for every further packet of the batch (`raw_overflow_twice`).
5. `fec.cc:638`: two senders that both find `fec_initialized` unset generate the
   tables at once; terms of the polynomial cancel and every batch is coded with
   wrong tables as long as the program runs (`fec_two_clients`).

Met while modelling, without a run of their own: the records that
`BinarySearchRecords` searches are in order only while one thread inserts
(`WindowCounted` is stated for records in order); `CodeInfo::DecodeBatch` returns
nothing, so that its caller cannot tell a failure from a batch (`UndecodedUntouched`
says what it gets); `SampleRate` starts with "the
highest bit-rate" by its comment (`sample_rate.cc:43`) and with the lowest by
its code; `FindSuccessRates` also returns rates sent once and lost.

`scout_rate.cc:791`, met as well: a redundancy a rounding error below 1 makes a
quotient beyond every int. Its conversion is undefined; on an x86 it gives
`INT_MIN`, n becomes 0 and `assert(n >= k && n <= kMaxN)` (line 801) stops the access
point. In doubles, lookups that find 63 of 86, 69 of 77, 66 of 83 and 67 of 68
packets lost, one after the other, give a loss of 0.9499999995719 and a quotient of
2335911308. The losses of the model are thousandths, where 950 stands for all that
come so close to .95: `rates` reaches the stop, `DecisionSound` says that nothing else
causes it, but a trace of it would not be one of the code's, so there is no run
that reports it as violated.

## Plan

Done, in this order: `TxDataBuf` with `SendWindow` and its refinement,
`AckContext`, `TxRawBuf`, `TxSendAth`; the erasure code; timers, records, rate
decisions, the baselines and their composition. Then the theorems, in the same
order, the erasure code and `SampleRateDelivers` last: every safety property of a
passing run is stated by one.

Nothing of the plan is left. What would add most from here is `SendLossRate`, should
the controller that reads its reports join the repository.

## Not modelled

* Reports to the controller: `SendLossRate` copies counters into a packet; the
  controller, which reads them and their sequence numbers, is not in this
  repository, and nothing here depends on `bsstats_seq_`.
* `PacketDropManager`, `UpdateLossRates`, `IsDrop`: losses of an experiment read from
  a file. The models lose any packet.
* GPS parsing and logging, sockets and the tunnel device, thread wrappers, and
  option parsing, which runs once before the threads start. Options are the
  models' constants.
* `WaitFill`'s `timespec` at the second's boundary and 32 bit cursors that wrap at
  2^32, which 500 does not divide: cursors and waits are abstracted above that.
* `RxRcvBuf` is the client's and unused here; packet headers are layout.
