------------------------------ MODULE TxSendAth ------------------------------
(***************************************************************************)
(* The sender of one client on top of its TxDataBuf: TxSendAth takes       *)
(* packets with DequeuePkt, collects new ones into a batch for the encoder *)
(* (CodeInfo), cuts the batch short when DequeuePkt times out or returns a *)
(* packet to retransmit, and sends a retransmission as a batch of its own. *)
(*                                                                         *)
(* DequeuePkt returns the address of the packet in the ring and unlocks    *)
(* its slot; the packet is copied later, by PushPkt.                       *)
(***************************************************************************)
EXTENDS TxDataBuf, Sequences

CONSTANT MaxBatch   \* MAX_BATCH_SIZE

ASSUME BatchAssumption == MaxBatch \in Nat \ {0}

VARIABLES
  payload,     \* slot -> the packet whose bytes the slot's buffer holds
  state,       \* the state of TxSendAth
  seq_num,     \* the sequence number DequeuePkt returned last
  handle_retransmission,
  k_local,     \* how many packets the batch is coded from
  start_seq,   \* the sequence number of its first packet
  batch,       \* what PushPkt put into the encoder
  on_air       \* history: highest sequence number in a batch that was sent

sndVars  == <<state, seq_num, handle_retransmission, k_local, start_seq, batch, on_air>>
athVars  == <<vars, payload, sndVars>>

SendInit ==
  /\ Init
  /\ payload = [s \in Slots |-> 0]
  /\ state = "kHandleNewPkt"
  /\ seq_num = 0
  /\ handle_retransmission = FALSE
  /\ k_local = 0 /\ start_seq = 0 /\ batch = <<>>
  /\ on_air = 0

-----------------------------------------------------------------------------
(* The other threads.                                                      *)

Enqueue(p) ==
  /\ EnqueuePkt(p)
  /\ payload' = IF enq_pc[p] = "store" THEN [payload EXCEPT ![enq_index[p]] = enq_seq[p]]
                                       ELSE payload
  /\ UNCHANGED sndVars

\* An ack covers packets that were sent.
HandleAck ==
  /\ HandleDataAck
  /\ ack_pc = "wait" /\ ack_pc' = "ack" => end_seq' <= on_air
  /\ UNCHANGED <<payload, sndVars>>

HandleSilence == HandleTimeOut /\ UNCHANGED <<payload, sndVars>>

-----------------------------------------------------------------------------
(* kHandleNewPkt: DequeuePkt, then PushPkt of a new packet.                *)

DequeueWait ==
  /\ state = "kHandleNewPkt"
  /\ DequeueLockQueue \/ AcquireCurrLock
  /\ UNCHANGED <<payload, sndVars>>

DequeueTimesOut ==
  /\ state = "kHandleNewPkt"
  /\ deq_pc = "idle" /\ qlock = NoOne /\ IsEmpty
  /\ state' = "kHandlePartialBatch"
  /\ UNCHANGED <<vars, payload, seq_num, handle_retransmission, k_local, start_seq, batch, on_air>>

TakeNew ==
  /\ state = "kHandleNewPkt"
  /\ DequeueNew
  /\ seq_num' = book_keep[deq_index].seq_num
  /\ state' = "PushPkt"
  /\ UNCHANGED <<payload, handle_retransmission, k_local, start_seq, batch, on_air>>

\* Broken variant: the packet joins the current batch.
TakeRetransIntoBatch ==
  /\ state = "kHandleNewPkt"
  /\ DequeueRetrans
  /\ seq_num' = book_keep[deq_index].seq_num
  /\ state' = "PushPkt"
  /\ UNCHANGED <<payload, handle_retransmission, k_local, start_seq, batch, on_air>>

TakeRetrans ==
  /\ state = "kHandleNewPkt"
  /\ DequeueRetrans
  /\ seq_num' = book_keep[deq_index].seq_num
  /\ handle_retransmission' = TRUE
  /\ state' = "kHandlePartialBatch"
  /\ UNCHANGED <<payload, k_local, start_seq, batch, on_air>>

TakeNothing ==
  /\ state = "kHandleNewPkt"
  /\ DequeueSkip
  /\ seq_num' = book_keep[deq_index].seq_num
  /\ UNCHANGED <<payload, state, handle_retransmission, k_local, start_seq, batch, on_air>>

Copied == [seq |-> seq_num, payload |-> payload[deq_index]]

\* MakeDecision chooses k for the first packet.
PushPkt ==
  /\ state = "PushPkt"
  /\ IF batch = <<>> THEN k_local' \in 1 .. MaxBatch /\ start_seq' = seq_num
                     ELSE UNCHANGED <<k_local, start_seq>>
  /\ batch' = Append(batch, Copied)
  /\ state' = IF Len(batch) + 1 = k_local' THEN "kHandleEncoding" ELSE "kHandleNewPkt"
  /\ UNCHANGED <<vars, payload, seq_num, handle_retransmission, on_air>>

-----------------------------------------------------------------------------
\* Broken variant: the batch keeps the k it was planned with.
HandlePartialBatchOldK ==
  /\ state = "kHandlePartialBatch"
  /\ state' = IF batch # <<>> THEN "kHandleEncoding"
              ELSE IF handle_retransmission THEN "kHandleRetransmission" ELSE "kHandleNewPkt"
  /\ UNCHANGED <<vars, payload, seq_num, handle_retransmission, k_local, start_seq, batch, on_air>>

\* Broken variant: a timeout sends nothing.
HandlePartialBatchKeeps ==
  /\ state = "kHandlePartialBatch"
  /\ batch # <<>> /\ handle_retransmission => k_local' = Len(batch)
  /\ ~(batch # <<>> /\ handle_retransmission) => k_local' = k_local
  /\ state' = IF ~handle_retransmission THEN "kHandleNewPkt"
              ELSE IF batch # <<>> THEN "kHandleEncoding" ELSE "kHandleRetransmission"
  /\ UNCHANGED <<vars, payload, seq_num, handle_retransmission, start_seq, batch, on_air>>

\* Broken variant: a retransmission replaces the batch.
HandlePartialBatchDiscards ==
  /\ state = "kHandlePartialBatch"
  /\ k_local' = IF batch # <<>> THEN Len(batch) ELSE k_local
  /\ batch' = IF handle_retransmission THEN <<>> ELSE batch
  /\ state' = IF handle_retransmission THEN "kHandleRetransmission"
              ELSE IF batch # <<>> THEN "kHandleEncoding" ELSE "kHandleNewPkt"
  /\ UNCHANGED <<vars, payload, seq_num, handle_retransmission, start_seq, on_air>>

HandlePartialBatch ==
  /\ state = "kHandlePartialBatch"
  /\ k_local' = IF batch # <<>> THEN Len(batch) ELSE k_local
  /\ state' = IF batch # <<>> THEN "kHandleEncoding"
              ELSE IF handle_retransmission THEN "kHandleRetransmission" ELSE "kHandleNewPkt"
  /\ UNCHANGED <<vars, payload, seq_num, handle_retransmission, start_seq, batch, on_air>>

HandleRetransmission ==
  /\ state = "kHandleRetransmission"
  /\ handle_retransmission' = FALSE
  /\ k_local' = 1
  /\ start_seq' = seq_num
  /\ batch' = Append(batch, Copied)
  /\ state' = "kHandleEncoding"
  /\ UNCHANGED <<vars, payload, seq_num, on_air>>

\* Broken variant: the encoder is not cleared.
HandleEncodingNotCleared ==
  /\ state = "kHandleEncoding"
  /\ on_air' = Larger(on_air, batch[Len(batch)].seq)
  /\ state' = IF handle_retransmission THEN "kHandleRetransmission" ELSE "kHandleNewPkt"
  /\ UNCHANGED <<vars, payload, seq_num, handle_retransmission, k_local, start_seq, batch>>

\* EncodeBatch, SendCodedBatch and ClearInfo.
HandleEncoding ==
  /\ state = "kHandleEncoding"
  /\ on_air' = Larger(on_air, batch[Len(batch)].seq)
  /\ k_local' = 0 /\ start_seq' = 0 /\ batch' = <<>>
  /\ state' = IF handle_retransmission THEN "kHandleRetransmission" ELSE "kHandleNewPkt"
  /\ UNCHANGED <<vars, payload, seq_num, handle_retransmission>>

HandleNewPkt == \/ DequeueWait \/ DequeueTimesOut
                \/ TakeNew \/ TakeRetrans \/ TakeNothing
                \/ PushPkt

SendNext == \/ \E p \in Producers : Enqueue(p)
            \/ HandleAck
            \/ HandleSilence
            \/ HandleNewPkt
            \/ HandlePartialBatch
            \/ HandleRetransmission
            \/ HandleEncoding

SendSpec == SendInit /\ [][SendNext]_athVars

(***************************************************************************)
(* Every thread keeps running.  A mutex is strongly fair to a thread that  *)
(* keeps asking, because the ack thread sleeps up to ack_time_out_ between *)
(* two handlers with the queue unlocked.  The sender times out when it     *)
(* keeps finding the queue empty.  Packets and acks need not come; while   *)
(* no ack comes the wait for one times out, again and again.               *)
(***************************************************************************)
SendFairness ==
  /\ SF_athVars(DequeueWait) /\ SF_athVars(DequeueTimesOut)
  /\ WF_athVars(TakeNew \/ TakeRetrans \/ TakeNothing)
  /\ WF_athVars(PushPkt \/ HandlePartialBatch \/ HandleRetransmission \/ HandleEncoding)
  /\ WF_athVars(AckStep /\ UNCHANGED <<payload, sndVars>>)
  /\ WF_athVars(TimeOutStep /\ UNCHANGED <<payload, sndVars>>)
  /\ SF_athVars((\E late \in SUBSET Slots : TimeOutStart(late)) /\ UNCHANGED <<payload, sndVars>>)
  /\ \A p \in Producers : SF_athVars(enq_pc[p] # "idle" /\ Enqueue(p))

FairSendSpec == SendSpec /\ SendFairness

-----------------------------------------------------------------------------
(* Properties                                                              *)

\* Every variable of the sender has its type.
SendTypeOK ==
  /\ payload \in [Slots -> 0 .. MaxEnq]
  /\ state \in {"kHandleNewPkt", "PushPkt", "kHandlePartialBatch", "kHandleRetransmission",
                "kHandleEncoding"}
  /\ seq_num \in 0 .. MaxEnq
  /\ handle_retransmission \in BOOLEAN
  /\ k_local \in 0 .. MaxBatch
  /\ start_seq \in 0 .. MaxEnq
  /\ batch \in Seq([seq : 1 .. MaxEnq, payload : 0 .. MaxEnq]) /\ Len(batch) <= MaxBatch
  /\ on_air \in 0 .. highest_sent

\* A batch holds consecutive packets from start_seq on, which is all its header
\* tells the client about their sequence numbers.
BatchConsecutive == \A i \in 1 .. Len(batch) : batch[i].seq = start_seq + i - 1

\* The assertions on the way: PushPkt has room, a timed out batch is neither
\* empty nor full, and what is encoded are exactly k packets.
SenderAsserts ==
  /\ state = "PushPkt" /\ batch # <<>> => Len(batch) < k_local
  /\ state = "kHandlePartialBatch" => Len(batch) < MaxBatch
  /\ state = "kHandleRetransmission" => batch = <<>>
  /\ state = "kHandleEncoding" => Len(batch) = k_local /\ k_local > 0

\* Every packet taken for the first time is on the air, in the batch or about
\* to be pushed, also when a retransmission or a timeout cut the batch short.
NoneForgotten ==
  highest_sent = on_air + Cardinality({i \in 1 .. Len(batch) : batch[i].seq > on_air})
                        + IF state = "PushPkt" THEN 1 ELSE 0

\* A first transmission carries the bytes of its packet, although DequeuePkt
\* unlocks the slot before PushPkt copies them.  The exception is a window
\* without retransmissions (num_retrans_ is 0 by default): there HandleTimeOut
\* may drop the packet right after DequeuePkt, and once head_pt_ has passed it
\* a producer may have refilled the slot.
FirstPayloadMatches ==
  \A i \in 1 .. Len(batch) :
    batch[i].seq > on_air => \/ batch[i].payload = batch[i].seq
                             \/ NumRetrans = 0 /\ head_pt >= batch[i].seq

\* Every transmission carries the bytes of its packet.
PayloadMatches == \A i \in 1 .. Len(batch) : batch[i].payload = batch[i].seq

\* A batch that has begun is sent, also when no more packets come.
BatchIsSent == batch # <<>> ~> batch = <<>>

\* Time passes, so a packet that HandleTimeOut keeps finding outbound is at
\* last older than 1.2 rtt_.
PacketsGrowOld ==
  \A s \in Slots :
    SF_athVars((\E late \in SUBSET Slots : s \in late /\ TimeOutStart(late))
               /\ UNCHANGED <<payload, sndVars>>)

\* Every packet that entered the window leaves it, acked or given up, also
\* when the client stays silent for ever.
AllLeave == PacketsGrowOld => \A p \in 1 .. MaxEnq : tail_pt >= p ~> head_pt >= p
=============================================================================
