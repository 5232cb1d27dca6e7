-------------------------- MODULE TxSendAth_proofs --------------------------
(***************************************************************************)
(* The sender on top of the send window.  Its assertions hold for every    *)
(* number of producers; what its batches contain, and that no packet is    *)
(* forgotten between two of them, for one producer (SingleProducer), as    *)
(* both rest on first transmissions leaving in sequence order.             *)
(***************************************************************************)
EXTENDS TxSendAth, TxDataBuf_proofs, FiniteSetTheorems, SequenceTheorems

-----------------------------------------------------------------------------
(* Every step of the sender's specification is one of the send window's or *)
(* leaves the window alone.                                                *)

TakePkt == TakeNew \/ TakeRetrans \/ TakeNothing
BatchStep == DequeueTimesOut \/ PushPkt \/ HandlePartialBatch \/ HandleRetransmission \/ HandleEncoding

LEMMA WindowStep == [SendNext]_athVars => [Next]_vars
<1>1. ASSUME NEW p \in Producers, Enqueue(p) PROVE Next
  BY <1>1 DEF Enqueue, Next
<1>2. HandleAck \/ HandleSilence => Next
  BY DEF HandleAck, HandleSilence, Next
<1>3. DequeueWait \/ TakePkt => Next
  BY DEF DequeueWait, TakePkt, TakeNew, TakeRetrans, TakeNothing, Next, DequeuePkt, DequeueTake
<1>4. BatchStep => UNCHANGED vars
  BY DEF BatchStep, DequeueTimesOut, PushPkt, HandlePartialBatch, HandleRetransmission, HandleEncoding
<1> QED BY <1>1, <1>2, <1>3, <1>4 DEF SendNext, HandleNewPkt, TakePkt, BatchStep, athVars

LEMMA SendSlotsInv == SendSpec => []SlotsInv
<1>1. SendInit => SlotsInv
  BY InitSlotsInv DEF SendInit
<1>2. SlotsInv /\ [SendNext]_athVars => SlotsInv'
  BY WindowStep, NextSlotsInv
<1> QED BY <1>1, <1>2, PTL DEF SendSpec

LEMMA SendWalkInv ==
  ASSUME SingleProducer
  PROVE  SendSpec => [](SlotsInv /\ WalkInv)
<1>1. SendInit => SlotsInv /\ WalkInv
  BY InitSlotsInv, InitWalkInv DEF SendInit
<1>2. SlotsInv /\ WalkInv /\ [SendNext]_athVars => (SlotsInv /\ WalkInv)'
  BY WindowStep, NextSlotsInv, NextWalkInv
<1> QED BY <1>1, <1>2, PTL DEF SendSpec

-----------------------------------------------------------------------------
(* How many packets the batch has in each state.                           *)

Batches == Seq([seq : Nat, payload : Nat])

SenderTyped ==
  /\ payload \in [Slots -> Nat]
  /\ state \in {"kHandleNewPkt", "PushPkt", "kHandlePartialBatch", "kHandleRetransmission",
                "kHandleEncoding"}
  /\ seq_num \in Nat
  /\ handle_retransmission \in BOOLEAN
  /\ k_local \in 0 .. MaxBatch
  /\ start_seq \in Nat
  /\ batch \in Batches
  /\ on_air \in Nat

\* Until it is encoded a batch is shorter than planned, and a retransmission
\* waits until the batch before it is gone.
SenderShape ==
  /\ state \in {"kHandleNewPkt", "PushPkt", "kHandlePartialBatch"} => (batch # <<>> => Len(batch) < k_local)
  /\ state \in {"kHandleNewPkt", "PushPkt"} => ~handle_retransmission
  /\ state = "kHandleRetransmission" => batch = <<>> /\ handle_retransmission
  /\ state = "kHandleEncoding" => Len(batch) = k_local /\ k_local > 0

ShapeInv == SenderTyped /\ SenderShape

LEMMA InitShapeInv == SendInit => ShapeInv
<1> SUFFICES ASSUME SendInit PROVE ShapeInv
  OBVIOUS
<1>1. batch \in Batches /\ k_local \in 0 .. MaxBatch
  BY BatchAssumption DEF SendInit, Batches
<1>2. handle_retransmission \in BOOLEAN
  BY DEF SendInit
<1> QED BY <1>1, <1>2 DEF SendInit, ShapeInv, SenderTyped, SenderShape

LEMMA SeqOfElements ==
  ASSUME NEW S, NEW T, NEW seq \in Seq(S), \A i \in 1 .. Len(seq) : seq[i] \in T
  PROVE  seq \in Seq(T)
<1>1. seq \in [1 .. Len(seq) -> S] /\ Len(seq) \in Nat
  BY LenProperties
<1>2. seq \in [1 .. Len(seq) -> T]
  BY <1>1
<1> QED BY <1>1, <1>2, SeqDef

\* A packet appended to a batch.
LEMMA CopiedTyped ==
  ASSUME TypeOK, SenderTyped
  PROVE  /\ Copied \in [seq : Nat, payload : Nat] /\ Copied.seq = seq_num /\ Copied.payload = payload[deq_index]
         /\ Append(batch, Copied) \in Batches
         /\ Len(batch) \in Nat /\ Len(Append(batch, Copied)) = Len(batch) + 1
         /\ (batch = <<>> <=> Len(batch) = 0)
         /\ \A i \in 1 .. Len(batch) : Append(batch, Copied)[i] = batch[i]
         /\ Append(batch, Copied)[Len(batch) + 1] = Copied
<1>1. Copied \in [seq : Nat, payload : Nat] /\ Copied.seq = seq_num /\ Copied.payload = payload[deq_index]
  BY DEF Copied, TypeOK, SenderTyped
<1>2. batch \in Seq([seq : Nat, payload : Nat])
  BY DEF SenderTyped, Batches
<1>3. Len(batch) \in Nat /\ (batch = <<>> <=> Len(batch) = 0)
  BY <1>2, EmptySeq
<1>4. Append(batch, Copied) \in Batches /\ Len(Append(batch, Copied)) = Len(batch) + 1
  BY <1>1, <1>2, <1>3 DEF Batches
<1>5. \A i \in 1 .. Len(batch) : Append(batch, Copied)[i] = batch[i]
  BY <1>1, <1>2
<1>6. Append(batch, Copied)[Len(batch) + 1] = Copied
  BY <1>1, <1>2
<1> QED BY <1>1, <1>3, <1>4, <1>5, <1>6

LEMMA NextShapeInv ==
  ASSUME TypeOK, ShapeInv, [SendNext]_athVars
  PROVE  ShapeInv'
<1> USE DEF ShapeInv
<1>1. ASSUME NEW p \in Producers, Enqueue(p) PROVE ShapeInv'
  <2>1. payload' \in [Slots -> Nat]
    BY <1>1 DEF Enqueue, SenderTyped, TypeOK
  <2> QED BY <1>1, <2>1 DEF Enqueue, sndVars, SenderTyped, SenderShape
<1>2. CASE HandleAck \/ HandleSilence \/ DequeueWait \/ UNCHANGED athVars
  BY <1>2 DEF HandleAck, HandleSilence, DequeueWait, athVars, sndVars, SenderTyped, SenderShape
<1>3. CASE TakePkt
  <2>1. seq_num' \in Nat
    BY <1>3 DEF TakePkt, TakeNew, TakeRetrans, TakeNothing, TypeOK, BookKeeping
  <2>2. SenderTyped'
    BY <1>3, <2>1 DEF TakePkt, TakeNew, TakeRetrans, TakeNothing, SenderTyped
  <2>3. SenderShape'
    BY <1>3 DEF TakePkt, TakeNew, TakeRetrans, TakeNothing, SenderShape
  <2> QED BY <2>2, <2>3
<1>4. CASE DequeueTimesOut
  BY <1>4 DEF DequeueTimesOut, SenderTyped, SenderShape
<1>5. CASE PushPkt
  <2>1. k_local' \in 0 .. MaxBatch /\ start_seq' \in Nat /\ (batch = <<>> => k_local' > 0) /\ (batch # <<>> => k_local' = k_local)
    BY <1>5, BatchAssumption DEF PushPkt, SenderTyped
  <2>2. batch' = Append(batch, Copied) /\ state' = IF Len(batch) + 1 = k_local' THEN "kHandleEncoding" ELSE "kHandleNewPkt"
    BY <1>5 DEF PushPkt
  <2>3. SenderTyped'
    BY <1>5, <2>1, <2>2, CopiedTyped DEF PushPkt, SenderTyped
  <2>4. Len(batch') = Len(batch) + 1 /\ Len(batch) + 1 <= k_local'
    BY <1>5, <2>1, <2>2, CopiedTyped, BatchAssumption DEF PushPkt, SenderShape, SenderTyped
  <2>5. ~handle_retransmission'
    BY <1>5 DEF PushPkt, SenderShape
  <2>6. SenderShape'
    BY <2>1, <2>2, <2>4, <2>5, CopiedTyped, BatchAssumption DEF SenderShape, SenderTyped
  <2> QED BY <2>3, <2>6
<1>6. CASE HandlePartialBatch
  <2>1. Len(batch) \in Nat /\ (batch = <<>> <=> Len(batch) = 0) /\ (batch # <<>> => Len(batch) < k_local)
    BY <1>6, CopiedTyped DEF HandlePartialBatch, SenderShape
  <2> QED BY <1>6, <2>1, BatchAssumption DEF HandlePartialBatch, SenderTyped, SenderShape
<1>7. CASE HandleRetransmission
  <2>1. batch = <<>> /\ Len(batch') = 1 /\ batch' \in Batches
    BY <1>7, CopiedTyped DEF HandleRetransmission, SenderShape
  <2>2. SenderTyped'
    <3>1. k_local' \in 0 .. MaxBatch
      BY <1>7, BatchAssumption DEF HandleRetransmission
    <3>2. handle_retransmission' \in BOOLEAN
      BY <1>7 DEF HandleRetransmission
    <3> QED BY <1>7, <2>1, <3>1, <3>2 DEF HandleRetransmission, SenderTyped
  <2>3. SenderShape'
    BY <1>7, <2>1 DEF HandleRetransmission, SenderShape
  <2> QED BY <2>2, <2>3
<1>8. CASE HandleEncoding
  <2>1. batch \in Seq([seq : Nat, payload : Nat]) /\ Len(batch) > 0
    BY <1>8 DEF HandleEncoding, SenderTyped, SenderShape, Batches
  <2>2. on_air' \in Nat
    BY <1>8, <2>1 DEF HandleEncoding, SenderTyped, Larger
  <2>3. batch' \in Batches
    BY <1>8 DEF HandleEncoding, Batches
  <2> QED BY <1>8, <2>2, <2>3, BatchAssumption DEF HandleEncoding, SenderTyped, SenderShape
<1> QED BY <1>1, <1>2, <1>3, <1>4, <1>5, <1>6, <1>7, <1>8 DEF SendNext, HandleNewPkt, TakePkt

LEMMA ShapeInvHolds == SendSpec => [](SlotsInv /\ ShapeInv)
<1>1. SlotsInv => TypeOK
  BY DEF SlotsInv, WindowInv, TypeInv
<1>2. SendInit => SlotsInv /\ ShapeInv
  BY InitSlotsInv, InitShapeInv DEF SendInit
<1>3. SlotsInv /\ ShapeInv /\ [SendNext]_athVars => (SlotsInv /\ ShapeInv)'
  BY <1>1, WindowStep, NextSlotsInv, NextShapeInv
<1> QED BY <1>2, <1>3, PTL DEF SendSpec

\* The assertions of TxSendAth and of the encoder never fire, however many
\* threads enqueue: PushPkt has room, a batch cut short is not full, a
\* retransmission starts from an empty batch, and a batch is encoded from
\* exactly the k packets it announces.
THEOREM SenderAssertsHold == SendSpec => []SenderAsserts
<1>1. ShapeInv => SenderAsserts
  <2> SUFFICES ASSUME ShapeInv PROVE SenderAsserts
    OBVIOUS
  <2>1. Len(batch) \in Nat /\ (batch = <<>> => Len(batch) = 0) /\ k_local \in Nat /\ k_local <= MaxBatch /\ MaxBatch > 0
    BY BatchAssumption, EmptySeq DEF ShapeInv, SenderTyped, Batches
  <2>2. state = "kHandlePartialBatch" => Len(batch) < MaxBatch
    BY <2>1, BatchAssumption DEF ShapeInv, SenderShape
  <2> QED BY <2>2 DEF ShapeInv, SenderShape, SenderAsserts
<1> QED BY <1>1, ShapeInvHolds, PTL

-----------------------------------------------------------------------------
(* What a batch contains, with one producer.                               *)

\* A batch of new packets continues where the last one on the air ended, and
\* with it and the packet about to be pushed every packet that was taken for
\* the first time is accounted for.
NewBatch ==
  /\ highest_sent = on_air + Len(batch) + (IF state = "PushPkt" THEN 1 ELSE 0)
  /\ batch # <<>> => start_seq = on_air + 1

\* A retransmission is encoded after all that was taken is on the air.
ResentBatch ==
  /\ state = "kHandleEncoding" /\ Len(batch) = 1
  /\ on_air = highest_sent
  /\ start_seq <= on_air

BatchNumbers ==
  /\ NewBatch \/ ResentBatch
  /\ BatchConsecutive
  /\ state = "PushPkt" => seq_num = highest_sent
  /\ handle_retransmission => 1 <= seq_num /\ seq_num <= highest_sent
  /\ batch # <<>> => 1 <= start_seq

\* The packet DequeuePkt takes, new or to be sent again.
LEMMA TakenNumber ==
  ASSUME SlotsInv, WalkInv, DequeueNew
  PROVE  /\ book_keep[deq_index].seq_num = highest_sent + 1 /\ highest_sent' = highest_sent + 1
         /\ book_keep'[deq_index].seq_num = highest_sent + 1
         /\ book_keep'[deq_index].status = "Outbound" /\ book_keep'[deq_index].num_retrans = NumRetrans
<1>1. /\ deq_pc = "take" /\ book_keep[deq_index].status = "New"
      /\ book_keep' = [book_keep EXCEPT ![deq_index].status = "Outbound"]
  BY DEF DequeueNew
<1>2. PICK n \in Positions : deq_index = Slot(n) /\ Owner(n) = Sender
  BY <1>1, SenderPosition
<1>3. highest_sent = n /\ At(n).seq_num = n + 1 /\ n \in Nat
  BY <1>1, <1>2, FirstSentNext, PositionsTyped DEF At, SlotsInv
<1>4. /\ deq_index \in Slots /\ book_keep \in [Slots -> BookKeeping]
      /\ book_keep[deq_index].num_retrans = NumRetrans
  BY <1>1 DEF SlotsInv, WindowInv, TypeInv, TypeOK, BookInv, UnsentLast
<1> QED BY <1>1, <1>2, <1>3, <1>4 DEF DequeueNew, At, Larger, BookKeeping

LEMMA RetakenNumber ==
  ASSUME SlotsInv, WalkInv, DequeueRetrans
  PROVE  1 <= book_keep[deq_index].seq_num /\ book_keep[deq_index].seq_num <= highest_sent
<1>1. deq_pc = "take" /\ book_keep[deq_index].status = "Retrans"
  BY DEF DequeueRetrans
<1>2. PICK n \in Positions : deq_index = Slot(n) /\ Owner(n) = Sender
  BY <1>1, SenderPosition
<1>3. At(n).seq_num = n + 1 /\ ~Unsent(n) /\ n \in Nat /\ highest_sent \in Nat
  BY <1>1, <1>2, ThreadsAssumption, PositionsTyped DEF WalkInv, SeqExact, At, Unsent, SlotsInv
<1>4. n < highest_sent
  BY <1>3 DEF WalkInv, SentPrefix
<1> QED BY <1>2, <1>3, <1>4 DEF At

LEMMA BatchFacts ==
  ASSUME SlotsInv, ShapeInv
  PROVE  /\ highest_sent \in Nat /\ on_air \in Nat /\ seq_num \in Nat /\ start_seq \in Nat
         /\ Len(batch) \in Nat /\ (batch = <<>> <=> Len(batch) = 0)
BY CopiedTyped DEF SlotsInv, WindowInv, TypeInv, TypeOK, ShapeInv, SenderTyped

LEMMA NextBatchNumbers ==
  ASSUME SlotsInv, WalkInv, ShapeInv, BatchNumbers, [SendNext]_athVars
  PROVE  BatchNumbers'
<1>0. /\ highest_sent \in Nat /\ on_air \in Nat /\ seq_num \in Nat /\ start_seq \in Nat
      /\ Len(batch) \in Nat /\ (batch = <<>> <=> Len(batch) = 0)
      /\ TypeOK /\ SenderTyped
  BY BatchFacts DEF SlotsInv, WindowInv, TypeInv, ShapeInv
<1>1. CASE UNCHANGED <<highest_sent, sndVars>>
  BY <1>1 DEF BatchNumbers, NewBatch, ResentBatch, BatchConsecutive, sndVars
<1>2. CASE TakeNew
  <2>1. /\ state = "kHandleNewPkt" /\ state' = "PushPkt" /\ DequeueNew /\ seq_num' = book_keep[deq_index].seq_num
        /\ UNCHANGED <<handle_retransmission, k_local, start_seq, batch, on_air>>
    BY <1>2 DEF TakeNew
  <2>2. highest_sent' = highest_sent + 1 /\ seq_num' = highest_sent + 1
    BY <2>1, TakenNumber
  <2>3. ~handle_retransmission /\ ~handle_retransmission'
    BY <2>1 DEF ShapeInv, SenderShape
  <2> QED BY <1>0, <2>1, <2>2, <2>3 DEF BatchNumbers, NewBatch, ResentBatch, BatchConsecutive
<1>3. CASE TakeRetrans
  <2>1. /\ state = "kHandleNewPkt" /\ state' = "kHandlePartialBatch" /\ DequeueRetrans
        /\ seq_num' = book_keep[deq_index].seq_num /\ UNCHANGED highest_sent
        /\ UNCHANGED <<k_local, start_seq, batch, on_air>>
    BY <1>3 DEF TakeRetrans, DequeueRetrans
  <2>2. 1 <= seq_num' /\ seq_num' <= highest_sent'
    BY <2>1, RetakenNumber
  <2> QED BY <1>0, <2>1, <2>2 DEF BatchNumbers, NewBatch, ResentBatch, BatchConsecutive
<1>4. CASE TakeNothing
  <2>1. /\ state = "kHandleNewPkt" /\ UNCHANGED <<state, highest_sent, handle_retransmission, start_seq, batch, on_air>>
    BY <1>4 DEF TakeNothing, DequeueSkip
  <2>2. ~handle_retransmission
    BY <2>1 DEF ShapeInv, SenderShape
  <2> QED BY <1>0, <2>1, <2>2 DEF BatchNumbers, NewBatch, ResentBatch, BatchConsecutive
<1>5. CASE DequeueTimesOut
  <2>1. /\ state = "kHandleNewPkt" /\ state' = "kHandlePartialBatch"
        /\ UNCHANGED <<highest_sent, seq_num, handle_retransmission, start_seq, batch, on_air>>
    BY <1>5 DEF DequeueTimesOut, vars, deqVars
  <2> QED BY <1>0, <2>1 DEF BatchNumbers, NewBatch, ResentBatch, BatchConsecutive
<1>6. CASE PushPkt
  <2>1. /\ state = "PushPkt" /\ state' \in {"kHandleEncoding", "kHandleNewPkt"} /\ batch' = Append(batch, Copied)
        /\ start_seq' = IF batch = <<>> THEN seq_num ELSE start_seq
        /\ UNCHANGED <<highest_sent, seq_num, handle_retransmission, on_air>>
    BY <1>6 DEF PushPkt, vars, deqVars
  <2>2. highest_sent = on_air + Len(batch) + 1 /\ seq_num = highest_sent /\ start_seq' = on_air + 1
    BY <1>0, <2>1 DEF BatchNumbers, NewBatch, ResentBatch
  <2>3. Len(batch') = Len(batch) + 1
    BY <1>0, <2>1, CopiedTyped
  <2>4. BatchConsecutive'
    <3> SUFFICES ASSUME NEW i \in 1 .. Len(batch) + 1 PROVE batch'[i].seq = start_seq' + i - 1
      BY <2>3 DEF BatchConsecutive
    <3>1. CASE i = Len(batch) + 1
      BY <1>0, <2>1, <2>2, <3>1, CopiedTyped
    <3>2. CASE i # Len(batch) + 1
      <4>1. i \in 1 .. Len(batch) /\ batch # <<>> /\ start_seq' = start_seq
        BY <1>0, <2>1, <3>2
      <4>2. batch'[i] = batch[i]
        BY <1>0, <2>1, <4>1, CopiedTyped
      <4> QED BY <4>1, <4>2 DEF BatchNumbers, BatchConsecutive
    <3> QED BY <3>1, <3>2
  <2>5. NewBatch'
    BY <1>0, <2>1, <2>2, <2>3 DEF NewBatch
  <2>6. handle_retransmission' => 1 <= seq_num' /\ seq_num' <= highest_sent'
    BY <2>1 DEF BatchNumbers
  <2> QED BY <1>0, <2>1, <2>2, <2>4, <2>5, <2>6 DEF BatchNumbers
<1>7. CASE HandlePartialBatch
  <2>1. /\ state = "kHandlePartialBatch" /\ state' # "PushPkt"
        /\ UNCHANGED <<highest_sent, seq_num, handle_retransmission, start_seq, batch, on_air>>
    BY <1>7 DEF HandlePartialBatch, vars, deqVars
  <2> QED BY <1>0, <2>1 DEF BatchNumbers, NewBatch, ResentBatch, BatchConsecutive
<1>8. CASE HandleRetransmission
  <2>1. /\ state = "kHandleRetransmission" /\ state' = "kHandleEncoding" /\ batch' = Append(batch, Copied)
        /\ start_seq' = seq_num /\ ~handle_retransmission' /\ UNCHANGED <<highest_sent, on_air>>
    BY <1>8 DEF HandleRetransmission, vars, deqVars
  <2>2. Len(batch) = 0 /\ handle_retransmission
    BY <1>0, <2>1 DEF ShapeInv, SenderShape
  <2>3. on_air = highest_sent /\ 1 <= seq_num /\ seq_num <= highest_sent
    BY <1>0, <2>1, <2>2 DEF BatchNumbers, NewBatch, ResentBatch
  <2>4. Len(batch') = 1 /\ batch'[1].seq = seq_num
    BY <1>0, <2>1, <2>2, CopiedTyped
  <2>5. ResentBatch' /\ BatchConsecutive'
    BY <1>0, <2>1, <2>3, <2>4 DEF ResentBatch, BatchConsecutive
  <2> QED BY <2>1, <2>3, <2>5 DEF BatchNumbers
<1>9. CASE HandleEncoding
  <2>1. /\ state = "kHandleEncoding" /\ state' # "PushPkt" /\ state' # "kHandleEncoding"
        /\ batch' = <<>> /\ on_air' = Larger(on_air, batch[Len(batch)].seq)
        /\ UNCHANGED <<highest_sent, seq_num, handle_retransmission>>
    BY <1>9 DEF HandleEncoding, vars, deqVars
  <2>2. Len(batch) > 0
    BY <1>0, <2>1 DEF ShapeInv, SenderShape, SenderTyped
  <2>3. batch[Len(batch)].seq = start_seq + Len(batch) - 1
    BY <1>0, <2>2 DEF BatchNumbers, BatchConsecutive
  <2>4. on_air' = highest_sent
    BY <1>0, <2>1, <2>2, <2>3 DEF BatchNumbers, NewBatch, ResentBatch, Larger
  <2>5. Len(batch') = 0
    BY <2>1
  <2>6. NewBatch' /\ BatchConsecutive'
    BY <1>0, <2>1, <2>4, <2>5 DEF NewBatch, BatchConsecutive
  <2> QED BY <2>1, <2>6 DEF BatchNumbers
<1>10. ASSUME NEW p \in Producers, Enqueue(p) PROVE UNCHANGED <<highest_sent, sndVars>>
  <2>1. UNCHANGED highest_sent
    BY <1>10 DEF Enqueue, EnqueuePkt, EnqueueReadTail, EnqueueLockQueue, EnqueueDrop, AcquireTailLock, EnqueueStore, deqVars
  <2> QED BY <1>10, <2>1 DEF Enqueue
<1>11. HandleAck \/ HandleSilence => UNCHANGED <<highest_sent, sndVars>>
  <2>1. HandleDataAck \/ HandleTimeOut => UNCHANGED highest_sent
    BY HandlersKeepOut DEF deqVars
  <2> QED BY <2>1 DEF HandleAck, HandleSilence
<1>12. DequeueWait => UNCHANGED <<highest_sent, sndVars>>
  BY DEF DequeueWait, DequeueLockQueue, AcquireCurrLock
<1>13. UNCHANGED athVars => UNCHANGED <<highest_sent, sndVars>>
  BY DEF athVars, vars, deqVars
<1> QED BY <1>1, <1>2, <1>3, <1>4, <1>5, <1>6, <1>7, <1>8, <1>9, <1>10, <1>11, <1>12, <1>13
        DEF SendNext, HandleNewPkt

-----------------------------------------------------------------------------
(* Bounds.  With one producer positions stay below MaxEnq.                 *)

TailBound ==
  /\ tail_pt <= MaxEnq
  /\ \A p \in Producers : enq_pc[p] \in {"lock", "acquire"} => tail_pt < MaxEnq

SenderBounds ==
  /\ \A s \in Slots : payload[s] <= MaxEnq
  /\ seq_num <= MaxEnq /\ start_seq <= MaxEnq
  /\ \A i \in 1 .. Len(batch) : batch[i].payload <= MaxEnq

\* Only producers move the tail.
LEMMA OnlyProducersEnqueue ==
  ASSUME [SendNext]_athVars
  PROVE  (\E p \in Producers : Enqueue(p)) \/ UNCHANGED <<tail_pt, enqVars, payload>>
<1>1. HandleDataAck \/ HandleTimeOut => UNCHANGED <<tail_pt, enqVars>>
  BY HandlersKeepOut
<1>2. HandleAck \/ HandleSilence => UNCHANGED <<tail_pt, enqVars, payload>>
  BY <1>1 DEF HandleAck, HandleSilence
<1>3. DequeueWait => UNCHANGED <<tail_pt, enqVars, payload>>
  BY DEF DequeueWait, DequeueLockQueue, AcquireCurrLock, cursors
<1>4. TakePkt => UNCHANGED <<tail_pt, enqVars, payload>>
  BY DEF TakePkt, TakeNew, TakeRetrans, TakeNothing, DequeueNew, DequeueRetrans, DequeueSkip, DequeueRelease, cursors
<1>5. BatchStep \/ UNCHANGED athVars => UNCHANGED <<tail_pt, enqVars, payload>>
  BY DEF BatchStep, DequeueTimesOut, PushPkt, HandlePartialBatch, HandleRetransmission, HandleEncoding, athVars,
         vars, cursors
<1> QED BY <1>2, <1>3, <1>4, <1>5 DEF SendNext, HandleNewPkt, TakePkt, BatchStep

LEMMA NextTailBound ==
  ASSUME SingleProducer, TypeOK, TailBound, [SendNext]_athVars
  PROVE  TailBound'
<1>1. CASE UNCHANGED <<tail_pt, enqVars>>
  BY <1>1 DEF TailBound, enqVars
<1>2. ASSUME NEW p \in Producers, Enqueue(p) PROVE TailBound'
  <2>1. EnqueuePkt(p) /\ tail_pt \in Nat /\ MaxEnq \in Nat /\ enq_pc \in [Producers -> {"idle", "lock", "acquire", "store"}]
    BY <1>2, BoundsAssumption DEF Enqueue, TypeOK
  <2>2. \A q \in Producers : q = p
    BY DEF SingleProducer
  <2>3. CASE EnqueueReadTail(p)
    <3>1. {q \in Producers : enq_pc[q] \in {"lock", "acquire"}} = {}
      BY <2>2, <2>3 DEF EnqueueReadTail
    <3>2. tail_pt < MaxEnq /\ UNCHANGED tail_pt
      BY <2>1, <2>3, <3>1, FS_EmptySet DEF EnqueueReadTail, cursors
    <3> QED BY <3>2 DEF TailBound
  <2>4. CASE EnqueueLockQueue(p) \/ EnqueueDrop(p) \/ EnqueueStore(p)
    BY <2>1, <2>2, <2>4 DEF EnqueueLockQueue, EnqueueDrop, EnqueueStore, TailBound, cursors
  <2>5. CASE AcquireTailLock(p)
    BY <2>1, <2>2, <2>5 DEF AcquireTailLock, TailBound
  <2> QED BY <2>1, <2>3, <2>4, <2>5 DEF EnqueuePkt
<1> QED BY <1>1, <1>2, OnlyProducersEnqueue

LEMMA NextSenderBounds ==
  ASSUME SlotsInv, ShapeInv, TailBound, SenderBounds, [SendNext]_athVars
  PROVE  SenderBounds'
<1>0. /\ TypeOK /\ SenderTyped /\ SeqsBelowTail /\ Len(batch) \in Nat /\ tail_pt \in Nat /\ MaxEnq \in Nat
      /\ tail_pt <= MaxEnq
  BY BatchFacts, BoundsAssumption DEF SlotsInv, WindowInv, TypeInv, TypeOK, ShapeInv, TailBound
<1>1. CASE UNCHANGED <<payload, sndVars>>
  BY <1>1 DEF SenderBounds, sndVars
<1>2. ASSUME NEW p \in Producers, Enqueue(p) PROVE SenderBounds'
  <2>1. enq_pc[p] = "store" => enq_seq[p] <= MaxEnq
    BY <1>0 DEF SeqsBelowTail, TypeOK
  <2>2. \A s \in Slots : payload'[s] <= MaxEnq
    BY <1>0, <1>2, <2>1 DEF Enqueue, SenderTyped, SenderBounds
  <2> QED BY <1>2, <2>2 DEF Enqueue, SenderBounds, sndVars
<1>3. CASE TakePkt
  <2>1. seq_num' = book_keep[deq_index].seq_num /\ UNCHANGED <<payload, start_seq, batch>>
    BY <1>3 DEF TakePkt, TakeNew, TakeRetrans, TakeNothing
  <2>2. book_keep[deq_index].seq_num <= MaxEnq
    BY <1>0 DEF SeqsBelowTail, TypeOK, BookKeeping
  <2> QED BY <2>1, <2>2 DEF SenderBounds
<1>4. CASE PushPkt \/ HandleRetransmission
  <2>1. /\ batch' = Append(batch, Copied) /\ start_seq' \in {start_seq, seq_num}
        /\ UNCHANGED <<payload, seq_num>>
    BY <1>4 DEF PushPkt, HandleRetransmission
  <2>2. \A i \in 1 .. Len(batch) + 1 : i \in 1 .. Len(batch) \/ i = Len(batch) + 1
    BY <1>0
  <2>3. Copied.payload <= MaxEnq
    BY <1>0, CopiedTyped DEF SenderBounds, TypeOK
  <2>4. \A i \in 1 .. Len(batch') : batch'[i].payload <= MaxEnq
    BY <1>0, <2>1, <2>2, <2>3, CopiedTyped DEF SenderBounds
  <2> QED BY <2>1, <2>4 DEF SenderBounds
<1>5. CASE HandleEncoding
  BY <1>0, <1>5 DEF HandleEncoding, SenderBounds
<1>6. CASE DequeueTimesOut \/ HandlePartialBatch
  BY <1>6 DEF DequeueTimesOut, HandlePartialBatch, SenderBounds
<1> QED BY <1>1, <1>2, <1>3, <1>4, <1>5, <1>6
        DEF SendNext, HandleNewPkt, TakePkt, HandleAck, HandleSilence, DequeueWait, athVars

-----------------------------------------------------------------------------
(* The bytes of a batch, with one producer.                                *)

\* Acks cover packets on the air.
AcksOnAir == ack_pc = "ack" => end_seq <= on_air

\* The buffer of a slot that is not empty holds the packet of its entry.
SlotPayload == \A s \in Slots : book_keep[s].status # "Empty" => payload[s] = book_keep[s].seq_num

\* Between the return of DequeuePkt and the copy the slot keeps its packet when
\* it may be retransmitted ...
KeptUncopied ==
  state = "PushPkt" =>
    LET e == book_keep[deq_index]
    IN  e.status # "Empty" /\ e.seq_num = seq_num /\ e.num_retrans = NumRetrans

\* ... and otherwise its bytes, until head_pt_ has passed it.
LeftUncopied ==
  state = "PushPkt" =>
    /\ deq_index = Slot(seq_num - 1)
    /\ payload[deq_index] = seq_num \/ head_pt >= seq_num

Uncopied == IF NumRetrans > 0 THEN KeptUncopied ELSE LeftUncopied

CopyInv == AcksOnAir /\ SlotPayload /\ Uncopied /\ FirstPayloadMatches

LEMMA InitCopyInv == SendInit => CopyInv
BY DEF SendInit, Init, CopyInv, AcksOnAir, SlotPayload, Uncopied, KeptUncopied, LeftUncopied, FirstPayloadMatches, Cleared

LEMMA NextAcksOnAir ==
  ASSUME SlotsInv, ShapeInv, AcksOnAir, [SendNext]_athVars
  PROVE  AcksOnAir'
<1>0. TypeOK /\ SenderTyped
  BY DEF SlotsInv, WindowInv, TypeInv, ShapeInv
<1>1. AckArrives => (ack_pc = "wait" /\ ack_pc' = "ack") \/ ack_pc' # "ack" \/ UNCHANGED <<ack_pc, end_seq>>
  <2>1. \A a \in 1 .. MaxAckSeq : HandlePoke(a) => UNCHANGED <<ack_pc, end_seq>>
    BY DEF HandlePoke, nackVars
  <2>2. \A a \in 1 .. MaxAckSeq, end \in 1 .. highest_sent :
          HandleDupAck(a, end) => ack_pc' # "ack" \/ UNCHANGED <<ack_pc, end_seq>>
    BY DEF HandleDupAck, nackVars
  <2>3. \A a \in 1 .. MaxAckSeq, end \in 1 .. highest_sent, late \in SUBSET Slots :
          \A nacks \in SUBSET (1 .. end) : HandleNewAck(a, end, nacks, late) => ack_pc = "wait" /\ ack_pc' = "ack"
    BY DEF HandleNewAck
  <2> QED BY <2>1, <2>2, <2>3 DEF AckArrives
<1>2. AckStep => ack_pc' # "ack" \/ UNCHANGED <<ack_pc, end_seq>>
  BY DEF AckStep, AckFreeBlock, AckGiveUp, AckRetransmit, AckTooEarly, AckStillPending, AckReceived, AckSkipEmpty,
         AckFinish, StoreCursors, ScanUnchanged, nackVars
<1>3. HandleTimeOut => ack_pc' # "ack"
  BY DEF HandleTimeOut, TimeOutStart, TimeOutStep, TimeOutPending, TimeOutDrop, TimeOutRetransmit, TimeOutKeep,
         TimeOutEmpty, TimeOutBreak, TimeOutFinish, TimeOutScanning, StoreCursors, ScanUnchanged
<1>4. HandleAck \/ HandleSilence => AcksOnAir'
  BY <1>1, <1>2, <1>3 DEF HandleAck, HandleSilence, HandleDataAck, AcksOnAir, sndVars
<1>5. ASSUME NEW p \in Producers, Enqueue(p) PROVE AcksOnAir'
  <2>1. UNCHANGED ackVars
    BY <1>5 DEF Enqueue, EnqueuePkt, EnqueueReadTail, EnqueueLockQueue, EnqueueDrop, AcquireTailLock, EnqueueStore
  <2> QED BY <1>5, <2>1 DEF Enqueue, AcksOnAir, ackVars, nackVars, sndVars
<1>6. DequeueWait \/ TakePkt => UNCHANGED <<ack_pc, end_seq, on_air>>
  BY DEF DequeueWait, DequeueLockQueue, AcquireCurrLock, TakePkt, TakeNew, TakeRetrans, TakeNothing, DequeueNew,
         DequeueRetrans, DequeueSkip, DequeueRelease, ackVars, nackVars, sndVars
<1>7. BatchStep \/ UNCHANGED athVars => UNCHANGED <<ack_pc, end_seq>>
  BY DEF BatchStep, DequeueTimesOut, PushPkt, HandlePartialBatch, HandleRetransmission, HandleEncoding, athVars,
         vars, ackVars, nackVars
<1>8. BatchStep \/ UNCHANGED athVars => on_air' >= on_air
  <2>1. HandleEncoding => on_air' >= on_air
    <3> SUFFICES ASSUME HandleEncoding PROVE on_air' >= on_air
      OBVIOUS
    <3>1. batch \in Seq([seq : Nat, payload : Nat]) /\ Len(batch) > 0 /\ on_air \in Nat
      BY <1>0 DEF HandleEncoding, SenderTyped, ShapeInv, SenderShape, Batches
    <3>2. batch[Len(batch)] \in [seq : Nat, payload : Nat]
      <4>1. Len(batch) \in 1 .. Len(batch)
        BY <3>1
      <4> QED BY <3>1, <4>1, ElementOfSeq
    <3>3. on_air' = Larger(on_air, batch[Len(batch)].seq)
      BY DEF HandleEncoding
    <3> QED BY <3>1, <3>2, <3>3 DEF Larger
  <2>2. DequeueTimesOut \/ PushPkt \/ HandlePartialBatch \/ HandleRetransmission \/ UNCHANGED athVars => on_air' = on_air
    BY DEF DequeueTimesOut, PushPkt, HandlePartialBatch, HandleRetransmission, athVars, sndVars
  <2>3. on_air \in Nat
    BY <1>0 DEF SenderTyped
  <2> QED BY <2>1, <2>2, <2>3 DEF BatchStep
<1>9. UNCHANGED <<ack_pc, end_seq>> /\ on_air' >= on_air => AcksOnAir'
  <2>1. end_seq \in Nat /\ on_air \in Nat /\ on_air' \in Nat
    BY <1>0, NextShapeInv DEF TypeOK, SenderTyped, ShapeInv
  <2> QED BY <2>1 DEF AcksOnAir
<1> QED BY <1>4, <1>5, <1>6, <1>7, <1>8, <1>9 DEF AcksOnAir, SendNext, HandleNewPkt, TakePkt, BatchStep

\* What the handlers do to a slot: they free the one they look at when its
\* packet is acked or has no retransmission left, or ask for a retransmission.
LEMMA HandlersOnSlots ==
  ASSUME SlotsInv, HandleDataAck \/ HandleTimeOut, NEW s \in Slots
  PROVE  \/ book_keep'[s] = book_keep[s]
         \/ /\ book_keep'[s].status = "Empty"
            /\ s = AtSlot
            /\ book_keep[s].num_retrans = 0 \/ (ack_pc = "ack" /\ index < end_seq)
         \/ /\ book_keep[s].status # "Empty" /\ book_keep'[s].status # "Empty"
            /\ book_keep'[s].seq_num = book_keep[s].seq_num
            /\ book_keep'[s].num_retrans = book_keep[s].num_retrans
<1>0. /\ TypeOK /\ AtSlot \in Slots /\ book_keep \in [Slots -> BookKeeping]
      /\ index \in Nat /\ end_seq \in Nat /\ scan_from \in Nat
      /\ ack_pc = "ack" => scan_from <= end_seq
  BY EntryTyped DEF SlotsInv, WindowInv, TypeInv, TypeOK, ScanInWindow
<1>1. FreeEntry => book_keep'[s] = book_keep[s] \/ (s = AtSlot /\ book_keep'[s].status = "Empty")
  BY <1>0 DEF FreeEntry, Cleared
<1>2. book_keep' = [book_keep EXCEPT ![AtSlot].status = "Retrans"] =>
        \/ book_keep'[s] = book_keep[s]
        \/ /\ s = AtSlot /\ book_keep'[s].status # "Empty"
           /\ book_keep'[s].seq_num = book_keep[s].seq_num
           /\ book_keep'[s].num_retrans = book_keep[s].num_retrans
  BY <1>0 DEF BookKeeping
<1>3. AckArrives => UNCHANGED book_keep
  <2>1. \A a \in 1 .. MaxAckSeq : HandlePoke(a) => UNCHANGED book_keep
    BY DEF HandlePoke
  <2>2. \A a \in 1 .. MaxAckSeq, end \in 1 .. highest_sent : HandleDupAck(a, end) => UNCHANGED book_keep
    BY DEF HandleDupAck
  <2>3. \A a \in 1 .. MaxAckSeq, end \in 1 .. highest_sent, late \in SUBSET Slots :
          \A nacks \in SUBSET (1 .. end) : HandleNewAck(a, end, nacks, late) => UNCHANGED book_keep
    BY DEF HandleNewAck
  <2> QED BY <2>1, <2>2, <2>3 DEF AckArrives
<1>4. CASE AckFreeBlock
  BY <1>0, <1>1, <1>4 DEF AckFreeBlock
<1>5. CASE AckGiveUp \/ AckReceived
  BY <1>0, <1>1, <1>5 DEF AckGiveUp, AckReceived, AckScanning
<1>6. CASE AckRetransmit \/ TimeOutRetransmit
  BY <1>2, <1>6 DEF AckRetransmit, TimeOutRetransmit, Entry
<1>7. CASE AckTooEarly \/ AckStillPending \/ AckSkipEmpty \/ AckFinish
  BY <1>7 DEF AckTooEarly, AckStillPending, AckSkipEmpty, AckFinish, StoreCursors
<1>8. CASE TimeOutDrop
  BY <1>1, <1>8 DEF TimeOutDrop, Entry
<1>9. CASE TimeOutPending \/ TimeOutKeep \/ TimeOutEmpty \/ TimeOutBreak \/ TimeOutFinish
  BY <1>9 DEF TimeOutPending, TimeOutKeep, TimeOutEmpty, TimeOutBreak, TimeOutFinish, StoreCursors
<1>10. ASSUME NEW late \in SUBSET Slots, TimeOutStart(late) PROVE UNCHANGED book_keep
  BY <1>10 DEF TimeOutStart
<1> QED BY <1>3, <1>4, <1>5, <1>6, <1>7, <1>8, <1>9, <1>10 DEF HandleDataAck, AckStep, HandleTimeOut, TimeOutStep

LEMMA NextSlotPayload ==
  ASSUME SlotsInv, SenderTyped, SlotPayload, [SendNext]_athVars
  PROVE  SlotPayload'
<1>0. TypeOK
  BY DEF SlotsInv, WindowInv, TypeInv
<1>1. ASSUME NEW p \in Producers, Enqueue(p) PROVE SlotPayload'
  <2>1. CASE EnqueueStore(p)
    BY <1>0, <1>1, <2>1 DEF Enqueue, EnqueueStore, SlotPayload, SenderTyped, TypeOK
  <2>2. CASE EnqueuePkt(p) /\ ~EnqueueStore(p)
    <3>1. enq_pc[p] # "store" /\ UNCHANGED book_keep
      BY <2>2 DEF EnqueuePkt, EnqueueReadTail, EnqueueLockQueue, EnqueueDrop, AcquireTailLock
    <3> QED BY <1>1, <3>1 DEF Enqueue, SlotPayload
  <2> QED BY <1>1, <2>1, <2>2 DEF Enqueue
<1>2. CASE HandleAck \/ HandleSilence
  BY <1>2, HandlersOnSlots DEF HandleAck, HandleSilence, SlotPayload
<1>3. CASE TakePkt
  <2>1. /\ DequeueNew \/ DequeueRetrans \/ DequeueSkip
        /\ UNCHANGED payload /\ book_keep \in [Slots -> BookKeeping] /\ deq_index \in Slots
    BY <1>0, <1>3 DEF TakePkt, TakeNew, TakeRetrans, TakeNothing, TypeOK
  <2>2. ASSUME NEW s \in Slots, book_keep'[s].status # "Empty"
        PROVE  book_keep[s].status # "Empty" /\ book_keep'[s].seq_num = book_keep[s].seq_num
    BY <2>1, <2>2 DEF DequeueNew, DequeueRetrans, DequeueSkip, BookKeeping
  <2> QED BY <2>1, <2>2 DEF SlotPayload
<1>4. DequeueWait \/ BatchStep \/ UNCHANGED athVars => UNCHANGED <<payload, book_keep>>
  BY DEF DequeueWait, DequeueLockQueue, AcquireCurrLock, BatchStep, DequeueTimesOut, PushPkt, HandlePartialBatch,
         HandleRetransmission, HandleEncoding, athVars, vars
<1> QED BY <1>1, <1>2, <1>3, <1>4 DEF SlotPayload, SendNext, HandleNewPkt, TakePkt, BatchStep

LEMMA NextKeptUncopied ==
  ASSUME NumRetrans > 0, SlotsInv, WalkInv, ShapeInv, BatchNumbers, AcksOnAir, KeptUncopied, [SendNext]_athVars
  PROVE  KeptUncopied'
<1>0. /\ TypeOK /\ deq_index \in Slots /\ ScanBounds /\ ScanInWindow /\ book_keep \in [Slots -> BookKeeping]
      /\ index \in Nat /\ end_seq \in Nat /\ head_pt \in Nat /\ tail_pt \in Nat
      /\ highest_sent \in Nat /\ on_air \in Nat /\ Len(batch) \in Nat
  BY BatchFacts DEF SlotsInv, WindowInv, TypeInv, TypeOK, ScanInv
<1>1. CASE HandleAck \/ HandleSilence
  <2>1. UNCHANGED <<state, seq_num, deq_index>>
    BY <1>1, HandlersKeepOut DEF HandleAck, HandleSilence, sndVars, deqVars
  <2> SUFFICES ASSUME state = "PushPkt"
               PROVE  /\ book_keep'[deq_index].status # "Empty" /\ book_keep'[deq_index].seq_num = seq_num
                      /\ book_keep'[deq_index].num_retrans = NumRetrans
    BY <2>1 DEF KeptUncopied
  <2>2. /\ book_keep[deq_index].status # "Empty" /\ book_keep[deq_index].seq_num = seq_num
        /\ book_keep[deq_index].num_retrans = NumRetrans /\ seq_num = highest_sent
        /\ on_air < highest_sent
    BY <1>0 DEF KeptUncopied, BatchNumbers, NewBatch, ResentBatch
  <2>3. ~(deq_index = AtSlot /\ ack_pc = "ack" /\ index < end_seq)
    <3> SUFFICES ASSUME deq_index = AtSlot, ack_pc = "ack", index < end_seq PROVE FALSE
      OBVIOUS
    <3>1. index \in Positions /\ end_seq <= on_air
      BY <1>0 DEF Positions, ScanBounds, ScanInWindow, InHandler, AcksOnAir
    <3>2. book_keep[deq_index].seq_num = index + 1
      BY <2>2, <3>1 DEF WalkInv, SeqExact, At, AtSlot
    <3> QED BY <1>0, <2>2, <3>1, <3>2
  <2>4. HandleDataAck \/ HandleTimeOut
    BY <1>1 DEF HandleAck, HandleSilence
  <2>5. \/ book_keep'[deq_index] = book_keep[deq_index]
        \/ /\ book_keep'[deq_index].seq_num = book_keep[deq_index].seq_num
           /\ book_keep'[deq_index].num_retrans = book_keep[deq_index].num_retrans
           /\ book_keep'[deq_index].status # "Empty"
    BY <1>0, <2>2, <2>3, <2>4, HandlersOnSlots, BoundsAssumption
  <2> QED BY <2>2, <2>5
<1>2. ASSUME NEW p \in Producers, Enqueue(p) PROVE KeptUncopied'
  <2>1. UNCHANGED <<state, seq_num, deq_index>>
    BY <1>2 DEF Enqueue, EnqueuePkt, EnqueueReadTail, EnqueueLockQueue, EnqueueDrop, AcquireTailLock, EnqueueStore,
                deqVars, sndVars
  <2>2. book_keep[deq_index].status # "Empty" => book_keep'[deq_index] = book_keep[deq_index]
    <3>1. CASE EnqueueStore(p)
      <4>1. lock_arr[enq_index[p]] = p /\ enq_index[p] \in Slots
        BY <1>0, <3>1 DEF EnqueueStore, SlotsInv, BookInv, LockTable, TypeOK
      <4>2. book_keep[enq_index[p]].status = "Empty"
        BY <4>1 DEF SlotsInv, BookInv, SlotsOutside
      <4> QED BY <1>0, <3>1, <4>2 DEF EnqueueStore
    <3>2. CASE EnqueuePkt(p) /\ ~EnqueueStore(p)
      BY <3>2 DEF EnqueuePkt, EnqueueReadTail, EnqueueLockQueue, EnqueueDrop, AcquireTailLock
    <3> QED BY <1>2, <3>1, <3>2 DEF Enqueue
  <2> QED BY <2>1, <2>2 DEF KeptUncopied
<1>3. CASE TakeNew
  <2>1. DequeueNew /\ seq_num' = book_keep[deq_index].seq_num /\ deq_index' = deq_index
    BY <1>3 DEF TakeNew, DequeueNew, DequeueRelease
  <2> QED BY <2>1, TakenNumber DEF KeptUncopied
<1>4. DequeueWait \/ TakeRetrans \/ TakeNothing \/ BatchStep => state' # "PushPkt"
  BY DEF DequeueWait, TakeRetrans, TakeNothing, BatchStep, DequeueTimesOut, PushPkt, HandlePartialBatch,
         HandleRetransmission, HandleEncoding, sndVars
<1>5. UNCHANGED athVars => UNCHANGED <<state, seq_num, deq_index, book_keep>>
  BY DEF athVars, vars, sndVars, deqVars
<1> QED BY <1>1, <1>2, <1>3, <1>4, <1>5 DEF KeptUncopied, SendNext, HandleNewPkt, BatchStep

\* head_pt_ never moves back.
LEMMA HeadOnward ==
  ASSUME SlotsInv, [SendNext]_athVars
  PROVE  head_pt \in Nat /\ head_pt' \in Nat /\ head_pt' >= head_pt
<1>0. head_pt \in Nat /\ head_pt_final \in Nat
  BY DEF SlotsInv, WindowInv, TypeInv, TypeOK
<1>1. StoreCursors => head_pt' \in Nat /\ head_pt' >= head_pt
  BY <1>0 DEF StoreCursors, Larger
<1>2. AckArrives => UNCHANGED head_pt
  <2>1. \A a \in 1 .. MaxAckSeq : HandlePoke(a) => UNCHANGED head_pt
    BY DEF HandlePoke, cursors
  <2>2. \A a \in 1 .. MaxAckSeq, end \in 1 .. highest_sent : HandleDupAck(a, end) => UNCHANGED head_pt
    BY DEF HandleDupAck, cursors
  <2>3. \A a \in 1 .. MaxAckSeq, end \in 1 .. highest_sent, late \in SUBSET Slots :
          \A nacks \in SUBSET (1 .. end) : HandleNewAck(a, end, nacks, late) => UNCHANGED head_pt
    BY DEF HandleNewAck, cursors
  <2> QED BY <2>1, <2>2, <2>3 DEF AckArrives
<1>3. AckStep => StoreCursors \/ UNCHANGED head_pt
  BY DEF AckStep, AckFreeBlock, AckGiveUp, AckRetransmit, AckTooEarly, AckStillPending, AckReceived, AckSkipEmpty,
         AckFinish, ScanUnchanged, cursors
<1>4. HandleTimeOut => StoreCursors \/ UNCHANGED head_pt
  BY DEF HandleTimeOut, TimeOutStart, TimeOutStep, TimeOutPending, TimeOutDrop, TimeOutRetransmit, TimeOutKeep,
         TimeOutEmpty, TimeOutBreak, TimeOutFinish, ScanUnchanged, cursors
<1>5. ASSUME NEW p \in Producers, EnqueuePkt(p) PROVE UNCHANGED head_pt
  BY <1>5 DEF EnqueuePkt, EnqueueReadTail, EnqueueLockQueue, EnqueueDrop, AcquireTailLock, EnqueueStore, cursors
<1>6. DequeuePkt => UNCHANGED head_pt
  BY DEF DequeuePkt, DequeueLockQueue, AcquireCurrLock, DequeueTake, DequeueNew, DequeueRetrans, DequeueSkip,
         DequeueRelease, cursors
<1>7. UNCHANGED vars => UNCHANGED head_pt
  BY DEF vars, cursors
<1>8. [Next]_vars
  BY WindowStep
<1> QED BY <1>0, <1>1, <1>2, <1>3, <1>4, <1>5, <1>6, <1>7, <1>8 DEF Next, HandleDataAck

\* A producer that refills the slot of a packet writes a position a whole
\* window further on, so head_pt_ has passed the packet.
LEMMA RefilledLater ==
  ASSUME SlotsInv, NEW p \in Producers, EnqueueStore(p), NEW n \in Nat, n < highest_sent,
         enq_index[p] = Slot(n)
  PROVE  head_pt > n
<1>0. /\ TypeOK /\ LockTable /\ UnsentLast /\ tail_pt <= head_pt + BufSize
      /\ head_pt \in Nat /\ tail_pt \in Nat /\ highest_sent \in Nat /\ Positions \subseteq Nat
      /\ BufSize \in Nat
  BY PositionsTyped, BufSizeAssumption DEF SlotsInv, WindowInv, TypeInv, BookInv, WindowOrder
<1>1. lock_arr[enq_index[p]] = p /\ enq_index[p] \in Slots
  BY <1>0 DEF EnqueueStore, LockTable, TypeOK
<1>2. PICK m \in Positions : enq_index[p] = Slot(m)
  BY <1>0, <1>1, ThreadsAssumption DEF LockTable, Threads
<1>3. Owner(m) = p
  BY <1>1, <1>2 DEF Owner
<1>4. highest_sent <= m
  BY <1>0, <1>3 DEF UnsentLast, Unsent
<1>5. m \in Nat /\ m < tail_pt /\ n < m
  BY <1>0, <1>4 DEF Positions
<1>6. ~(m < n + BufSize)
  BY <1>2, <1>5, SlotsApart
<1> QED BY <1>0, <1>5, <1>6

LEMMA NextLeftUncopied ==
  ASSUME SlotsInv, WalkInv, ShapeInv, BatchNumbers, SlotPayload, LeftUncopied, [SendNext]_athVars
  PROVE  LeftUncopied'
<1>0. /\ TypeOK /\ deq_index \in Slots /\ SenderTyped /\ highest_sent \in Nat /\ on_air \in Nat
      /\ Len(batch) \in Nat
      /\ head_pt \in Nat /\ head_pt' \in Nat /\ head_pt' >= head_pt
  BY BatchFacts, HeadOnward DEF SlotsInv, WindowInv, TypeInv, TypeOK, ShapeInv
<1>1. ASSUME UNCHANGED <<state, seq_num, deq_index, payload>> PROVE LeftUncopied'
  BY <1>0, <1>1 DEF LeftUncopied, SenderTyped
<1>2. HandleAck \/ HandleSilence => UNCHANGED <<state, seq_num, deq_index, payload>>
  BY HandlersKeepOut DEF HandleAck, HandleSilence, sndVars, deqVars
<1>3. ASSUME NEW p \in Producers, Enqueue(p) PROVE LeftUncopied'
  <2>1. UNCHANGED <<state, seq_num, deq_index>>
    BY <1>3 DEF Enqueue, EnqueuePkt, EnqueueReadTail, EnqueueLockQueue, EnqueueDrop, AcquireTailLock, EnqueueStore,
                deqVars, sndVars
  <2>2. CASE enq_pc[p] # "store"
    BY <1>1, <1>3, <2>1, <2>2 DEF Enqueue
  <2>3. CASE enq_pc[p] = "store" /\ enq_index[p] # deq_index
    <3>1. payload'[deq_index] = payload[deq_index]
      BY <1>0, <1>3, <2>3 DEF Enqueue, SenderTyped
    <3> QED BY <1>0, <2>1, <3>1 DEF LeftUncopied, SenderTyped
  <2>4. CASE enq_pc[p] = "store" /\ enq_index[p] = deq_index
    <3> SUFFICES ASSUME state = "PushPkt" PROVE deq_index = Slot(seq_num - 1) /\ head_pt' >= seq_num
      BY <2>1 DEF LeftUncopied
    <3>1. deq_index = Slot(seq_num - 1) /\ seq_num = highest_sent
      BY DEF LeftUncopied, BatchNumbers
    <3>2. highest_sent > 0
      BY <1>0 DEF BatchNumbers, NewBatch, ResentBatch
    <3>3. EnqueueStore(p)
      BY <1>3, <2>4 DEF Enqueue, EnqueuePkt, EnqueueReadTail, EnqueueLockQueue, EnqueueDrop, AcquireTailLock
    <3>4. seq_num - 1 \in Nat /\ seq_num - 1 < highest_sent
      BY <1>0, <3>1, <3>2
    <3>5. head_pt > seq_num - 1
      BY <2>4, <3>1, <3>3, <3>4, RefilledLater
    <3> QED BY <1>0, <3>1, <3>4, <3>5
  <2> QED BY <2>2, <2>3, <2>4
<1>4. CASE TakeNew
  <2>1. /\ DequeueNew /\ seq_num' = book_keep[deq_index].seq_num /\ deq_index' = deq_index /\ payload' = payload
        /\ deq_pc = "take" /\ book_keep[deq_index].status = "New"
    BY <1>4 DEF TakeNew, DequeueNew, DequeueRelease
  <2>2. payload[deq_index] = seq_num'
    BY <1>0, <2>1 DEF SlotPayload
  <2>3. PICK n \in Positions : deq_index = Slot(n) /\ Owner(n) = Sender
    BY <2>1, SenderPosition
  <2>4. At(n).status = "New"
    BY <2>1, <2>3 DEF At
  <2>5. At(n).seq_num = n + 1 /\ n \in Nat
    BY <2>1, <2>3, <2>4, FirstSentNext, PositionsTyped DEF SlotsInv
  <2>6. seq_num' = n + 1
    BY <2>1, <2>3, <2>5 DEF At
  <2>7. seq_num' - 1 = n
    BY <2>5, <2>6
  <2> QED BY <2>1, <2>2, <2>3, <2>7 DEF LeftUncopied
<1>5. DequeueWait \/ TakeRetrans \/ TakeNothing \/ BatchStep => state' # "PushPkt"
  BY DEF DequeueWait, TakeRetrans, TakeNothing, BatchStep, DequeueTimesOut, PushPkt, HandlePartialBatch,
         HandleRetransmission, HandleEncoding, sndVars
<1>6. UNCHANGED athVars => UNCHANGED <<state, seq_num, deq_index, payload>>
  BY DEF athVars, vars, sndVars, deqVars
<1> QED BY <1>1, <1>2, <1>3, <1>4, <1>5, <1>6 DEF LeftUncopied, SendNext, HandleNewPkt, BatchStep

LEMMA NextUncopied ==
  ASSUME SlotsInv, WalkInv, ShapeInv, BatchNumbers, AcksOnAir, SlotPayload, Uncopied, [SendNext]_athVars
  PROVE  Uncopied'
<1>1. CASE NumRetrans > 0
  BY <1>1, NextKeptUncopied DEF Uncopied
<1>2. CASE ~(NumRetrans > 0)
  BY <1>2, NextLeftUncopied DEF Uncopied
<1> QED BY <1>1, <1>2

LEMMA NextFirstPayload ==
  ASSUME SlotsInv, ShapeInv, BatchNumbers, SlotPayload, Uncopied, FirstPayloadMatches, [SendNext]_athVars
  PROVE  FirstPayloadMatches'
<1>0. /\ TypeOK /\ SenderTyped /\ Len(batch) \in Nat /\ deq_index \in Slots
      /\ on_air \in Nat /\ highest_sent \in Nat /\ seq_num \in Nat
      /\ head_pt \in Nat /\ head_pt' \in Nat /\ head_pt' >= head_pt /\ NumRetrans \in Nat
  BY BatchFacts, HeadOnward, BoundsAssumption DEF SlotsInv, WindowInv, TypeInv, TypeOK, ShapeInv
<1>1. CASE PushPkt
  <2>1. state = "PushPkt" /\ batch' = Append(batch, Copied) /\ UNCHANGED on_air
    BY <1>1 DEF PushPkt
  <2>2. Copied.payload = Copied.seq \/ (NumRetrans = 0 /\ head_pt >= Copied.seq)
    <3>1. CASE NumRetrans > 0
      BY <1>0, <2>1, <3>1, CopiedTyped DEF SlotPayload, Uncopied, KeptUncopied
    <3>2. CASE NumRetrans = 0
      BY <1>0, <2>1, <3>2, CopiedTyped DEF Uncopied, LeftUncopied
    <3> QED BY <1>0, <3>1, <3>2
  <2>3. \A i \in 1 .. Len(batch) + 1 : i \in 1 .. Len(batch) \/ i = Len(batch) + 1
    BY <1>0
  <2>4. head_pt' = head_pt
    BY <1>1 DEF PushPkt, vars, cursors
  <2> QED BY <1>0, <2>1, <2>2, <2>3, <2>4, CopiedTyped DEF FirstPayloadMatches
<1>2. CASE HandleRetransmission
  <2>1. batch = <<>> /\ handle_retransmission /\ state = "kHandleRetransmission"
    BY <1>2 DEF HandleRetransmission, ShapeInv, SenderShape
  <2>2. Len(batch) = 0
    BY <2>1
  <2>3. seq_num <= on_air
    BY <1>0, <2>1, <2>2 DEF BatchNumbers, NewBatch, ResentBatch
  <2>4. Len(batch') = 1 /\ batch'[1].seq = seq_num /\ UNCHANGED on_air
    BY <1>0, <1>2, <2>2, CopiedTyped DEF HandleRetransmission
  <2> QED BY <1>0, <2>3, <2>4 DEF FirstPayloadMatches
<1>3. CASE HandleEncoding
  BY <1>3 DEF HandleEncoding, FirstPayloadMatches
<1>4. CASE UNCHANGED <<batch, on_air>>
  <2> SUFFICES ASSUME NEW i \in 1 .. Len(batch), batch[i].seq > on_air
               PROVE  batch[i].payload = batch[i].seq \/ (NumRetrans = 0 /\ head_pt' >= batch[i].seq)
    BY <1>4 DEF FirstPayloadMatches
  <2>1. batch[i].payload = batch[i].seq \/ (NumRetrans = 0 /\ head_pt >= batch[i].seq)
    BY DEF FirstPayloadMatches
  <2>2. batch[i] \in [seq : Nat, payload : Nat]
    <3>1. batch \in Seq([seq : Nat, payload : Nat])
      BY <1>0 DEF SenderTyped, Batches
    <3> QED BY <3>1, ElementOfSeq
  <2> QED BY <1>0, <2>1, <2>2
<1>5. \A p \in Producers : Enqueue(p) => UNCHANGED <<batch, on_air>>
  BY DEF Enqueue, sndVars
<1>6. HandleAck \/ HandleSilence \/ DequeueWait \/ TakePkt \/ UNCHANGED athVars => UNCHANGED <<batch, on_air>>
  BY DEF HandleAck, HandleSilence, DequeueWait, TakePkt, TakeNew, TakeRetrans, TakeNothing, athVars, sndVars
<1>7. DequeueTimesOut \/ HandlePartialBatch => UNCHANGED <<batch, on_air>>
  BY DEF DequeueTimesOut, HandlePartialBatch
<1> QED BY <1>1, <1>2, <1>3, <1>4, <1>5, <1>6, <1>7 DEF SendNext, HandleNewPkt, TakePkt

-----------------------------------------------------------------------------
(* The theorems for one producer.                                          *)

BatchInv == SlotsInv /\ WalkInv /\ ShapeInv /\ BatchNumbers

LEMMA BatchInvHolds ==
  ASSUME SingleProducer
  PROVE  SendSpec => []BatchInv
<1>1. SendInit => BatchNumbers
  BY DEF SendInit, Init, BatchNumbers, NewBatch, BatchConsecutive
<1>2. SendInit => BatchInv
  BY <1>1, InitSlotsInv, InitWalkInv, InitShapeInv DEF SendInit, BatchInv
<1>3. SlotsInv => TypeOK
  BY DEF SlotsInv, WindowInv, TypeInv
<1>4. BatchInv /\ [SendNext]_athVars => BatchInv'
  BY <1>3, WindowStep, NextSlotsInv, NextWalkInv, NextShapeInv, NextBatchNumbers DEF BatchInv
<1> QED BY <1>2, <1>4, PTL DEF SendSpec

\* A batch holds consecutive packets from start_seq on, whatever timeouts and
\* retransmissions cut it short: its header need not list them.
THEOREM BatchesConsecutive ==
  ASSUME SingleProducer
  PROVE  SendSpec => []BatchConsecutive
<1>1. BatchInv => BatchConsecutive
  BY DEF BatchInv, BatchNumbers
<1> QED BY <1>1, BatchInvHolds, PTL

\* Every packet taken for the first time is on the air, in the batch, or about
\* to be pushed into it.
THEOREM NothingForgotten ==
  ASSUME SingleProducer
  PROVE  SendSpec => []NoneForgotten
<1>1. BatchInv => NoneForgotten
  <2> SUFFICES ASSUME BatchInv PROVE NoneForgotten
    OBVIOUS
  <2> DEFINE fresh == {i \in 1 .. Len(batch) : batch[i].seq > on_air}
  <2>1. /\ highest_sent \in Nat /\ on_air \in Nat /\ start_seq \in Nat /\ Len(batch) \in Nat
        /\ (batch = <<>> <=> Len(batch) = 0)
        /\ \A i \in 1 .. Len(batch) : batch[i].seq = start_seq + i - 1
    BY BatchFacts DEF BatchInv, BatchNumbers, BatchConsecutive
  <2> HIDE DEF fresh
  <2>2. CASE NewBatch
    <3>1. fresh = 1 .. Len(batch)
      BY <2>1, <2>2 DEF NewBatch, fresh
    <3>2. Cardinality(1 .. Len(batch)) = IF 1 > Len(batch) THEN 0 ELSE Len(batch) - 1 + 1
      BY <2>1, FS_Interval
    <3>3. Cardinality(fresh) = Len(batch)
      BY <2>1, <3>1, <3>2
    <3> QED BY <2>1, <2>2, <3>3 DEF NewBatch, NoneForgotten, fresh
  <2>3. CASE ResentBatch
    <3>1. fresh = {}
      BY <2>1, <2>3 DEF ResentBatch, fresh
    <3>2. Cardinality(fresh) = 0
      BY <3>1, FS_EmptySet
    <3> QED BY <2>1, <2>3, <3>2 DEF ResentBatch, NoneForgotten, fresh
  <2> QED BY <2>2, <2>3 DEF BatchInv, BatchNumbers
<1> QED BY <1>1, BatchInvHolds, PTL

\* Type correctness of the sender: no sequence number leaves 1 .. MaxEnq, a
\* batch never outgrows MAX_BATCH_SIZE and on_air never runs ahead of what
\* was taken.
THEOREM SenderTypeCorrect ==
  ASSUME SingleProducer
  PROVE  SendSpec => []SendTypeOK
<1>1. SendInit => TailBound /\ SenderBounds
  BY BoundsAssumption DEF SendInit, Init, TailBound, SenderBounds
<1>2. BatchInv /\ TailBound /\ SenderBounds /\ [SendNext]_athVars => (TailBound /\ SenderBounds)'
  <2>1. SlotsInv => TypeOK
    BY DEF SlotsInv, WindowInv, TypeInv
  <2> QED BY <2>1, NextTailBound, NextSenderBounds DEF BatchInv
<1>3. BatchInv /\ TailBound /\ SenderBounds => SendTypeOK
  <2> SUFFICES ASSUME BatchInv, TailBound, SenderBounds PROVE SendTypeOK
    OBVIOUS
  <2>1. /\ SenderTyped /\ Len(batch) \in Nat /\ (batch = <<>> <=> Len(batch) = 0) /\ SeqsBelowTail
        /\ highest_sent \in Nat /\ on_air \in Nat /\ start_seq \in Nat /\ seq_num \in Nat
        /\ highest_sent <= MaxEnq /\ MaxEnq \in Nat
    BY BatchFacts, BoundsAssumption
       DEF BatchInv, ShapeInv, SlotsInv, WindowInv, SeqsBelowTail, TailBound, TypeInv, TypeOK
  <2>2. payload \in [Slots -> 0 .. MaxEnq]
    BY <2>1 DEF SenderTyped, SenderBounds
  <2>3. \A i \in 1 .. Len(batch) : batch[i] \in [seq : 1 .. MaxEnq, payload : 0 .. MaxEnq]
    <3> SUFFICES ASSUME NEW i \in 1 .. Len(batch)
                 PROVE  batch[i] \in [seq : 1 .. MaxEnq, payload : 0 .. MaxEnq]
      OBVIOUS
    <3>1. batch[i] \in [seq : Nat, payload : Nat]
      <4>1. batch \in Seq([seq : Nat, payload : Nat])
        BY <2>1 DEF SenderTyped, Batches
      <4> QED BY <4>1, ElementOfSeq
    <3>2. batch[i].seq = start_seq + i - 1 /\ 1 <= start_seq
      BY <2>1 DEF BatchInv, BatchNumbers, BatchConsecutive
    <3>3. start_seq + Len(batch) - 1 <= highest_sent
      <4>1. CASE NewBatch
        BY <2>1, <4>1 DEF NewBatch
      <4>2. CASE ResentBatch
        BY <2>1, <4>2 DEF ResentBatch
      <4> QED BY <4>1, <4>2 DEF BatchInv, BatchNumbers
    <3>4. batch[i].seq \in 1 .. MaxEnq
      BY <2>1, <3>1, <3>2, <3>3
    <3>5. batch[i].payload \in 0 .. MaxEnq
      BY <2>1, <3>1 DEF SenderBounds
    <3> QED BY <3>1, <3>4, <3>5
  <2>4. batch \in Seq([seq : 1 .. MaxEnq, payload : 0 .. MaxEnq])
    BY <2>1, <2>3, SeqOfElements DEF SenderTyped, Batches
  <2>5. Len(batch) <= MaxBatch
    BY <2>1, BatchAssumption DEF BatchInv, ShapeInv, SenderShape, SenderTyped
  <2>6. on_air \in 0 .. highest_sent
    BY <2>1 DEF BatchInv, BatchNumbers, NewBatch, ResentBatch
  <2> QED BY <2>1, <2>2, <2>4, <2>5, <2>6 DEF SendTypeOK, SenderTyped, SenderBounds
<1> QED BY <1>1, <1>2, <1>3, BatchInvHolds, PTL DEF SendSpec

\* A first transmission carries the bytes of its packet, although DequeuePkt
\* unlocks the slot before they are copied.  The one exception: a window without
\* retransmissions (num_retrans_ = 0) gave the packet up before the copy, and
\* head_pt_ has passed it.
THEOREM FirstPayloads ==
  ASSUME SingleProducer
  PROVE  SendSpec => []FirstPayloadMatches
<1>1. BatchInv /\ CopyInv /\ [SendNext]_athVars => CopyInv'
  BY NextAcksOnAir, NextSlotPayload, NextUncopied, NextFirstPayload DEF BatchInv, CopyInv, ShapeInv
<1>2. CopyInv => FirstPayloadMatches
  BY DEF CopyInv
<1> QED BY <1>1, <1>2, InitCopyInv, BatchInvHolds, PTL DEF SendSpec
=============================================================================
