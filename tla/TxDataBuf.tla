----------------------------- MODULE TxDataBuf -----------------------------
(***************************************************************************)
(* The send window of one client: the ring buffer TxDataBuf with its three *)
(* cursors head_pt_ <= curr_pt_ <= tail_pt_, and the threads that share it *)
(*                                                                         *)
(*   - producers   TxRcvCell and TxSendProbe call EnqueuePkt;              *)
(*   - the sender  TxSendAth calls DequeuePkt;                             *)
(*   - the ack thread TxHandleDataAck runs HandleDataAck and HandleTimeOut.*)
(*                                                                         *)
(* qlock_ guards the cursors, lock_arr_[i] guards slot i.  A thread may    *)
(* wait for a slot while it holds qlock_, never the other way round.  The  *)
(* ack thread holds qlock_ for the whole of a handler and locks one slot   *)
(* per iteration, so a handler is one step per iteration here.             *)
(*                                                                         *)
(* Cursors are positions 0, 1, 2, ...; position p lives in slot p % B and  *)
(* its packet should carry sequence number p + 1.                          *)
(***************************************************************************)
EXTENDS Integers, FiniteSetsExt

CONSTANTS
  Producers,       \* threads that call EnqueuePkt
  Sender,          \* the TxSendAth thread
  Acker,           \* the TxHandleDataAck thread
  NoOne,           \* a lock nobody holds
  BufSize,         \* BUF_SIZE
  NumRetrans,      \* num_retrans_
  MaxDupAck,       \* kMaxDupAckCnt
  MaxContTimeOut,  \* max_contiguous_time_out_
  MaxEnq,          \* bound: positions ever given to a packet
  MaxAckSeq        \* bound: highest ack_seq a client sends

Threads == Producers \cup {Sender, Acker}

ASSUME ThreadsAssumption == /\ Sender \notin Producers
                            /\ Acker \notin Producers \cup {Sender}
                            /\ NoOne \notin Threads
ASSUME BufSizeAssumption == BufSize \in Nat \ {0}
ASSUME BoundsAssumption == /\ NumRetrans \in Nat
                           /\ MaxDupAck \in Nat \ {0}
                           /\ MaxContTimeOut \in Nat \ {0}
                           /\ MaxEnq \in Nat
                           /\ MaxAckSeq \in Nat

VARIABLES
  head_pt, curr_pt, tail_pt,
  book_keep,     \* book_keep_arr_: slot -> [seq_num, status, num_retrans]
  sent_before,   \* slot -> the slots with an older timestamp
  qlock,         \* owner of qlock_
  lock_arr,      \* slot -> owner of lock_arr_[slot]
  enq_pc, enq_seq, enq_index,        \* EnqueuePkt of each producer
  deq_pc, deq_index,                 \* DequeuePkt
  ack_pc,                            \* what TxHandleDataAck is doing
  index, head_pt_final, curr_pt_final, is_first_update, increment_time_out,
  end_seq, nack_set, nacks_left, scan_from,   \* the ack being handled
  overdue,       \* slots whose packet the handler finds too old
  expect_data_ack_seq, dup_data_ack_cnt, contiguous_time_out,
  highest_sent   \* history: highest sequence number handed to the sender

cursors  == <<head_pt, curr_pt, tail_pt>>
enqVars  == <<enq_pc, enq_seq, enq_index>>
deqVars  == <<deq_pc, deq_index, sent_before, highest_sent>>
scanVars == <<index, head_pt_final, curr_pt_final, is_first_update, increment_time_out>>
nackVars == <<end_seq, nack_set, nacks_left, scan_from>>
counters == <<expect_data_ack_seq, dup_data_ack_cnt, contiguous_time_out>>
ackVars  == <<ack_pc, scanVars, nackVars, overdue, counters>>
vars     == <<cursors, book_keep, qlock, lock_arr, enqVars, deqVars, ackVars>>

Slots == 0 .. BufSize - 1
Slot(p) == p % BufSize
Status == {"Empty", "New", "Outbound", "Retrans"}
BookKeeping == [seq_num : Nat, status : Status, num_retrans : 0 .. NumRetrans]
Cleared == [seq_num |-> 0, status |-> "Empty", num_retrans |-> 0]

Larger(a, b) == IF a > b THEN a ELSE b

IsFull  == tail_pt = head_pt + BufSize
IsEmpty == tail_pt = curr_pt

Init ==
  /\ head_pt = 0 /\ curr_pt = 0 /\ tail_pt = 0
  /\ book_keep = [s \in Slots |-> Cleared]
  /\ sent_before = [s \in Slots |-> {}]
  /\ qlock = NoOne
  /\ lock_arr = [s \in Slots |-> NoOne]
  /\ enq_pc = [p \in Producers |-> "idle"]
  /\ enq_seq = [p \in Producers |-> 0]
  /\ enq_index = [p \in Producers |-> 0]
  /\ deq_pc = "idle" /\ deq_index = 0
  /\ ack_pc = "wait"
  /\ index = 0 /\ head_pt_final = 0 /\ curr_pt_final = 0
  /\ is_first_update = TRUE /\ increment_time_out = FALSE
  /\ end_seq = 0 /\ nack_set = {} /\ nacks_left = {} /\ scan_from = 0 /\ overdue = {}
  /\ expect_data_ack_seq = 1
  /\ dup_data_ack_cnt = 0
  /\ contiguous_time_out = 0
  /\ highest_sent = 0

-----------------------------------------------------------------------------
(* EnqueuePkt.  The sequence number is read before the queue is locked.    *)
\* Broken variant: sequence numbers from 0.
EnqueueReadTailZeroBased(p) ==
  /\ enq_pc[p] = "idle"
  /\ tail_pt + Cardinality({q \in Producers : enq_pc[q] \in {"lock", "acquire"}}) < MaxEnq
  /\ enq_pc' = [enq_pc EXCEPT ![p] = "lock"]
  /\ enq_seq' = [enq_seq EXCEPT ![p] = tail_pt]
  /\ UNCHANGED <<cursors, book_keep, qlock, lock_arr, enq_index, deqVars, ackVars>>

EnqueueReadTail(p) ==
  /\ enq_pc[p] = "idle"
  /\ tail_pt + Cardinality({q \in Producers : enq_pc[q] \in {"lock", "acquire"}}) < MaxEnq
  /\ enq_pc' = [enq_pc EXCEPT ![p] = "lock"]
  /\ enq_seq' = [enq_seq EXCEPT ![p] = tail_pt + 1]
  /\ UNCHANGED <<cursors, book_keep, qlock, lock_arr, enq_index, deqVars, ackVars>>

EnqueueLockQueue(p) ==
  /\ enq_pc[p] = "lock"
  /\ qlock = NoOne
  /\ qlock' = p
  /\ enq_pc' = [enq_pc EXCEPT ![p] = "acquire"]
  /\ UNCHANGED <<cursors, book_keep, lock_arr, enq_seq, enq_index, deqVars, ackVars>>

\* The packet is dropped when the window is full.
EnqueueDrop(p) ==
  /\ enq_pc[p] = "acquire"
  /\ IsFull
  /\ qlock' = NoOne
  /\ enq_pc' = [enq_pc EXCEPT ![p] = "idle"]
  /\ UNCHANGED <<cursors, book_keep, lock_arr, enq_seq, enq_index, deqVars, ackVars>>

AcquireTailLock(p) ==
  /\ enq_pc[p] = "acquire"
  /\ ~IsFull
  /\ lock_arr[Slot(tail_pt)] = NoOne
  /\ lock_arr' = [lock_arr EXCEPT ![Slot(tail_pt)] = p]
  /\ enq_index' = [enq_index EXCEPT ![p] = Slot(tail_pt)]
  /\ tail_pt' = tail_pt + 1
  /\ qlock' = NoOne
  /\ enq_pc' = [enq_pc EXCEPT ![p] = "store"]
  /\ UNCHANGED <<head_pt, curr_pt, book_keep, enq_seq, deqVars, ackVars>>

EnqueueStore(p) ==
  /\ enq_pc[p] = "store"
  /\ book_keep' = [book_keep EXCEPT ![enq_index[p]] =
                     [seq_num |-> enq_seq[p], status |-> "New", num_retrans |-> NumRetrans]]
  /\ lock_arr' = [lock_arr EXCEPT ![enq_index[p]] = NoOne]
  /\ enq_pc' = [enq_pc EXCEPT ![p] = "idle"]
  /\ UNCHANGED <<cursors, qlock, enq_seq, enq_index, deqVars, ackVars>>

EnqueuePkt(p) == \/ EnqueueReadTail(p)
                 \/ EnqueueLockQueue(p)
                 \/ EnqueueDrop(p)
                 \/ AcquireTailLock(p)
                 \/ EnqueueStore(p)

-----------------------------------------------------------------------------
(* DequeuePkt.  A wait that finds the queue empty, times out or wakes up   *)
(* changes nothing here, so the queue is locked only when it is not empty. *)

DequeueLockQueue ==
  /\ deq_pc = "idle"
  /\ qlock = NoOne
  /\ ~IsEmpty
  /\ qlock' = Sender
  /\ deq_pc' = "acquire"
  /\ UNCHANGED <<cursors, book_keep, lock_arr, enqVars, deq_index, sent_before, highest_sent,
                 ackVars>>

\* Broken variant: the sender does not wait for a slot that is being written.
AcquireCurrLockUnchecked ==
  /\ deq_pc = "acquire"
  /\ lock_arr' = [lock_arr EXCEPT ![Slot(curr_pt)] = Sender]
  /\ deq_index' = Slot(curr_pt)
  /\ curr_pt' = curr_pt + 1
  /\ qlock' = NoOne
  /\ deq_pc' = "take"
  /\ UNCHANGED <<head_pt, tail_pt, book_keep, enqVars, sent_before, highest_sent, ackVars>>

AcquireCurrLock ==
  /\ deq_pc = "acquire"
  /\ lock_arr[Slot(curr_pt)] = NoOne
  /\ lock_arr' = [lock_arr EXCEPT ![Slot(curr_pt)] = Sender]
  /\ deq_index' = Slot(curr_pt)
  /\ curr_pt' = curr_pt + 1
  /\ qlock' = NoOne
  /\ deq_pc' = "take"
  /\ UNCHANGED <<head_pt, tail_pt, book_keep, enqVars, sent_before, highest_sent, ackVars>>

\* GetCurrTime: from now on s has the latest timestamp of all packets that are
\* out, and a handler that runs already does not find it too old.
Stamp(s) ==
  /\ sent_before' = [t \in Slots |-> IF t = s
                       THEN {o \in Slots \ {s} : book_keep[o].status = "Outbound"}
                       ELSE sent_before[t] \ {s}]
  /\ overdue' = overdue \ {s}

DequeueRelease ==
  /\ lock_arr' = [lock_arr EXCEPT ![deq_index] = NoOne]
  /\ deq_pc' = "idle"
  /\ UNCHANGED <<cursors, qlock, enqVars, deq_index, ack_pc, scanVars, nackVars, counters>>

DequeueNew ==
  /\ deq_pc = "take"
  /\ book_keep[deq_index].status = "New"
  /\ book_keep' = [book_keep EXCEPT ![deq_index].status = "Outbound"]
  /\ highest_sent' = Larger(highest_sent, book_keep[deq_index].seq_num)
  /\ Stamp(deq_index)
  /\ DequeueRelease

\* Broken variant: a retransmission costs nothing.
DequeueRetransFree ==
  /\ deq_pc = "take"
  /\ book_keep[deq_index].status = "Retrans"
  /\ book_keep' = [book_keep EXCEPT ![deq_index].status = "Outbound"]
  /\ Stamp(deq_index)
  /\ DequeueRelease
  /\ UNCHANGED highest_sent

DequeueRetrans ==
  /\ deq_pc = "take"
  /\ book_keep[deq_index].status = "Retrans"
  /\ book_keep' = [book_keep EXCEPT ![deq_index].status = "Outbound",
                                    ![deq_index].num_retrans = @ - 1]
  /\ Stamp(deq_index)
  /\ DequeueRelease
  /\ UNCHANGED highest_sent

\* Any other slot is passed over.
DequeueSkip ==
  /\ deq_pc = "take"
  /\ book_keep[deq_index].status \in {"Empty", "Outbound"}
  /\ DequeueRelease
  /\ UNCHANGED <<book_keep, sent_before, overdue, highest_sent>>

DequeueTake == DequeueNew \/ DequeueRetrans \/ DequeueSkip

DequeuePkt == DequeueLockQueue \/ AcquireCurrLock \/ DequeueTake

-----------------------------------------------------------------------------
(* HandleDataAck.  The nacks of an ack are listed in increasing order, so  *)
(* the nacks from nack_cnt on are the set nacks_left, the next one is its  *)
(* minimum, and nack_cnt++ removes that minimum.                           *)

AtSlot == Slot(index)
Entry == book_keep[AtSlot]
NextNack == Min(nacks_left)

ScanUnchanged ==
  UNCHANGED <<cursors, qlock, lock_arr, enqVars, deqVars, overdue, counters, ack_pc>>

\* The cell being looked at becomes free ...
FreeEntry == book_keep' = [book_keep EXCEPT ![AtSlot] = Cleared]

\* Broken variant: head follows any freed slot.
ReclaimAlways(p) == head_pt_final' = head_pt_final + 1

\* ... and head follows when everything before it is free.
ReclaimAt(p) == head_pt_final' = IF head_pt_final = p THEN head_pt_final + 1 ELSE head_pt_final

\* Broken variant: the sender resumes at the last packet to retransmit.
ResumeAtLast(p) == /\ curr_pt_final' = p
                   /\ is_first_update' = FALSE

\* The first packet to retransmit decides where the sender resumes.
ResumeAt(p) == /\ curr_pt_final' = IF is_first_update THEN p ELSE curr_pt_final
               /\ is_first_update' = FALSE

\* What a handler may find older than its limit (rtt_ after a nack, 1.2 rtt_
\* at a timeout): with a packet every packet sent before it.
Overdue(late) ==
  \A s \in late : /\ book_keep[s].status = "Outbound"
                  /\ {o \in sent_before[s] : book_keep[o].status = "Outbound"} \subseteq late

\* An ack the client may send: it covers packets that were sent at most.
AckFromClient(ack_seq, end, nacks) ==
  /\ ack_seq \in expect_data_ack_seq .. MaxAckSeq
  /\ end \in 0 .. highest_sent
  /\ nacks \subseteq 1 .. end

\* end_seq is 0 before the client has received its first batch.
HandlePoke(ack_seq) ==
  /\ ack_pc = "wait"
  /\ AckFromClient(ack_seq, 0, {})
  /\ expect_data_ack_seq' = ack_seq + 1
  /\ UNCHANGED <<cursors, book_keep, qlock, lock_arr, enqVars, deqVars, ack_pc,
                 scanVars, nackVars, overdue, dup_data_ack_cnt, contiguous_time_out>>

\* Broken variant: the count is not reset.
HandleDupAckKeepsCount(ack_seq, end) ==
  /\ ack_pc = "wait"
  /\ qlock = NoOne
  /\ AckFromClient(ack_seq, end, {})
  /\ end > 0 /\ end - 1 < head_pt
  /\ expect_data_ack_seq' = ack_seq + 1
  /\ IF dup_data_ack_cnt + 1 >= MaxDupAck
     THEN /\ dup_data_ack_cnt' = dup_data_ack_cnt + 1
          /\ contiguous_time_out' = MaxContTimeOut
          /\ ack_pc' = "must_time_out"
     ELSE /\ dup_data_ack_cnt' = dup_data_ack_cnt + 1
          /\ UNCHANGED <<contiguous_time_out, ack_pc>>
  /\ UNCHANGED <<cursors, book_keep, qlock, lock_arr, enqVars, deqVars, scanVars, nackVars,
                 overdue>>

\* An ack for packets that left the window already; MaxDupAck of them in a
\* row count as a timeout.
HandleDupAck(ack_seq, end) ==
  /\ ack_pc = "wait"
  /\ qlock = NoOne
  /\ AckFromClient(ack_seq, end, {})
  /\ end > 0 /\ end - 1 < head_pt
  /\ expect_data_ack_seq' = ack_seq + 1
  /\ IF dup_data_ack_cnt + 1 >= MaxDupAck
     THEN /\ dup_data_ack_cnt' = 0
          /\ contiguous_time_out' = MaxContTimeOut
          /\ ack_pc' = "must_time_out"
     ELSE /\ dup_data_ack_cnt' = dup_data_ack_cnt + 1
          /\ UNCHANGED <<contiguous_time_out, ack_pc>>
  /\ UNCHANGED <<cursors, book_keep, qlock, lock_arr, enqVars, deqVars, scanVars, nackVars,
                 overdue>>

\* The window up to the first nack still inside it is acknowledged.
HandleNewAck(ack_seq, end, nacks, late) ==
  LET live == {n \in nacks : n - 1 >= head_pt}
      from == IF nacks = {} THEN end ELSE IF live = {} THEN head_pt ELSE Min(live) - 1
  IN  /\ ack_pc = "wait"
      /\ qlock = NoOne
      /\ AckFromClient(ack_seq, end, nacks)
      /\ end > 0 /\ end - 1 >= head_pt
      /\ expect_data_ack_seq' = ack_seq + 1
      /\ dup_data_ack_cnt' = 0
      /\ contiguous_time_out' = 0
      /\ qlock' = Acker
      /\ ack_pc' = "ack"
      /\ end_seq' = end /\ nack_set' = nacks /\ nacks_left' = live
      /\ scan_from' = from
      /\ Overdue(late)
      /\ overdue' = late
      /\ index' = head_pt
      /\ head_pt_final' = from
      /\ curr_pt_final' = curr_pt
      /\ is_first_update' = TRUE
      /\ UNCHANGED <<cursors, book_keep, lock_arr, enqVars, deqVars, increment_time_out>>

\* Slots before scan_from are acknowledged as a block.
AckFreeBlock ==
  /\ ack_pc = "ack"
  /\ index < scan_from
  /\ lock_arr[AtSlot] = NoOne
  /\ FreeEntry
  /\ index' = index + 1
  /\ UNCHANGED <<head_pt_final, curr_pt_final, is_first_update, increment_time_out, nackVars>>
  /\ ScanUnchanged

\* One iteration of the loop over the rest of the acknowledged range.
AckScanning == /\ ack_pc = "ack"
               /\ scan_from <= index /\ index < end_seq
               /\ lock_arr[AtSlot] = NoOne

\* The code compares the next nack with the position for Outbound slots and
\* with the stored sequence number for slots that wait to be sent.
Nacked == /\ nacks_left # {}
          /\ IF Entry.status = "Outbound" THEN NextNack = index + 1
                                          ELSE NextNack = Entry.seq_num

AckGiveUp ==
  /\ AckScanning
  /\ Entry.status = "Outbound" /\ Nacked /\ Entry.num_retrans = 0
  /\ FreeEntry
  /\ ReclaimAt(index)
  /\ nacks_left' = nacks_left \ {NextNack}
  /\ index' = index + 1
  /\ UNCHANGED <<curr_pt_final, is_first_update, increment_time_out, end_seq, nack_set, scan_from>>
  /\ ScanUnchanged

\* The first nack retransmits at once; a later one only when the last
\* transmission is more than rtt_ old.
AckRetransmit ==
  /\ AckScanning
  /\ Entry.status = "Outbound" /\ Nacked /\ Entry.num_retrans > 0
  /\ AtSlot \in overdue \/ Entry.num_retrans = NumRetrans
  /\ book_keep' = [book_keep EXCEPT ![AtSlot].status = "Retrans"]
  /\ ResumeAt(index)
  /\ nacks_left' = nacks_left \ {NextNack}
  /\ index' = index + 1
  /\ UNCHANGED <<head_pt_final, increment_time_out, end_seq, nack_set, scan_from>>
  /\ ScanUnchanged

\* Broken variant: the nack is not consumed.
AckTooEarlyKeepsNack ==
  /\ AckScanning
  /\ Entry.status = "Outbound" /\ Nacked
  /\ Entry.num_retrans > 0
  /\ AtSlot \notin overdue /\ Entry.num_retrans # NumRetrans
  /\ nacks_left' = nacks_left
  /\ index' = index + 1
  /\ UNCHANGED <<book_keep, head_pt_final, curr_pt_final, is_first_update, increment_time_out,
                 end_seq, nack_set, scan_from>>
  /\ ScanUnchanged

AckTooEarly ==
  /\ AckScanning
  /\ Entry.status = "Outbound" /\ Nacked
  /\ Entry.num_retrans > 0
  /\ AtSlot \notin overdue /\ Entry.num_retrans # NumRetrans
  /\ nacks_left' = nacks_left \ {NextNack}
  /\ index' = index + 1
  /\ UNCHANGED <<book_keep, head_pt_final, curr_pt_final, is_first_update, increment_time_out,
                 end_seq, nack_set, scan_from>>
  /\ ScanUnchanged

\* A nacked packet that waits for its transmission keeps waiting.
AckStillPending ==
  /\ AckScanning
  /\ Entry.status \in {"New", "Retrans"} /\ Nacked
  /\ ResumeAt(index)
  /\ nacks_left' = nacks_left \ {NextNack}
  /\ index' = index + 1
  /\ UNCHANGED <<book_keep, head_pt_final, increment_time_out, end_seq, nack_set, scan_from>>
  /\ ScanUnchanged

AckReceived ==
  /\ AckScanning
  /\ Entry.status # "Empty" /\ ~Nacked
  /\ FreeEntry
  /\ ReclaimAt(index)
  /\ index' = index + 1
  /\ UNCHANGED <<curr_pt_final, is_first_update, increment_time_out, nackVars>>
  /\ ScanUnchanged

\* Broken variant: a nack for a packet that was given up is not consumed.
AckSkipEmptyKeepsNack ==
  /\ AckScanning
  /\ Entry.status = "Empty"
  /\ ReclaimAt(index)
  /\ index' = index + 1
  /\ UNCHANGED <<book_keep, curr_pt_final, is_first_update, increment_time_out, nackVars>>
  /\ ScanUnchanged

\* A nack for a packet that was given up before is consumed.
AckSkipEmpty ==
  /\ AckScanning
  /\ Entry.status = "Empty"
  /\ nacks_left' = IF nacks_left # {} /\ Slot(NextNack - 1) = AtSlot
                   THEN nacks_left \ {NextNack} ELSE nacks_left
  /\ ReclaimAt(index)
  /\ index' = index + 1
  /\ UNCHANGED <<book_keep, curr_pt_final, is_first_update, increment_time_out,
                 end_seq, nack_set, scan_from>>
  /\ ScanUnchanged

\* The locals of a handler die with it.
ForgetLocals ==
  /\ index' = 0 /\ head_pt_final' = 0 /\ curr_pt_final' = 0
  /\ is_first_update' = TRUE /\ increment_time_out' = FALSE
  /\ end_seq' = 0 /\ nack_set' = {} /\ nacks_left' = {} /\ scan_from' = 0 /\ overdue' = {}

\* Broken variant: curr may stay behind head.
StoreCursorsUnclamped ==
  /\ head_pt' = Larger(head_pt, head_pt_final)
  /\ curr_pt' = curr_pt_final
  /\ qlock' = NoOne
  /\ ack_pc' = "wait"
  /\ ForgetLocals
  /\ UNCHANGED <<tail_pt, book_keep, lock_arr, enqVars, deqVars>>

\* set_head_pt, set_curr_pt and UnLockQueue at the end of both handlers.
StoreCursors ==
  /\ head_pt' = Larger(head_pt, head_pt_final)
  /\ curr_pt' = Larger(curr_pt_final, head_pt_final)
  /\ qlock' = NoOne
  /\ ack_pc' = "wait"
  /\ ForgetLocals
  /\ UNCHANGED <<tail_pt, book_keep, lock_arr, enqVars, deqVars>>

AckFinish ==
  /\ ack_pc = "ack"
  /\ index >= end_seq
  /\ StoreCursors
  /\ UNCHANGED counters

AckArrives ==
  \E a \in 1 .. MaxAckSeq :
    \/ HandlePoke(a)
    \/ \E end \in 1 .. highest_sent :
         \/ HandleDupAck(a, end)
         \/ \E nacks \in SUBSET (1 .. end), late \in SUBSET Slots :
              HandleNewAck(a, end, nacks, late)

AckStep ==
  \/ AckFreeBlock
  \/ AckGiveUp
  \/ AckRetransmit
  \/ AckTooEarly
  \/ AckStillPending
  \/ AckReceived
  \/ AckSkipEmpty
  \/ AckFinish

HandleDataAck == AckArrives \/ AckStep

-----------------------------------------------------------------------------
(* HandleTimeOut, when no ack came for ack_time_out_ or after MaxDupAck    *)
(* duplicates.  It takes positions from stored sequence numbers.           *)

TimeOutStart(late) ==
  /\ ack_pc \in {"wait", "must_time_out"}
  /\ qlock = NoOne
  /\ qlock' = Acker
  /\ ack_pc' = "time_out"
  /\ index' = head_pt
  /\ head_pt_final' = head_pt
  /\ curr_pt_final' = curr_pt
  /\ is_first_update' = TRUE
  /\ increment_time_out' = FALSE
  /\ Overdue(late)
  /\ overdue' = late
  /\ UNCHANGED <<cursors, book_keep, lock_arr, enqVars, deqVars, nackVars, counters>>

TimeOutScanning == /\ ack_pc = "time_out"
                   /\ index < tail_pt
                   /\ lock_arr[AtSlot] = NoOne

TimeOutPending ==
  /\ TimeOutScanning
  /\ Entry.status = "Retrans"
  /\ ResumeAt(Entry.seq_num - 1)
  /\ index' = index + 1
  /\ UNCHANGED <<book_keep, head_pt_final, increment_time_out, nackVars>>
  /\ ScanUnchanged

\* Broken variant: drops packets with retransmissions left.
TimeOutDropAnyBudget ==
  /\ TimeOutScanning
  /\ Entry.status = "Outbound"
  /\ FreeEntry
  /\ ReclaimAt(Entry.seq_num - 1)
  /\ index' = index + 1
  /\ UNCHANGED <<curr_pt_final, is_first_update, increment_time_out, nackVars>>
  /\ ScanUnchanged

TimeOutDrop ==
  /\ TimeOutScanning
  /\ Entry.status = "Outbound" /\ Entry.num_retrans = 0
  /\ FreeEntry
  /\ ReclaimAt(Entry.seq_num - 1)
  /\ index' = index + 1
  /\ UNCHANGED <<curr_pt_final, is_first_update, increment_time_out, nackVars>>
  /\ ScanUnchanged

\* Broken variant: retransmits without looking at the budget.
TimeOutRetransmitForever ==
  /\ TimeOutScanning
  /\ Entry.status = "Outbound" /\ AtSlot \in overdue
  /\ book_keep' = [book_keep EXCEPT ![AtSlot].status = "Retrans"]
  /\ ResumeAt(Entry.seq_num - 1)
  /\ increment_time_out' = TRUE
  /\ index' = index + 1
  /\ UNCHANGED <<head_pt_final, nackVars>>
  /\ ScanUnchanged

\* The last transmission is more than 1.2 rtt_ old ...
TimeOutRetransmit ==
  /\ TimeOutScanning
  /\ Entry.status = "Outbound" /\ Entry.num_retrans > 0 /\ AtSlot \in overdue
  /\ book_keep' = [book_keep EXCEPT ![AtSlot].status = "Retrans"]
  /\ ResumeAt(Entry.seq_num - 1)
  /\ increment_time_out' = TRUE
  /\ index' = index + 1
  /\ UNCHANGED <<head_pt_final, nackVars>>
  /\ ScanUnchanged

\* ... or not.
TimeOutKeep ==
  /\ TimeOutScanning
  /\ Entry.status = "Outbound" /\ Entry.num_retrans > 0 /\ AtSlot \notin overdue
  /\ index' = index + 1
  /\ UNCHANGED <<book_keep, head_pt_final, curr_pt_final, is_first_update, increment_time_out, nackVars>>
  /\ ScanUnchanged

\* Broken variant: a slot freed out of order is never reclaimed.
TimeOutEmptyUnreclaimed ==
  /\ TimeOutScanning
  /\ Entry.status = "Empty"
  /\ index' = index + 1
  /\ UNCHANGED <<book_keep, head_pt_final, curr_pt_final, is_first_update, increment_time_out, nackVars>>
  /\ ScanUnchanged

TimeOutEmpty ==
  /\ TimeOutScanning
  /\ Entry.status = "Empty"
  /\ ReclaimAt(index)
  /\ index' = index + 1
  /\ UNCHANGED <<book_keep, curr_pt_final, is_first_update, increment_time_out, nackVars>>
  /\ ScanUnchanged

\* The loop stops at the first packet that was never sent.
TimeOutBreak ==
  /\ TimeOutScanning
  /\ Entry.status = "New"
  /\ index' = tail_pt
  /\ UNCHANGED <<book_keep, head_pt_final, curr_pt_final, is_first_update, increment_time_out, nackVars>>
  /\ ScanUnchanged

\* Enough contiguous timeouts set the client to high loss and start over.
TimeOutFinish ==
  LET cnt == IF increment_time_out THEN contiguous_time_out + 1
             ELSE IF contiguous_time_out < MaxContTimeOut THEN 0
             ELSE contiguous_time_out
  IN  /\ ack_pc = "time_out"
      /\ index >= tail_pt
      /\ StoreCursors
      /\ contiguous_time_out' = IF cnt >= MaxContTimeOut THEN 0 ELSE cnt
      /\ UNCHANGED <<expect_data_ack_seq, dup_data_ack_cnt>>

TimeOutStep ==
  \/ TimeOutPending \/ TimeOutDrop \/ TimeOutRetransmit \/ TimeOutKeep
  \/ TimeOutEmpty \/ TimeOutBreak
  \/ TimeOutFinish

HandleTimeOut == (\E late \in SUBSET Slots : TimeOutStart(late)) \/ TimeOutStep

-----------------------------------------------------------------------------
Next == \/ \E p \in Producers : EnqueuePkt(p)
        \/ DequeuePkt
        \/ HandleDataAck
        \/ HandleTimeOut

Spec == Init /\ [][Next]_vars

-----------------------------------------------------------------------------
(* Properties                                                              *)

\* Every variable has its type.
TypeOK ==
  /\ head_pt \in Nat /\ curr_pt \in Nat /\ tail_pt \in Nat
  /\ book_keep \in [Slots -> BookKeeping]
  /\ sent_before \in [Slots -> SUBSET Slots]
  /\ qlock \in Threads \cup {NoOne}
  /\ lock_arr \in [Slots -> Threads \cup {NoOne}]
  /\ enq_pc \in [Producers -> {"idle", "lock", "acquire", "store"}]
  /\ enq_seq \in [Producers -> Nat]
  /\ enq_index \in [Producers -> Slots]
  /\ deq_pc \in {"idle", "acquire", "take"}
  /\ deq_index \in Slots
  /\ ack_pc \in {"wait", "must_time_out", "ack", "time_out"}
  /\ index \in Nat /\ head_pt_final \in Nat /\ curr_pt_final \in Int
  /\ is_first_update \in BOOLEAN /\ increment_time_out \in BOOLEAN
  /\ end_seq \in Nat /\ nack_set \subseteq Nat /\ nacks_left \subseteq nack_set
  /\ scan_from \in Nat /\ overdue \subseteq Slots
  /\ expect_data_ack_seq \in Nat /\ dup_data_ack_cnt \in 0 .. MaxDupAck - 1
  /\ contiguous_time_out \in 0 .. MaxContTimeOut
  /\ highest_sent \in Nat

\* The cursors stay in order and at most BUF_SIZE apart, whatever the
\* handlers make of stale acks, sequence numbers and freed slots.
WindowOrder == /\ head_pt <= curr_pt
               /\ curr_pt <= tail_pt
               /\ tail_pt <= head_pt + BufSize

\* The assertion of EnqueuePkt: the slot a producer is about to write is
\* empty, so head never passed a packet that is still in the window.
EnqueueIntoEmpty ==
  \A p \in Producers : enq_pc[p] = "store" => book_keep[enq_index[p]].status = "Empty"

\* The assertions of DequeuePkt: a packet to send has a sequence number, a
\* packet to retransmit has a retransmission left.
DequeueAsserts ==
  deq_pc = "take" =>
    LET e == book_keep[deq_index]
    IN  /\ e.status \in {"New", "Retrans"} => e.seq_num > 0
        /\ e.status = "Retrans" => e.num_retrans > 0

\* A packet that waits to be sent is not left behind the sender's cursor,
\* unless the sender is just taking it: handlers that move curr_pt_ back and
\* forth never strand a retransmission.
NothingStranded ==
  qlock # Acker =>
    \A p \in head_pt .. tail_pt - 1 :
      book_keep[Slot(p)].status \in {"New", "Retrans"} =>
        p >= curr_pt \/ (deq_pc = "take" /\ deq_index = Slot(p))

\* A packet in the window carries the sequence number of its position, which
\* the handlers rely on when they turn one into the other.
SeqMatchesPosition ==
  \A p \in head_pt .. tail_pt - 1 :
    book_keep[Slot(p)].status # "Empty" => book_keep[Slot(p)].seq_num = p + 1

\* An ack frees a packet it nacks only when no retransmission is left: the
\* walk over the slots and the walk over the nacks stay aligned across
\* packets given up earlier, pending retransmissions and old nacks.
NackedKept ==
  [][\A s \in Slots :
       /\ ack_pc = "ack"
       /\ book_keep[s].status # "Empty"
       /\ book_keep'[s].status = "Empty"
       => book_keep[s].seq_num \notin nack_set \/ book_keep[s].num_retrans = 0]_vars

\* When the walk over an ack ends every nack inside the window has met its
\* slot: the check nack_cnt != num_nacks that HandleDataAck warns about.
NacksMatched == ack_pc = "ack" /\ index = end_seq => nacks_left = {}

\* First transmissions leave in sequence order without a gap, however often
\* the cursor moves back for retransmissions in between.  A batch is coded
\* from its start sequence number and its length, so it relies on this.
SentInOrder == [][highest_sent' \in {highest_sent, highest_sent + 1}]_vars
=============================================================================
