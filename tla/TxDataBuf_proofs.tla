-------------------------- MODULE TxDataBuf_proofs --------------------------
(***************************************************************************)
(* Theorems about TxDataBuf for every number of producers, window size,    *)
(* retransmission budget and bound, in four parts: the order of the        *)
(* cursors and the owners of the slots; what the slots hold, and with it   *)
(* the assertions of the code; that the ring buffer implements SendWindow, *)
(* with what the window promises; and what holds when a single thread      *)
(* enqueues.                                                               *)
(***************************************************************************)
EXTENDS TxDataBufRefinement, WellFoundedInduction, TLAPS

-----------------------------------------------------------------------------
(* Facts about numbers: the slot of a position and the least nack.         *)

LEMMA SlotInSlots == ASSUME NEW p \in Nat PROVE Slot(p) \in Slots
BY BufSizeAssumption DEF Slot, Slots

LEMMA NatOrder ==
  \E R : IsWellFoundedOn(R, Nat) /\ \A x, y \in Nat : y < x => <<y, x>> \in R
<1>1. IsWellFoundedOn(OpToRel(<, Nat), Nat)
  BY NatLessThanWellFounded
<1>2. \A x, y \in Nat : y < x => <<y, x>> \in OpToRel(<, Nat)
  BY DEF OpToRel
<1> QED BY <1>1, <1>2

\* A non-empty set of numbers has a least element, and Min is it.
LEMMA MinIsLeast ==
  ASSUME NEW S, S \subseteq Nat, S # {}
  PROVE  Min(S) \in S /\ \A y \in S : Min(S) <= y
<1>1. PICK R : IsWellFoundedOn(R, Nat) /\ \A x, y \in Nat : y < x => <<y, x>> \in R
  BY NatOrder
<1>2. PICK x \in S : \A y \in S : ~ (<<y, x>> \in R)
  BY <1>1, WFMin
<1>3. ASSUME NEW y \in S PROVE x <= y
  <2>1. ~(y < x)
    BY <1>1, <1>2
  <2> QED BY <2>1
<1> QED BY <1>3 DEF Min

-----------------------------------------------------------------------------
(* Type correctness.  The budget of a packet that waits for its            *)
(* retransmission must be positive for num_retrans to stay a count.        *)

PendingHasBudget ==
  \A s \in Slots : book_keep[s].status = "Retrans" => book_keep[s].num_retrans > 0

TypeInv == TypeOK /\ PendingHasBudget

LEMMA InitTypeInv == Init => TypeInv
<1> SUFFICES ASSUME Init PROVE TypeInv
  OBVIOUS
<1> USE BufSizeAssumption, BoundsAssumption DEF Init
<1>1. 0 \in Slots
  BY DEF Slots
<1>2. book_keep \in [Slots -> BookKeeping] /\ PendingHasBudget
  BY DEF BookKeeping, Status, Cleared, PendingHasBudget
<1>3. sent_before \in [Slots -> SUBSET Slots] /\ lock_arr \in [Slots -> Threads \cup {NoOne}]
  OBVIOUS
<1>4. /\ enq_pc \in [Producers -> {"idle", "lock", "acquire", "store"}]
      /\ enq_seq \in [Producers -> Nat]
      /\ enq_index \in [Producers -> Slots]
  BY <1>1
<1>5. is_first_update \in BOOLEAN /\ increment_time_out \in BOOLEAN
  OBVIOUS
<1> QED BY <1>1, <1>2, <1>3, <1>4, <1>5 DEF TypeInv, TypeOK

LEMMA EnqueueTypeInv ==
  ASSUME TypeInv, NEW p \in Producers, EnqueuePkt(p)
  PROVE  TypeInv'
<1> USE BufSizeAssumption, BoundsAssumption DEF TypeInv, TypeOK, PendingHasBudget
<1>1. CASE EnqueueReadTail(p)
  BY <1>1 DEF EnqueueReadTail, cursors, deqVars, ackVars, scanVars, nackVars, counters
<1>2. CASE EnqueueLockQueue(p)
  BY <1>2 DEF EnqueueLockQueue, cursors, deqVars, ackVars, scanVars, nackVars, counters, Threads
<1>3. CASE EnqueueDrop(p)
  BY <1>3 DEF EnqueueDrop, cursors, deqVars, ackVars, scanVars, nackVars, counters
<1>4. CASE AcquireTailLock(p)
  <2>1. Slot(tail_pt) \in Slots
    BY SlotInSlots
  <2> QED BY <1>4, <2>1 DEF AcquireTailLock, deqVars, ackVars, scanVars, nackVars, counters, Threads
<1>5. CASE EnqueueStore(p)
  BY <1>5 DEF EnqueueStore, cursors, deqVars, ackVars, scanVars, nackVars, counters,
              BookKeeping, Status
<1> QED BY <1>1, <1>2, <1>3, <1>4, <1>5 DEF EnqueuePkt

LEMMA DequeueTypeInv ==
  ASSUME TypeInv, DequeuePkt
  PROVE  TypeInv'
<1> USE BufSizeAssumption, BoundsAssumption DEF TypeInv, TypeOK, PendingHasBudget
<1>1. CASE DequeueLockQueue
  BY <1>1 DEF DequeueLockQueue, cursors, enqVars, ackVars, scanVars, nackVars, counters, Threads
<1>2. CASE AcquireCurrLock
  <2>1. Slot(curr_pt) \in Slots
    BY SlotInSlots
  <2> QED BY <1>2, <2>1 DEF AcquireCurrLock, enqVars, ackVars, scanVars, nackVars, counters, Threads
<1> USE DEF DequeueRelease, Stamp, cursors, enqVars, scanVars, nackVars, counters
<1>3. CASE DequeueNew
  <2>1. book_keep' \in [Slots -> BookKeeping] /\ PendingHasBudget'
    BY <1>3 DEF DequeueNew, BookKeeping, Status
  <2>2. highest_sent' \in Nat
    BY <1>3 DEF DequeueNew, BookKeeping, Larger
  <2> QED BY <1>3, <2>1, <2>2 DEF DequeueNew
<1>4. CASE DequeueRetrans
  <2>1. book_keep' \in [Slots -> BookKeeping] /\ PendingHasBudget'
    BY <1>4 DEF DequeueRetrans, BookKeeping, Status
  <2> QED BY <1>4, <2>1 DEF DequeueRetrans
<1>5. CASE DequeueSkip
  BY <1>5 DEF DequeueSkip
<1> QED BY <1>1, <1>2, <1>3, <1>4, <1>5 DEF DequeuePkt, DequeueTake

\* What one iteration of a handler must keep typed.
ScanTyped == /\ book_keep \in [Slots -> BookKeeping]
             /\ PendingHasBudget
             /\ index \in Nat /\ head_pt_final \in Nat /\ curr_pt_final \in Int
             /\ is_first_update \in BOOLEAN /\ increment_time_out \in BOOLEAN
             /\ end_seq \in Nat /\ nack_set \subseteq Nat /\ nacks_left \subseteq nack_set
             /\ scan_from \in Nat

LEMMA ScanTypeInv ==
  ASSUME TypeInv, ScanUnchanged, ScanTyped'
  PROVE  TypeInv'
BY DEF TypeInv, TypeOK, ScanTyped, ScanUnchanged, cursors, enqVars, deqVars, counters

\* The two updates of a slot, and the two of the final cursors.
LEMMA FreeEntryTyped ==
  ASSUME TypeInv, FreeEntry
  PROVE  book_keep' \in [Slots -> BookKeeping] /\ PendingHasBudget'
<1>1. Cleared \in BookKeeping /\ Cleared.status = "Empty"
  BY BoundsAssumption DEF Cleared, BookKeeping, Status
<1>2. book_keep \in [Slots -> BookKeeping] /\ PendingHasBudget
  BY DEF TypeInv, TypeOK
<1>3. book_keep' = [book_keep EXCEPT ![AtSlot] = Cleared]
  BY DEF FreeEntry
<1>4. \A s \in Slots : book_keep'[s] = Cleared \/ book_keep'[s] = book_keep[s]
  BY <1>2, <1>3
<1> QED BY <1>1, <1>2, <1>3, <1>4 DEF PendingHasBudget

LEMMA RetransEntryTyped ==
  ASSUME TypeInv, Entry.num_retrans > 0,
         book_keep' = [book_keep EXCEPT ![AtSlot].status = "Retrans"]
  PROVE  book_keep' \in [Slots -> BookKeeping] /\ PendingHasBudget'
BY SlotInSlots DEF TypeInv, TypeOK, PendingHasBudget, Entry, AtSlot, BookKeeping, Status

LEMMA EntryTyped ==
  ASSUME TypeInv
  PROVE  AtSlot \in Slots /\ Entry \in BookKeeping
BY SlotInSlots DEF TypeInv, TypeOK, Entry, AtSlot

LEMMA FinalCursorsTyped ==
  ASSUME TypeInv, NEW p \in Int
  PROVE  /\ ReclaimAt(p) => head_pt_final' \in Nat
         /\ ResumeAt(p) => curr_pt_final' \in Int /\ is_first_update' \in BOOLEAN
<1>1. head_pt_final \in Nat /\ curr_pt_final \in Int
  BY DEF TypeInv, TypeOK
<1>2. ReclaimAt(p) => head_pt_final' \in Nat
  BY <1>1 DEF ReclaimAt
<1>3. ResumeAt(p) => curr_pt_final' = p \/ curr_pt_final' = curr_pt_final
  BY DEF ResumeAt
<1> QED BY <1>1, <1>2, <1>3 DEF ResumeAt

\* The end of a handler, whatever it makes of the timeout counter.
LEMMA StoreCursorsTypeInv ==
  ASSUME TypeInv, StoreCursors,
         UNCHANGED <<expect_data_ack_seq, dup_data_ack_cnt>>,
         contiguous_time_out' \in 0 .. MaxContTimeOut
  PROVE  TypeInv'
<1> USE DEF TypeInv, StoreCursors
<1>1. head_pt' \in Nat /\ curr_pt' \in Nat
  BY DEF Larger, TypeOK
<1>2. qlock' \in Threads \cup {NoOne} /\ ack_pc' \in {"wait", "must_time_out", "ack", "time_out"}
  OBVIOUS
<1>3. /\ index' \in Nat /\ head_pt_final' \in Nat /\ curr_pt_final' \in Int
      /\ end_seq' \in Nat /\ nack_set' \subseteq Nat /\ nacks_left' \subseteq nack_set'
      /\ scan_from' \in Nat /\ overdue' \subseteq Slots
  BY DEF ForgetLocals
<1>4. is_first_update' \in BOOLEAN /\ increment_time_out' \in BOOLEAN
  BY DEF ForgetLocals
<1>5. PendingHasBudget'
  BY DEF PendingHasBudget
<1> QED BY <1>1, <1>2, <1>3, <1>4, <1>5 DEF TypeOK, enqVars, deqVars

LEMMA AckStepTypeInv ==
  ASSUME TypeInv, AckStep
  PROVE  TypeInv'
<1> USE DEF nackVars
<1>0. /\ TypeOK /\ PendingHasBudget
      /\ AtSlot \in Slots /\ Entry \in BookKeeping
  BY EntryTyped DEF TypeInv
<1>a. index \in Nat /\ index \in Int /\ index + 1 \in Nat
  BY <1>0 DEF TypeOK
<1>1. CASE AckFreeBlock
  <2>1. book_keep' \in [Slots -> BookKeeping] /\ PendingHasBudget'
    BY <1>1, FreeEntryTyped DEF AckFreeBlock
  <2>2. ScanTyped'
    BY <1>0, <1>1, <1>a, <2>1 DEF AckFreeBlock, ScanTyped, TypeOK
  <2> QED BY <1>1, <2>2, ScanTypeInv DEF AckFreeBlock
<1>2. CASE AckGiveUp
  <2>1. book_keep' \in [Slots -> BookKeeping] /\ PendingHasBudget'
    BY <1>2, FreeEntryTyped DEF AckGiveUp
  <2>2. head_pt_final' \in Nat
    BY <1>2, <1>a, FinalCursorsTyped DEF AckGiveUp
  <2>3. ScanTyped'
    BY <1>0, <1>2, <1>a, <2>1, <2>2 DEF AckGiveUp, ScanTyped, TypeOK
  <2> QED BY <1>2, <2>3, ScanTypeInv DEF AckGiveUp
<1>3. CASE AckRetransmit
  <2>1. book_keep' \in [Slots -> BookKeeping] /\ PendingHasBudget'
    BY <1>3, RetransEntryTyped DEF AckRetransmit
  <2>2. curr_pt_final' \in Int /\ is_first_update' \in BOOLEAN
    BY <1>3, <1>a, FinalCursorsTyped DEF AckRetransmit
  <2>3. ScanTyped'
    BY <1>0, <1>3, <1>a, <2>1, <2>2 DEF AckRetransmit, ScanTyped, TypeOK
  <2> QED BY <1>3, <2>3, ScanTypeInv DEF AckRetransmit
<1>4. CASE AckTooEarly
  <2>1. PendingHasBudget'
    BY <1>0, <1>4 DEF AckTooEarly, PendingHasBudget
  <2>2. ScanTyped'
    BY <1>0, <1>4, <1>a, <2>1 DEF AckTooEarly, ScanTyped, TypeOK
  <2> QED BY <1>4, <2>2, ScanTypeInv DEF AckTooEarly
<1>5. CASE AckStillPending
  <2>1. PendingHasBudget'
    BY <1>0, <1>5 DEF AckStillPending, PendingHasBudget
  <2>2. curr_pt_final' \in Int /\ is_first_update' \in BOOLEAN
    BY <1>5, <1>a, FinalCursorsTyped DEF AckStillPending
  <2>3. ScanTyped'
    BY <1>0, <1>5, <1>a, <2>1, <2>2 DEF AckStillPending, ScanTyped, TypeOK
  <2> QED BY <1>5, <2>3, ScanTypeInv DEF AckStillPending
<1>6. CASE AckReceived
  <2>1. book_keep' \in [Slots -> BookKeeping] /\ PendingHasBudget'
    BY <1>6, FreeEntryTyped DEF AckReceived
  <2>2. head_pt_final' \in Nat
    BY <1>6, <1>a, FinalCursorsTyped DEF AckReceived
  <2>3. ScanTyped'
    BY <1>0, <1>6, <1>a, <2>1, <2>2 DEF AckReceived, ScanTyped, TypeOK
  <2> QED BY <1>6, <2>3, ScanTypeInv DEF AckReceived
<1>7. CASE AckSkipEmpty
  <2>1. PendingHasBudget'
    BY <1>0, <1>7 DEF AckSkipEmpty, PendingHasBudget
  <2>2. head_pt_final' \in Nat
    BY <1>7, <1>a, FinalCursorsTyped DEF AckSkipEmpty
  <2>3. ScanTyped'
    BY <1>0, <1>7, <1>a, <2>1, <2>2 DEF AckSkipEmpty, ScanTyped, TypeOK
  <2> QED BY <1>7, <2>3, ScanTypeInv DEF AckSkipEmpty
<1>8. CASE AckFinish
  BY <1>8, StoreCursorsTypeInv DEF AckFinish, counters, TypeInv, TypeOK
<1> QED BY <1>1, <1>2, <1>3, <1>4, <1>5, <1>6, <1>7, <1>8 DEF AckStep

LEMMA AckArrivesTypeInv ==
  ASSUME TypeInv, AckArrives
  PROVE  TypeInv'
<1> USE BufSizeAssumption, BoundsAssumption DEF AckFromClient
<1>0. TypeOK /\ PendingHasBudget
  BY DEF TypeInv
<1>1. ASSUME NEW a \in 1 .. MaxAckSeq, HandlePoke(a) PROVE TypeInv'
  BY <1>0, <1>1 DEF HandlePoke, TypeInv, TypeOK, PendingHasBudget, cursors, enqVars, deqVars,
                    scanVars, nackVars
<1>2. ASSUME NEW a \in 1 .. MaxAckSeq, NEW end \in 1 .. highest_sent, HandleDupAck(a, end)
      PROVE  TypeInv'
  BY <1>0, <1>2 DEF HandleDupAck, TypeInv, TypeOK, PendingHasBudget, cursors, enqVars, deqVars,
                    scanVars, nackVars
<1>3. ASSUME NEW a \in 1 .. MaxAckSeq, NEW end \in 1 .. highest_sent,
             NEW nacks \in SUBSET (1 .. end), NEW late \in SUBSET Slots,
             HandleNewAck(a, end, nacks, late)
      PROVE  TypeInv'
  <2> DEFINE live == {n \in nacks : n - 1 >= head_pt}
             from == IF nacks = {} THEN end ELSE IF live = {} THEN head_pt ELSE Min(live) - 1
  <2>1. end \in Nat /\ nacks \subseteq Nat /\ head_pt \in Nat
    BY <1>0, <1>3 DEF TypeOK
  <2>2. from \in Nat
    <3>1. CASE live # {}
      <4>1. Min(live) \in live
        BY <2>1, <3>1, MinIsLeast
      <4>2. Min(live) \in Nat /\ Min(live) - 1 >= head_pt
        BY <2>1, <4>1
      <4> QED BY <2>1, <3>1, <4>2
    <3> QED BY <2>1, <3>1
  <2>3. /\ scan_from' = from /\ head_pt_final' = from
        /\ nack_set' = nacks /\ nacks_left' = live
    BY <1>3 DEF HandleNewAck
  <2> HIDE DEF from, live
  <2>4. nacks_left' \subseteq nack_set'
    BY <2>3 DEF live
  <2>5. PendingHasBudget'
    BY <1>0, <1>3 DEF HandleNewAck, PendingHasBudget
  <2> QED BY <1>0, <1>3, <2>1, <2>2, <2>3, <2>4, <2>5
          DEF HandleNewAck, TypeInv, TypeOK, cursors, enqVars, deqVars, Threads
<1> QED BY <1>1, <1>2, <1>3 DEF AckArrives

LEMMA TimeOutTypeInv ==
  ASSUME TypeInv, HandleTimeOut
  PROVE  TypeInv'
<1> USE DEF nackVars
<1>0. /\ TypeOK /\ PendingHasBudget
      /\ AtSlot \in Slots /\ Entry \in BookKeeping
  BY EntryTyped DEF TypeInv
<1>a. /\ index \in Nat /\ index \in Int /\ index + 1 \in Nat
      /\ Entry.seq_num - 1 \in Int
  BY <1>0 DEF TypeOK, BookKeeping
<1>1. ASSUME NEW late \in SUBSET Slots, TimeOutStart(late) PROVE TypeInv'
  <2>1. PendingHasBudget'
    BY <1>0, <1>1 DEF TimeOutStart, PendingHasBudget
  <2>2. is_first_update' \in BOOLEAN /\ increment_time_out' \in BOOLEAN
    BY <1>1 DEF TimeOutStart
  <2>3. index' \in Nat /\ head_pt_final' \in Nat /\ curr_pt_final' \in Int
    BY <1>0, <1>1 DEF TimeOutStart, TypeOK
  <2>4. qlock' \in Threads /\ ack_pc' = "time_out" /\ overdue' \subseteq Slots
    BY <1>1 DEF TimeOutStart, Threads
  <2>5. UNCHANGED <<cursors, book_keep, lock_arr, enqVars, deqVars, nackVars, counters>>
    BY <1>1 DEF TimeOutStart
  <2> QED BY <1>0, <2>1, <2>2, <2>3, <2>4, <2>5
          DEF TypeInv, TypeOK, cursors, enqVars, deqVars, counters
<1>2. CASE TimeOutPending
  <2>1. PendingHasBudget'
    BY <1>0, <1>2 DEF TimeOutPending, PendingHasBudget
  <2>2. curr_pt_final' \in Int /\ is_first_update' \in BOOLEAN
    BY <1>2, <1>a, FinalCursorsTyped DEF TimeOutPending
  <2>3. ScanTyped'
    BY <1>0, <1>2, <1>a, <2>1, <2>2 DEF TimeOutPending, ScanTyped, TypeOK
  <2> QED BY <1>2, <2>3, ScanTypeInv DEF TimeOutPending
<1>3. CASE TimeOutDrop
  <2>1. book_keep' \in [Slots -> BookKeeping] /\ PendingHasBudget'
    BY <1>3, FreeEntryTyped DEF TimeOutDrop
  <2>2. head_pt_final' \in Nat
    BY <1>3, <1>a, FinalCursorsTyped DEF TimeOutDrop
  <2>3. ScanTyped'
    BY <1>0, <1>3, <1>a, <2>1, <2>2 DEF TimeOutDrop, ScanTyped, TypeOK
  <2> QED BY <1>3, <2>3, ScanTypeInv DEF TimeOutDrop
<1>4. CASE TimeOutRetransmit
  <2>1. book_keep' \in [Slots -> BookKeeping] /\ PendingHasBudget'
    BY <1>4, RetransEntryTyped DEF TimeOutRetransmit
  <2>2. curr_pt_final' \in Int /\ is_first_update' \in BOOLEAN
    BY <1>4, <1>a, FinalCursorsTyped DEF TimeOutRetransmit
  <2>3. ScanTyped'
    BY <1>0, <1>4, <1>a, <2>1, <2>2 DEF TimeOutRetransmit, ScanTyped, TypeOK
  <2> QED BY <1>4, <2>3, ScanTypeInv DEF TimeOutRetransmit
<1>5. CASE TimeOutKeep
  <2>1. PendingHasBudget'
    BY <1>0, <1>5 DEF TimeOutKeep, PendingHasBudget
  <2>2. ScanTyped'
    BY <1>0, <1>5, <1>a, <2>1 DEF TimeOutKeep, ScanTyped, TypeOK
  <2> QED BY <1>5, <2>2, ScanTypeInv DEF TimeOutKeep
<1>6. CASE TimeOutEmpty
  <2>1. PendingHasBudget'
    BY <1>0, <1>6 DEF TimeOutEmpty, PendingHasBudget
  <2>2. head_pt_final' \in Nat
    BY <1>6, <1>a, FinalCursorsTyped DEF TimeOutEmpty
  <2>3. ScanTyped'
    BY <1>0, <1>6, <1>a, <2>1, <2>2 DEF TimeOutEmpty, ScanTyped, TypeOK
  <2> QED BY <1>6, <2>3, ScanTypeInv DEF TimeOutEmpty
<1>7. CASE TimeOutBreak
  <2>1. PendingHasBudget'
    BY <1>0, <1>7 DEF TimeOutBreak, PendingHasBudget
  <2>2. ScanTyped'
    BY <1>0, <1>7, <2>1 DEF TimeOutBreak, ScanTyped, TypeOK
  <2> QED BY <1>7, <2>2, ScanTypeInv DEF TimeOutBreak
<1>8. CASE TimeOutFinish
  <2>1. contiguous_time_out' \in 0 .. MaxContTimeOut
    BY <1>0, <1>8, BoundsAssumption DEF TimeOutFinish, TypeOK
  <2> QED BY <1>8, <2>1, StoreCursorsTypeInv DEF TimeOutFinish
<1> QED BY <1>1, <1>2, <1>3, <1>4, <1>5, <1>6, <1>7, <1>8 DEF HandleTimeOut, TimeOutStep

LEMMA NextTypeInv == TypeInv /\ [Next]_vars => TypeInv'
<1> SUFFICES ASSUME TypeInv, [Next]_vars PROVE TypeInv'
  OBVIOUS
<1>1. CASE UNCHANGED vars
  BY <1>1 DEF TypeInv, TypeOK, PendingHasBudget, vars, cursors, enqVars, deqVars, ackVars,
              scanVars, nackVars, counters
<1> QED BY <1>1, EnqueueTypeInv, DequeueTypeInv, AckArrivesTypeInv, AckStepTypeInv, TimeOutTypeInv
        DEF Next, HandleDataAck

\* In every reachable state every variable has its type, and a packet that
\* waits for a retransmission has one left.
THEOREM TypeCorrect == Spec => []TypeOK
<1>1. Spec => []TypeInv
  BY InitTypeInv, NextTypeInv, PTL DEF Spec
<1>2. TypeInv => TypeOK
  BY DEF TypeInv
<1> QED BY <1>1, <1>2, PTL

-----------------------------------------------------------------------------
(* The order of the cursors.  A handler computes its final cursors over    *)
(* many steps, so the invariant follows them from the moment the queue is  *)
(* locked, and bounds the sequence numbers HandleTimeOut turns into        *)
(* positions.  Nothing here says a slot carries the sequence number of its *)
(* position: with several producers that is false.                         *)

InHandler == ack_pc \in {"ack", "time_out"}

\* Whoever is in a critical section owns the queue.
LockOwners ==
  /\ InHandler => qlock = Acker
  /\ deq_pc = "acquire" => qlock = Sender
  /\ \A p \in Producers : enq_pc[p] = "acquire" => qlock = p

\* No sequence number runs ahead of the tail.
SeqsBelowTail ==
  /\ highest_sent <= tail_pt
  /\ \A s \in Slots : book_keep[s].seq_num <= tail_pt
  /\ \A p \in Producers : /\ enq_pc[p] \in {"lock", "acquire"} => enq_seq[p] <= tail_pt + 1
                          /\ enq_pc[p] = "store" => enq_seq[p] <= tail_pt

SenderBehindTail == deq_pc = "acquire" => curr_pt < tail_pt

ScanInWindow ==
  /\ InHandler => head_pt <= head_pt_final /\ curr_pt_final <= tail_pt
  /\ ack_pc = "ack" => /\ scan_from <= end_seq /\ index <= end_seq /\ end_seq <= tail_pt
                       /\ head_pt_final <= Larger(index, scan_from)
  /\ ack_pc = "time_out" => head_pt_final <= index /\ index <= tail_pt

WindowInv == /\ TypeInv
             /\ LockOwners
             /\ SeqsBelowTail
             /\ SenderBehindTail
             /\ ScanInWindow
             /\ WindowOrder

LEMMA InitWindowInv == Init => WindowInv
<1> SUFFICES ASSUME Init PROVE WindowInv
  OBVIOUS
<1>1. LockOwners /\ SenderBehindTail /\ ScanInWindow
  BY DEF Init, LockOwners, InHandler, SenderBehindTail, ScanInWindow
<1>2. SeqsBelowTail
  BY DEF Init, SeqsBelowTail, Cleared
<1>3. WindowOrder
  BY BufSizeAssumption DEF Init, WindowOrder
<1> QED BY <1>1, <1>2, <1>3, InitTypeInv DEF WindowInv

LEMMA EnqueueWindowInv ==
  ASSUME WindowInv, NEW p \in Producers, EnqueuePkt(p)
  PROVE  WindowInv'
<1> USE ThreadsAssumption, BufSizeAssumption
    DEF WindowInv, LockOwners, InHandler, SeqsBelowTail, SenderBehindTail, ScanInWindow, WindowOrder
<1>0. TypeInv' /\ TypeOK
  BY EnqueueTypeInv DEF TypeInv
<1>1. CASE EnqueueReadTail(p)
  BY <1>0, <1>1 DEF EnqueueReadTail, TypeOK, cursors, deqVars, ackVars, scanVars, nackVars
<1>2. CASE EnqueueLockQueue(p)
  BY <1>0, <1>2 DEF EnqueueLockQueue, TypeOK, Threads, cursors, deqVars, ackVars, scanVars, nackVars
<1>3. CASE EnqueueDrop(p)
  BY <1>0, <1>3 DEF EnqueueDrop, TypeOK, Threads, cursors, deqVars, ackVars, scanVars, nackVars
<1>4. CASE AcquireTailLock(p)
  <2>1. qlock = p /\ ~InHandler /\ deq_pc # "acquire" /\ \A q \in Producers \ {p} : enq_pc[q] # "acquire"
    BY <1>4 DEF AcquireTailLock
  <2>2. LockOwners' /\ SenderBehindTail' /\ ScanInWindow'
    BY <1>0, <1>4, <2>1 DEF AcquireTailLock, TypeOK, deqVars, ackVars
  <2>3. SeqsBelowTail'
    BY <1>0, <1>4 DEF AcquireTailLock, TypeOK, BookKeeping, deqVars
  <2>4. WindowOrder'
    BY <1>0, <1>4 DEF AcquireTailLock, TypeOK, IsFull
  <2> QED BY <1>0, <2>2, <2>3, <2>4
<1>5. CASE EnqueueStore(p)
  <2>1. SeqsBelowTail'
    BY <1>0, <1>5 DEF EnqueueStore, TypeOK, BookKeeping, cursors, deqVars
  <2> QED BY <1>0, <1>5, <2>1 DEF EnqueueStore, TypeOK, cursors, deqVars, ackVars, scanVars, nackVars
<1> QED BY <1>1, <1>2, <1>3, <1>4, <1>5 DEF EnqueuePkt

LEMMA DequeueWindowInv ==
  ASSUME WindowInv, DequeuePkt
  PROVE  WindowInv'
<1> USE ThreadsAssumption, BufSizeAssumption
    DEF WindowInv, LockOwners, InHandler, SeqsBelowTail, SenderBehindTail, ScanInWindow, WindowOrder
<1>0. TypeInv' /\ TypeOK
  BY DequeueTypeInv DEF TypeInv
<1>1. CASE DequeueLockQueue
  BY <1>0, <1>1 DEF DequeueLockQueue, IsEmpty, TypeOK, Threads, cursors, enqVars, ackVars, scanVars, nackVars
<1>2. CASE AcquireCurrLock
  BY <1>0, <1>2 DEF AcquireCurrLock, TypeOK, Threads, enqVars, ackVars, scanVars, nackVars
<1>3. CASE DequeueTake
  <2>1. /\ \A s \in Slots : book_keep'[s].seq_num <= tail_pt
        /\ highest_sent' <= tail_pt
    BY <1>0, <1>3 DEF DequeueTake, DequeueNew, DequeueRetrans, DequeueSkip, Larger, TypeOK, BookKeeping
  <2>2. /\ UNCHANGED <<cursors, qlock, enqVars, ack_pc, scanVars, nackVars>>
        /\ deq_pc' = "idle"
    BY <1>3 DEF DequeueTake, DequeueNew, DequeueRetrans, DequeueSkip, DequeueRelease
  <2> QED BY <1>0, <2>1, <2>2 DEF cursors, enqVars, scanVars, nackVars
<1> QED BY <1>1, <1>2, <1>3 DEF DequeuePkt

\* What one iteration of a handler leaves alone, and what it must bound.
LEMMA ScanWindowInv ==
  ASSUME WindowInv, InHandler, ScanUnchanged, TypeInv', ScanInWindow',
         \A s \in Slots : book_keep'[s].seq_num <= tail_pt
  PROVE  WindowInv'
BY DEF WindowInv, LockOwners, InHandler, SeqsBelowTail, SenderBehindTail, WindowOrder,
       ScanUnchanged, cursors, enqVars, deqVars

\* Writing a slot keeps the sequence numbers below the tail.
LEMMA SlotWritten ==
  ASSUME WindowInv,
         \/ FreeEntry
         \/ book_keep' = [book_keep EXCEPT ![AtSlot].status = "Retrans"]
         \/ UNCHANGED book_keep
  PROVE  \A s \in Slots : book_keep'[s].seq_num <= tail_pt
BY DEF WindowInv, TypeInv, TypeOK, SeqsBelowTail, FreeEntry, Cleared, BookKeeping

LEMMA StoreCursorsWindowInv ==
  ASSUME WindowInv, InHandler, StoreCursors, TypeInv', head_pt_final <= tail_pt
  PROVE  WindowInv'
<1> USE DEF WindowInv, InHandler
<1>0. TypeOK /\ head_pt <= head_pt_final /\ curr_pt_final <= tail_pt
  BY DEF TypeInv, ScanInWindow
<1>1. head_pt' = head_pt_final /\ curr_pt' = Larger(curr_pt_final, head_pt_final) /\ tail_pt' = tail_pt
  BY <1>0 DEF StoreCursors, Larger, TypeOK
<1>2. WindowOrder'
  BY <1>0, <1>1, BufSizeAssumption DEF WindowOrder, Larger, TypeOK
<1>3. qlock = Acker /\ deq_pc # "acquire" /\ \A p \in Producers : enq_pc[p] # "acquire"
  BY ThreadsAssumption DEF LockOwners
<1>4. LockOwners' /\ SenderBehindTail' /\ ScanInWindow'
  BY <1>3 DEF StoreCursors, LockOwners, SenderBehindTail, ScanInWindow, enqVars, deqVars
<1>5. SeqsBelowTail'
  BY DEF StoreCursors, SeqsBelowTail, enqVars, deqVars
<1> QED BY <1>2, <1>4, <1>5

LEMMA AckStepWindowInv ==
  ASSUME WindowInv, AckStep
  PROVE  WindowInv'
<1> USE DEF nackVars
<1>0. /\ TypeInv' /\ TypeOK /\ ScanInWindow
      /\ \A s \in Slots : book_keep'[s].seq_num <= tail_pt
  BY AckStepTypeInv, SlotWritten
     DEF WindowInv, TypeInv, AckStep, AckFreeBlock, AckGiveUp, AckRetransmit, AckTooEarly, AckStillPending,
         AckReceived, AckSkipEmpty, AckFinish, StoreCursors
<1>1. ack_pc = "ack" /\ InHandler
  BY DEF AckStep, AckFreeBlock, AckGiveUp, AckRetransmit, AckTooEarly, AckStillPending,
         AckReceived, AckSkipEmpty, AckFinish, AckScanning, InHandler
<1>2. CASE AckFinish
  <2>1. head_pt_final <= tail_pt
    BY <1>0, <1>1 DEF ScanInWindow, Larger, TypeOK
  <2> QED BY <1>0, <1>1, <1>2, <2>1, StoreCursorsWindowInv DEF AckFinish
<1>3. CASE ~AckFinish
  <2>1. /\ ScanUnchanged
        /\ index' = index + 1
        /\ UNCHANGED <<end_seq, scan_from>>
        /\ index < scan_from \/ index < end_seq
    BY <1>3 DEF AckStep, AckFreeBlock, AckGiveUp, AckRetransmit, AckTooEarly, AckStillPending,
                AckReceived, AckSkipEmpty, AckScanning
  <2>2. UNCHANGED head_pt_final \/ ReclaimAt(index)
    BY <1>3 DEF AckStep, AckFreeBlock, AckGiveUp, AckRetransmit, AckTooEarly, AckStillPending,
                AckReceived, AckSkipEmpty
  <2>3. UNCHANGED curr_pt_final \/ (ResumeAt(index) /\ index < end_seq)
    BY <1>3 DEF AckStep, AckFreeBlock, AckGiveUp, AckRetransmit, AckTooEarly, AckStillPending,
                AckReceived, AckSkipEmpty, AckScanning
  <2>4. head_pt <= head_pt_final' /\ head_pt_final' <= Larger(index', scan_from)
    BY <1>0, <1>1, <2>1, <2>2 DEF ReclaimAt, ScanInWindow, InHandler, Larger, TypeOK
  <2>5. curr_pt_final' <= tail_pt
    BY <1>0, <1>1, <2>3 DEF ResumeAt, ScanInWindow, InHandler, TypeOK
  <2>6. ScanInWindow'
    BY <1>0, <1>1, <2>1, <2>4, <2>5 DEF ScanInWindow, InHandler, ScanUnchanged, cursors, TypeOK
  <2> QED BY <1>0, <1>1, <2>1, <2>6, ScanWindowInv
<1> QED BY <1>2, <1>3

LEMMA AckArrivesWindowInv ==
  ASSUME WindowInv, AckArrives
  PROVE  WindowInv'
<1> USE ThreadsAssumption, BufSizeAssumption DEF AckFromClient
<1>0. TypeInv' /\ TypeOK
  BY AckArrivesTypeInv DEF WindowInv, TypeInv
<1>1. ASSUME NEW a \in 1 .. MaxAckSeq, HandlePoke(a) PROVE WindowInv'
  BY <1>0, <1>1 DEF HandlePoke, WindowInv, LockOwners, InHandler, SeqsBelowTail, SenderBehindTail,
                    ScanInWindow, WindowOrder, cursors, enqVars, deqVars, scanVars, nackVars
<1>2. ASSUME NEW a \in 1 .. MaxAckSeq, NEW end \in 1 .. highest_sent, HandleDupAck(a, end)
      PROVE  WindowInv'
  <2>1. ack_pc = "wait" /\ ack_pc' \in {"wait", "must_time_out"}
    BY <1>2 DEF HandleDupAck
  <2> QED BY <1>0, <1>2, <2>1
          DEF HandleDupAck, WindowInv, LockOwners, InHandler, SeqsBelowTail, SenderBehindTail,
              ScanInWindow, WindowOrder, cursors, enqVars, deqVars, scanVars, nackVars
<1>3. ASSUME NEW a \in 1 .. MaxAckSeq, NEW end \in 1 .. highest_sent,
             NEW nacks \in SUBSET (1 .. end), NEW late \in SUBSET Slots,
             HandleNewAck(a, end, nacks, late)
      PROVE  WindowInv'
  <2> DEFINE live == {n \in nacks : n - 1 >= head_pt}
             from == IF nacks = {} THEN end ELSE IF live = {} THEN head_pt ELSE Min(live) - 1
  <2>1. end \in Nat /\ nacks \subseteq Nat /\ head_pt \in Nat /\ end - 1 >= head_pt
    BY <1>0, <1>3 DEF TypeOK, HandleNewAck
  <2>2. head_pt <= from /\ from <= end /\ from \in Nat
    <3>1. CASE live # {}
      <4>1. Min(live) \in live
        BY <2>1, <3>1, MinIsLeast
      <4>2. PICK n \in nacks : n = Min(live) /\ n - 1 >= head_pt
        BY <4>1
      <4>3. n \in Nat /\ n <= end
        BY <2>1
      <4> QED BY <2>1, <3>1, <4>2, <4>3
    <3> QED BY <2>1, <3>1
  <2>3. /\ scan_from' = from /\ head_pt_final' = from /\ index' = head_pt /\ end_seq' = end
        /\ curr_pt_final' = curr_pt /\ ack_pc' = "ack"
        /\ qlock = NoOne /\ qlock' = Acker
        /\ UNCHANGED <<cursors, book_keep, enqVars, deqVars>>
    BY <1>3 DEF HandleNewAck
  <2> HIDE DEF from, live
  <2>4. highest_sent <= tail_pt /\ curr_pt <= tail_pt /\ highest_sent \in Nat /\ tail_pt \in Nat
    BY <1>0 DEF WindowInv, SeqsBelowTail, WindowOrder, TypeOK
  <2>5. ScanInWindow'
    BY <1>0, <2>1, <2>2, <2>3, <2>4 DEF ScanInWindow, InHandler, Larger, cursors, TypeOK
  <2>6. LockOwners' /\ SenderBehindTail'
    BY <2>3 DEF WindowInv, LockOwners, InHandler, SenderBehindTail, Threads, enqVars, deqVars
  <2> QED BY <1>0, <2>3, <2>5, <2>6 DEF WindowInv, SeqsBelowTail, WindowOrder, cursors, enqVars, deqVars
<1> QED BY <1>1, <1>2, <1>3 DEF AckArrives

LEMMA TimeOutWindowInv ==
  ASSUME WindowInv, HandleTimeOut
  PROVE  WindowInv'
<1> USE ThreadsAssumption DEF nackVars
<1>0. TypeInv' /\ TypeOK /\ ScanInWindow /\ AtSlot \in Slots
  BY TimeOutTypeInv, EntryTyped DEF WindowInv, TypeInv
<1>1. ASSUME NEW late \in SUBSET Slots, TimeOutStart(late) PROVE WindowInv'
  <2>1. ScanInWindow'
    BY <1>0, <1>1 DEF TimeOutStart, WindowInv, WindowOrder, ScanInWindow, InHandler, TypeOK, cursors
  <2>2. LockOwners' /\ SenderBehindTail'
    BY <1>1 DEF TimeOutStart, WindowInv, LockOwners, InHandler, SenderBehindTail, Threads, enqVars, deqVars
  <2> QED BY <1>0, <1>1, <2>1, <2>2
          DEF TimeOutStart, WindowInv, SeqsBelowTail, WindowOrder, cursors, enqVars, deqVars
<1>2. CASE TimeOutFinish
  <2>1. InHandler /\ head_pt_final <= tail_pt
    BY <1>0, <1>2 DEF TimeOutFinish, ScanInWindow, InHandler, TypeOK
  <2> QED BY <1>0, <1>2, <2>1, StoreCursorsWindowInv DEF TimeOutFinish
<1>3. CASE TimeOutStep /\ ~TimeOutFinish
  <2>1. /\ ScanUnchanged /\ UNCHANGED nackVars
        /\ ack_pc = "time_out" /\ index < tail_pt
        /\ index' = index + 1 \/ (index' = tail_pt /\ UNCHANGED head_pt_final)
    BY <1>3 DEF TimeOutStep, TimeOutPending, TimeOutDrop, TimeOutRetransmit, TimeOutKeep, TimeOutEmpty,
                TimeOutBreak, TimeOutScanning
  <2>2. UNCHANGED head_pt_final \/ ReclaimAt(index) \/ ReclaimAt(Entry.seq_num - 1)
    BY <1>3 DEF TimeOutStep, TimeOutPending, TimeOutDrop, TimeOutRetransmit, TimeOutKeep, TimeOutEmpty,
                TimeOutBreak
  <2>3. UNCHANGED curr_pt_final \/ ResumeAt(Entry.seq_num - 1)
    BY <1>3 DEF TimeOutStep, TimeOutPending, TimeOutDrop, TimeOutRetransmit, TimeOutKeep, TimeOutEmpty,
                TimeOutBreak
  <2>4. \A s \in Slots : book_keep'[s].seq_num <= tail_pt
    BY <1>3, SlotWritten
       DEF TimeOutStep, TimeOutPending, TimeOutDrop, TimeOutRetransmit, TimeOutKeep, TimeOutEmpty,
           TimeOutBreak
  <2>5. head_pt <= head_pt_final' /\ head_pt_final' <= index'
    BY <1>0, <2>1, <2>2 DEF ReclaimAt, ScanInWindow, InHandler, TypeOK
  <2>6. Entry.seq_num \in Nat /\ Entry.seq_num <= tail_pt
    BY <1>0 DEF WindowInv, SeqsBelowTail, Entry, TypeOK, BookKeeping
  <2>7. curr_pt_final' <= tail_pt
    BY <1>0, <2>1, <2>3, <2>6 DEF ResumeAt, ScanInWindow, InHandler, TypeOK
  <2>8. ScanInWindow'
    BY <1>0, <2>1, <2>5, <2>7 DEF ScanInWindow, InHandler, ScanUnchanged, cursors, TypeOK
  <2> QED BY <1>0, <2>1, <2>4, <2>8, ScanWindowInv DEF InHandler
<1> QED BY <1>1, <1>2, <1>3 DEF HandleTimeOut, TimeOutStep

LEMMA NextWindowInv == WindowInv /\ [Next]_vars => WindowInv'
<1> SUFFICES ASSUME WindowInv, [Next]_vars PROVE WindowInv'
  OBVIOUS
<1>1. CASE UNCHANGED vars
  <2>1. TypeInv'
    BY <1>1, NextTypeInv DEF WindowInv
  <2> QED BY <1>1, <2>1
          DEF WindowInv, LockOwners, InHandler, SeqsBelowTail, SenderBehindTail, ScanInWindow, WindowOrder,
              vars, cursors, enqVars, deqVars, ackVars, scanVars, nackVars
<1> QED BY <1>1, EnqueueWindowInv, DequeueWindowInv, AckArrivesWindowInv, AckStepWindowInv,
           TimeOutWindowInv DEF Next, HandleDataAck

\* Whatever the producers, the acks and the timers do, head_pt_ <= curr_pt_ <=
\* tail_pt_ <= head_pt_ + BUF_SIZE.
THEOREM CursorsInOrder == Spec => []WindowOrder
<1>1. Spec => []WindowInv
  BY InitWindowInv, NextWindowInv, PTL DEF Spec
<1>2. WindowInv => WindowOrder
  BY DEF WindowInv
<1> QED BY <1>1, <1>2, PTL

-----------------------------------------------------------------------------
(***************************************************************************)
(* What the slots of TxDataBuf hold, for every number of producers: the    *)
(* assertions of EnqueuePkt and DequeuePkt, and that no packet is left     *)
(* behind the sender's cursor.                                             *)
(*                                                                         *)
(* With several producers two positions may carry the same sequence        *)
(* number, and HandleTimeOut then moves head past a position it has not    *)
(* looked at.  That this position is free already follows from the order   *)
(* of the retransmission budgets: an older packet never has more left than *)
(* a younger one, and with as many left it was sent before it.             *)
(***************************************************************************)

-----------------------------------------------------------------------------
(* Positions less than a window apart live in different slots.             *)

LEMMA MultipleApart ==
  ASSUME NEW b \in Nat \ {0}, NEW k \in Int, 0 < b * k
  PROVE  b <= b * k
<1>1. CASE k <= 0
  BY <1>1
<1>2. CASE k >= 1
  BY <1>2
<1> QED BY <1>1, <1>2

LEMMA SlotsApart ==
  ASSUME NEW p \in Nat, NEW q \in Nat, p < q, q < p + BufSize
  PROVE  Slot(p) # Slot(q)
<1> USE BufSizeAssumption
<1> DEFINE dp == p \div BufSize
           dq == q \div BufSize
<1>1. p = BufSize * dp + Slot(p) /\ dp \in Int
  BY DEF Slot
<1>2. q = BufSize * dq + Slot(q) /\ dq \in Int
  BY DEF Slot
<1> HIDE DEF dp, dq
<1>3. Slot(p) \in Int /\ Slot(q) \in Int
  BY SlotInSlots DEF Slots
<1> SUFFICES ASSUME Slot(p) = Slot(q) PROVE FALSE
  OBVIOUS
<1>4. q - p = BufSize * (dq - dp)
  BY <1>1, <1>2, <1>3
<1>5. BufSize <= BufSize * (dq - dp)
  BY <1>1, <1>2, <1>4, MultipleApart
<1> QED BY <1>4, <1>5

-----------------------------------------------------------------------------
(* The invariant.                                                          *)

Positions == head_pt .. tail_pt - 1
At(q) == book_keep[Slot(q)]
Owner(q) == lock_arr[Slot(q)]

\* A packet that was never sent, one that was, and one the sender must still see.
Unsent(q)  == At(q).status = "New" \/ Owner(q) \in Producers
Sent(q)    == At(q).status \in {"Outbound", "Retrans"}
Waiting(q) == At(q).status \in {"New", "Retrans"} \/ Owner(q) \in Producers

\* A slot is locked by the producer that writes it or by the sender that takes
\* it, between two steps never by the ack thread, and only inside the window.
LockTable ==
  /\ \A s \in Slots : lock_arr[s] # Acker
  /\ \A s \in Slots, p \in Producers : lock_arr[s] = p <=> enq_pc[p] = "store" /\ enq_index[p] = s
  /\ \A s \in Slots : lock_arr[s] = Sender <=> deq_pc = "take" /\ deq_index = s
  /\ \A s \in Slots : lock_arr[s] # NoOne => \E q \in Positions : s = Slot(q)

\* A slot that is outside the window or being written is empty.
SlotsOutside ==
  \A s \in Slots :
    lock_arr[s] \in Producers \/ (\A q \in Positions : s # Slot(q)) => book_keep[s].status = "Empty"

\* A packet's sequence number is that of its position or, when several
\* producers read the same tail, an older one.
PositionSeq ==
  /\ \A q \in Positions : At(q).status # "Empty" => 1 <= At(q).seq_num /\ At(q).seq_num <= q + 1
  /\ \A p \in Producers : enq_pc[p] # "idle" => 1 <= enq_seq[p]
  /\ \A p \in Producers, q \in Positions : Owner(q) = p => enq_seq[p] <= q + 1

\* Packets are sent for the first time in the order of their positions.
UnsentLast ==
  /\ \A s \in Slots : book_keep[s].status = "New" => book_keep[s].num_retrans = NumRetrans
  /\ \A j \in Positions : Unsent(j) =>
       /\ highest_sent <= j
       /\ \A k \in Positions : j < k => ~Sent(k) /\ Owner(k) # Sender

\* Of two packets that were sent, the older never has more retransmissions
\* left, and with as many left it was sent before and does not wait alone.
BudgetOrder ==
  \A j, k \in Positions :
    j < k /\ Sent(j) /\ Sent(k) =>
      /\ At(j).num_retrans <= At(k).num_retrans
      /\ At(j).num_retrans = At(k).num_retrans =>
           /\ ~(At(k).status = "Retrans" /\ Owner(k) = Sender)
           /\ At(j).status = "Outbound" => At(k).status = "Outbound" /\ Slot(j) \in sent_before[Slot(k)]

BookInv == LockTable /\ SlotsOutside /\ PositionSeq /\ UnsentLast /\ BudgetOrder

\* What a handler knows of the positions it has passed.
Passed == head_pt .. index - 1

AckScan ==
  ack_pc = "ack" =>
    /\ end_seq <= highest_sent
    /\ \A q \in Passed :
         /\ Owner(q) = NoOne
         /\ q < scan_from \/ q < head_pt_final => At(q).status = "Empty"
         /\ At(q).status = "Outbound" => Slot(q) \notin overdue /\ At(q).num_retrans # NumRetrans
         /\ is_first_update => ~Waiting(q)

\* HandleTimeOut jumps to the tail when it meets a new packet.
TimeOutScan ==
  ack_pc = "time_out" =>
    /\ \A q \in head_pt .. head_pt_final - 1 : Owner(q) = NoOne /\ At(q).status = "Empty"
    /\ index < tail_pt =>
         \A q \in Passed :
           /\ Owner(q) = NoOne
           /\ At(q).status = "Outbound" => Slot(q) \notin overdue /\ At(q).num_retrans > 0
           /\ is_first_update => ~Waiting(q)

ScanBounds == InHandler => head_pt <= index /\ (is_first_update \/ curr_pt_final <= index)

\* With a packet that is too old, an older one with as many retransmissions
\* left is too old.
OverdueOrder ==
  InHandler =>
    \A j, k \in Positions :
      /\ j < k /\ At(j).status = "Outbound" /\ At(k).status = "Outbound"
      /\ At(j).num_retrans = At(k).num_retrans
      /\ Slot(k) \in overdue
      => Slot(j) \in overdue

\* A packet that waits is not behind the cursor the sender has or will get.
SenderAhead ==
  \A q \in Positions :
    Waiting(q) => Owner(q) = Sender \/ (IF InHandler THEN curr_pt_final ELSE curr_pt) <= q

ScanInv == AckScan /\ TimeOutScan /\ ScanBounds /\ OverdueOrder /\ SenderAhead

SlotsInv == WindowInv /\ BookInv /\ ScanInv

-----------------------------------------------------------------------------
(* Facts the steps need.                                                   *)

LEMMA PositionsTyped ==
  ASSUME WindowInv
  PROVE  /\ head_pt \in Nat /\ tail_pt \in Nat /\ curr_pt \in Nat /\ highest_sent \in Nat
         /\ Positions \subseteq Nat
         /\ \A q \in Nat : Slot(q) \in Slots
         /\ \A q \in Nat : At(q) \in BookKeeping /\ Owner(q) \in Threads \cup {NoOne}
         /\ \A p, q \in Positions : Slot(p) = Slot(q) => p = q
         /\ tail_pt < head_pt + BufSize => \A q \in Positions : Slot(q) # Slot(tail_pt)
<1>1. /\ head_pt \in Nat /\ tail_pt \in Nat /\ curr_pt \in Nat /\ highest_sent \in Nat
      /\ Positions \subseteq Nat
      /\ tail_pt <= head_pt + BufSize
  BY DEF WindowInv, TypeInv, TypeOK, WindowOrder, Positions
<1>2. \A q \in Nat : Slot(q) \in Slots
  BY SlotInSlots
<1>3. \A q \in Nat : At(q) \in BookKeeping /\ Owner(q) \in Threads \cup {NoOne}
  BY <1>2 DEF WindowInv, TypeInv, TypeOK, At, Owner
<1>4. \A p, q \in Positions : p < q => Slot(p) # Slot(q)
  BY <1>1, SlotsApart, BufSizeAssumption DEF Positions
<1>5. \A p, q \in Positions : Slot(p) = Slot(q) => p = q
  BY <1>1, <1>4
<1>6. tail_pt < head_pt + BufSize => \A q \in Positions : Slot(q) # Slot(tail_pt)
  BY <1>1, SlotsApart, BufSizeAssumption DEF Positions
<1> QED BY <1>1, <1>2, <1>3, <1>5, <1>6

LEMMA InitSlotsInv == Init => SlotsInv
<1> SUFFICES ASSUME Init PROVE SlotsInv
  OBVIOUS
<1> USE ThreadsAssumption DEF Init
<1>1. LockTable
  BY DEF LockTable, Threads
<1>2. SlotsOutside
  BY DEF SlotsOutside, Cleared
<1>3. Positions = {}
  BY DEF Positions
<1>4. PositionSeq /\ UnsentLast /\ BudgetOrder
  BY <1>3 DEF PositionSeq, UnsentLast, BudgetOrder, Cleared
<1>5. ScanInv
  BY <1>3 DEF ScanInv, AckScan, TimeOutScan, ScanBounds, OverdueOrder, SenderAhead, InHandler
<1> QED BY <1>1, <1>2, <1>4, <1>5, InitWindowInv DEF SlotsInv, BookInv

-----------------------------------------------------------------------------
(* EnqueuePkt.                                                             *)

\* A step that leaves the slots and what is known of them alone.
LEMMA BookUntouched ==
  ASSUME BookInv, LockTable', PositionSeq',
         UNCHANGED <<head_pt, tail_pt, book_keep, lock_arr, sent_before, highest_sent>>
  PROVE  BookInv'
BY DEF BookInv, SlotsOutside, UnsentLast, BudgetOrder, Positions, At, Owner, Unsent, Sent

LEMMA ScanUntouched ==
  ASSUME ScanInv,
         UNCHANGED <<cursors, book_keep, lock_arr, highest_sent, ack_pc, scanVars, nackVars, overdue>>
  PROVE  ScanInv'
BY DEF ScanInv, AckScan, TimeOutScan, ScanBounds, OverdueOrder, SenderAhead, Positions, Passed, At, Owner,
       Waiting, InHandler, cursors, scanVars, nackVars

LEMMA EnqueueWaitsSlotsInv ==
  ASSUME SlotsInv, NEW p \in Producers,
         EnqueueReadTail(p) \/ EnqueueLockQueue(p) \/ EnqueueDrop(p)
  PROVE  BookInv' /\ ScanInv'
<1>1. /\ UNCHANGED <<cursors, book_keep, lock_arr, enq_index, deqVars, ackVars>>
      /\ enq_pc' = [enq_pc EXCEPT ![p] = enq_pc'[p]]
      /\ enq_pc[p] # "store" /\ enq_pc'[p] # "store"
      /\ enq_seq' = [enq_seq EXCEPT ![p] = enq_seq'[p]]
      /\ enq_pc[p] # "idle" => enq_seq' = enq_seq
      /\ enq_pc[p] = "idle" => enq_seq'[p] = tail_pt + 1
  BY DEF EnqueueReadTail, EnqueueLockQueue, EnqueueDrop, SlotsInv, WindowInv, TypeInv, TypeOK
<1>2. TypeOK /\ LockTable /\ PositionSeq /\ \A q \in Positions : Slot(q) \in Slots
  BY PositionsTyped DEF SlotsInv, WindowInv, TypeInv, BookInv
<1>3. LockTable'
  BY <1>1, <1>2 DEF LockTable, Positions, cursors, deqVars, TypeOK
<1>4. PositionSeq'
  BY <1>1, <1>2, <1>3 DEF PositionSeq, LockTable, Positions, At, Owner, cursors, TypeOK
<1>5. BookInv'
  BY <1>1, <1>3, <1>4, BookUntouched DEF SlotsInv, cursors, deqVars
<1> QED BY <1>1, <1>5, ScanUntouched DEF SlotsInv, deqVars, ackVars

LEMMA AcquireTailLockSlotsInv ==
  ASSUME SlotsInv, NEW p \in Producers, AcquireTailLock(p)
  PROVE  BookInv' /\ ScanInv'
<1>1. /\ TypeOK /\ LockOwners /\ SeqsBelowTail
      /\ LockTable /\ SlotsOutside /\ PositionSeq /\ UnsentLast /\ BudgetOrder /\ SenderAhead
      /\ head_pt <= curr_pt /\ curr_pt <= tail_pt /\ tail_pt <= head_pt + BufSize
  BY DEF SlotsInv, WindowInv, TypeInv, BookInv, ScanInv, WindowOrder
<1>2. /\ lock_arr[Slot(tail_pt)] = NoOne
      /\ lock_arr' = [lock_arr EXCEPT ![Slot(tail_pt)] = p]
      /\ enq_pc[p] = "acquire" /\ enq_pc' = [enq_pc EXCEPT ![p] = "store"]
      /\ enq_index' = [enq_index EXCEPT ![p] = Slot(tail_pt)]
      /\ tail_pt' = tail_pt + 1 /\ tail_pt < head_pt + BufSize
      /\ UNCHANGED <<head_pt, curr_pt, book_keep, enq_seq, deq_pc, deq_index, sent_before, highest_sent, ack_pc>>
  BY <1>1, BufSizeAssumption DEF AcquireTailLock, IsFull, deqVars, ackVars, TypeOK
<1>3. ~InHandler /\ ~InHandler'
  BY <1>1, <1>2, ThreadsAssumption DEF LockOwners, InHandler
<1>4. /\ tail_pt \in Nat /\ Positions \subseteq Nat
      /\ \A q \in Nat : Slot(q) \in Slots
      /\ \A q \in Positions : Slot(q) # Slot(tail_pt)
  BY <1>2, PositionsTyped DEF SlotsInv
<1>5. Positions' = Positions \cup {tail_pt} /\ \A q \in Positions : q < tail_pt
  BY <1>1, <1>2 DEF Positions, TypeOK
<1>6. \A q \in Positions : At(q)' = At(q) /\ Owner(q)' = Owner(q)
  BY <1>1, <1>2, <1>4 DEF At, Owner, TypeOK
<1>7. Owner(tail_pt) = NoOne /\ lock_arr'[Slot(tail_pt)] = p
  BY <1>1, <1>2, <1>4 DEF Owner, TypeOK
<1>8. book_keep[Slot(tail_pt)].status = "Empty"
  BY <1>1, <1>4 DEF SlotsOutside
<1>9. LockTable'
  <2>1. \A s \in Slots : s # Slot(tail_pt) => lock_arr'[s] = lock_arr[s]
    BY <1>1, <1>2 DEF TypeOK
  <2>2. \A r \in Producers : r # p => enq_pc'[r] = enq_pc[r] /\ enq_index'[r] = enq_index[r]
    BY <1>1, <1>2 DEF TypeOK
  <2>3. enq_pc'[p] = "store" /\ enq_index'[p] = Slot(tail_pt)
    BY <1>1, <1>2 DEF TypeOK
  <2>4. \A s \in Slots : lock_arr'[s] # Acker
    BY <1>1, <1>7, <2>1, ThreadsAssumption DEF LockTable
  <2>5. \A s \in Slots, r \in Producers : lock_arr'[s] = r <=> enq_pc'[r] = "store" /\ enq_index'[r] = s
    BY <1>1, <1>2, <1>7, <2>1, <2>2, <2>3, ThreadsAssumption DEF LockTable, Threads
  <2>6. \A s \in Slots : lock_arr'[s] = Sender <=> deq_pc' = "take" /\ deq_index' = s
    BY <1>1, <1>2, <1>7, <2>1, ThreadsAssumption DEF LockTable, Threads
  <2>7. \A s \in Slots : lock_arr'[s] # NoOne => \E q \in Positions' : s = Slot(q)
    BY <1>1, <1>5, <2>1 DEF LockTable
  <2> QED BY <2>4, <2>5, <2>6, <2>7 DEF LockTable
<1>10. SlotsOutside'
  BY <1>1, <1>2, <1>5, <1>8 DEF SlotsOutside, TypeOK
<1>11. PositionSeq'
  <2>1. enq_seq[p] <= tail_pt + 1
    BY <1>1, <1>2 DEF SeqsBelowTail
  <2>2. \A r \in Producers, q \in Positions' : Owner(q)' = r => enq_seq'[r] <= q + 1
    BY <1>1, <1>2, <1>5, <1>6, <1>7, <2>1 DEF PositionSeq, Owner
  <2>3. \A q \in Positions' : At(q)'.status # "Empty" => 1 <= At(q)'.seq_num /\ At(q)'.seq_num <= q + 1
    BY <1>1, <1>2, <1>5, <1>8 DEF PositionSeq, At
  <2>4. \A r \in Producers : enq_pc'[r] # "idle" => 1 <= enq_seq'[r]
    BY <1>1, <1>2 DEF PositionSeq, TypeOK
  <2> QED BY <2>2, <2>3, <2>4 DEF PositionSeq
<1>12. UnsentLast'
  BY <1>1, <1>2, <1>4, <1>5, <1>6, <1>7, <1>8, ThreadsAssumption
     DEF UnsentLast, SeqsBelowTail, Unsent, Sent, At, Owner
<1>13. BudgetOrder'
  BY <1>1, <1>2, <1>5, <1>6, <1>8 DEF BudgetOrder, Sent, At
<1>14. SenderAhead'
  BY <1>1, <1>2, <1>3, <1>5, <1>6, <1>8 DEF SenderAhead, Waiting, At, Owner
<1> QED BY <1>3, <1>9, <1>10, <1>11, <1>12, <1>13, <1>14
        DEF BookInv, ScanInv, AckScan, TimeOutScan, ScanBounds, OverdueOrder, InHandler

LEMMA EnqueueStoreSlotsInv ==
  ASSUME SlotsInv, NEW p \in Producers, EnqueueStore(p)
  PROVE  BookInv' /\ ScanInv'
<1>1. /\ TypeOK /\ LockTable /\ SlotsOutside /\ PositionSeq /\ UnsentLast /\ BudgetOrder
      /\ AckScan /\ TimeOutScan /\ ScanBounds /\ OverdueOrder /\ SenderAhead /\ ScanInWindow
  BY DEF SlotsInv, WindowInv, TypeInv, BookInv, ScanInv
<1>2. /\ lock_arr[enq_index[p]] = p
      /\ enq_index[p] \in Slots
  BY <1>1 DEF EnqueueStore, LockTable, TypeOK
<1>3. PICK n \in Positions : enq_index[p] = Slot(n)
  BY <1>1, <1>2, ThreadsAssumption DEF LockTable, Threads
<1>4. /\ book_keep' = [book_keep EXCEPT ![Slot(n)] =
                         [seq_num |-> enq_seq[p], status |-> "New", num_retrans |-> NumRetrans]]
      /\ lock_arr' = [lock_arr EXCEPT ![Slot(n)] = NoOne]
      /\ enq_pc[p] = "store" /\ enq_pc' = [enq_pc EXCEPT ![p] = "idle"]
      /\ UNCHANGED <<cursors, enq_seq, enq_index, deq_pc, deq_index, sent_before, highest_sent, ack_pc,
                     scanVars, nackVars, overdue>>
  BY <1>3 DEF EnqueueStore, deqVars, ackVars
<1>5. /\ Positions \subseteq Nat /\ Positions' = Positions /\ Slot(n) \in Slots
      /\ \A q \in Positions : Slot(q) \in Slots
      /\ \A q \in Positions : Slot(q) = Slot(n) => q = n
  BY <1>4, PositionsTyped DEF SlotsInv, Positions, cursors
<1>6. /\ Owner(n) = p /\ At(n).status = "Empty" /\ enq_seq[p] <= n + 1 /\ 1 <= enq_seq[p]
  BY <1>1, <1>2, <1>3, <1>4 DEF Owner, At, SlotsOutside, PositionSeq
<1>7. /\ Owner(n)' = NoOne
      /\ At(n)' = [seq_num |-> enq_seq[p], status |-> "New", num_retrans |-> NumRetrans]
      /\ \A q \in Positions : q # n => At(q)' = At(q) /\ Owner(q)' = Owner(q)
  BY <1>1, <1>4, <1>5 DEF At, Owner, TypeOK
<1>8. \A s \in Slots : s # Slot(n) => book_keep'[s] = book_keep[s] /\ lock_arr'[s] = lock_arr[s]
  BY <1>1, <1>4 DEF TypeOK
<1>9. LockTable'
  <2>1. \A r \in Producers : r # p => enq_pc'[r] = enq_pc[r]
    BY <1>1, <1>4 DEF TypeOK
  <2>2. enq_pc'[p] = "idle" /\ lock_arr'[Slot(n)] = NoOne
    BY <1>1, <1>4, <1>5 DEF TypeOK
  <2>3. \A s \in Slots : lock_arr'[s] # Acker
    BY <1>1, <1>8, <2>2, ThreadsAssumption DEF LockTable, Threads
  <2>4. \A s \in Slots, r \in Producers : lock_arr'[s] = r <=> enq_pc'[r] = "store" /\ enq_index'[r] = s
    BY <1>1, <1>2, <1>3, <1>4, <1>8, <2>1, <2>2, ThreadsAssumption DEF LockTable, Threads
  <2>5. \A s \in Slots : lock_arr'[s] = Sender <=> deq_pc' = "take" /\ deq_index' = s
    BY <1>1, <1>2, <1>3, <1>4, <1>8, <2>2, ThreadsAssumption DEF LockTable, Threads
  <2>6. \A s \in Slots : lock_arr'[s] # NoOne => \E q \in Positions' : s = Slot(q)
    BY <1>1, <1>5, <1>8, <2>2 DEF LockTable
  <2> QED BY <2>3, <2>4, <2>5, <2>6 DEF LockTable
<1>10. SlotsOutside'
  BY <1>1, <1>3, <1>4, <1>5, <1>8, ThreadsAssumption DEF SlotsOutside, TypeOK, Threads
<1>11. PositionSeq'
  BY <1>1, <1>4, <1>5, <1>6, <1>7, ThreadsAssumption DEF PositionSeq, TypeOK, Threads
<1>12. UnsentLast'
  <2>1. \A s \in Slots : book_keep'[s].status = "New" => book_keep'[s].num_retrans = NumRetrans
    BY <1>1, <1>4, <1>5, <1>8 DEF UnsentLast, TypeOK
  <2>2. \A j \in Positions : Unsent(j)' => Unsent(j)
    BY <1>6, <1>7, ThreadsAssumption DEF Unsent, Threads
  <2>3. \A k \in Positions : ~Sent(k) /\ Owner(k) # Sender => ~Sent(k)' /\ Owner(k)' # Sender
    BY <1>7, ThreadsAssumption DEF Sent, Threads
  <2> QED BY <1>1, <1>4, <1>5, <2>1, <2>2, <2>3 DEF UnsentLast
<1>13. BudgetOrder'
  <2>1. \A q \in Positions : Sent(q)' => q # n /\ Sent(q)
    BY <1>7 DEF Sent
  <2>2. sent_before' = sent_before
    BY <1>4
  <2> QED BY <1>1, <1>5, <1>7, <2>1, <2>2 DEF BudgetOrder
<1>14. /\ InHandler' = InHandler /\ Passed' = Passed
       /\ InHandler => head_pt <= index
       /\ \A q \in Passed : index <= tail_pt => q \in Positions
       /\ \A q \in head_pt .. head_pt_final - 1 : head_pt_final <= tail_pt => q \in Positions
  BY <1>1, <1>4 DEF InHandler, Passed, ScanBounds, Positions, cursors, scanVars, TypeOK
<1>15. n \notin Passed \/ (ack_pc = "time_out" /\ index >= tail_pt) \/ ~InHandler
  BY <1>1, <1>6, ThreadsAssumption DEF AckScan, TimeOutScan, InHandler, Threads, TypeOK
<1>16. AckScan'
  BY <1>1, <1>4, <1>7, <1>14, <1>15
     DEF AckScan, Waiting, InHandler, ScanInWindow, TypeOK, cursors, scanVars, nackVars
<1>17. TimeOutScan'
  BY <1>1, <1>4, <1>6, <1>7, <1>14, <1>15, ThreadsAssumption
     DEF TimeOutScan, Waiting, InHandler, ScanInWindow, TypeOK, cursors, scanVars, nackVars, Threads
<1>18. ScanBounds' /\ OverdueOrder'
  BY <1>1, <1>4, <1>5, <1>6, <1>7, <1>14 DEF ScanBounds, OverdueOrder, cursors, scanVars
<1>19. SenderAhead'
  BY <1>1, <1>4, <1>5, <1>6, <1>7, <1>14, ThreadsAssumption
     DEF SenderAhead, Waiting, cursors, scanVars, Threads
<1> QED BY <1>9, <1>10, <1>11, <1>12, <1>13, <1>16, <1>17, <1>18, <1>19 DEF BookInv, ScanInv

LEMMA EnqueueSlotsInv ==
  ASSUME SlotsInv, NEW p \in Producers, EnqueuePkt(p)
  PROVE  SlotsInv'
BY EnqueueWindowInv, EnqueueWaitsSlotsInv, AcquireTailLockSlotsInv, EnqueueStoreSlotsInv
   DEF SlotsInv, EnqueuePkt

-----------------------------------------------------------------------------
(* DequeuePkt.                                                             *)

LEMMA DequeueLockQueueSlotsInv ==
  ASSUME SlotsInv, DequeueLockQueue
  PROVE  BookInv' /\ ScanInv'
<1>1. /\ UNCHANGED <<cursors, book_keep, lock_arr, enqVars, deq_index, sent_before, highest_sent, ackVars>>
      /\ deq_pc = "idle" /\ deq_pc' = "acquire"
  BY DEF DequeueLockQueue
<1>2. LockTable' /\ PositionSeq'
  BY <1>1 DEF SlotsInv, BookInv, LockTable, PositionSeq, Positions, At, Owner, cursors, enqVars
<1> QED BY <1>1, <1>2, BookUntouched, ScanUntouched DEF SlotsInv, cursors, ackVars

LEMMA AcquireCurrLockSlotsInv ==
  ASSUME SlotsInv, AcquireCurrLock
  PROVE  BookInv' /\ ScanInv'
<1>1. /\ TypeOK /\ LockOwners /\ LockTable /\ SlotsOutside /\ PositionSeq /\ UnsentLast /\ BudgetOrder
      /\ SenderAhead
      /\ head_pt <= curr_pt
  BY DEF SlotsInv, WindowInv, TypeInv, BookInv, ScanInv, WindowOrder
<1>2. /\ deq_pc = "acquire" /\ deq_pc' = "take" /\ deq_index' = Slot(curr_pt)
      /\ lock_arr[Slot(curr_pt)] = NoOne
      /\ lock_arr' = [lock_arr EXCEPT ![Slot(curr_pt)] = Sender]
      /\ curr_pt' = curr_pt + 1 /\ curr_pt < tail_pt
      /\ UNCHANGED <<head_pt, tail_pt, book_keep, enqVars, sent_before, highest_sent, ack_pc>>
  BY DEF AcquireCurrLock, ackVars, SlotsInv, WindowInv, SenderBehindTail
<1>3. ~InHandler /\ ~InHandler'
  BY <1>1, <1>2, ThreadsAssumption DEF LockOwners, InHandler
<1>4. /\ curr_pt \in Nat /\ Positions \subseteq Nat /\ curr_pt \in Positions
      /\ Positions' = Positions
      /\ \A q \in Positions : Slot(q) \in Slots
      /\ \A q \in Positions : Slot(q) = Slot(curr_pt) => q = curr_pt
  BY <1>1, <1>2, PositionsTyped DEF SlotsInv, Positions
<1>5. /\ Owner(curr_pt) = NoOne /\ lock_arr'[Slot(curr_pt)] = Sender
      /\ \A q \in Positions : At(q)' = At(q)
      /\ \A q \in Positions : q # curr_pt => Owner(q)' = Owner(q)
  BY <1>1, <1>2, <1>4 DEF At, Owner, TypeOK
<1>6. \A s \in Slots : s # Slot(curr_pt) => lock_arr'[s] = lock_arr[s]
  BY <1>1, <1>2 DEF TypeOK
<1>7. \A q \in Positions : Owner(q) # Sender /\ (Waiting(q) => curr_pt <= q)
  BY <1>1, <1>2, <1>3, <1>4 DEF LockTable, Owner, SenderAhead
<1>8. LockTable'
  <2>1. \A s \in Slots : lock_arr'[s] # Acker
    BY <1>1, <1>5, <1>6, ThreadsAssumption DEF LockTable
  <2>2. \A s \in Slots, r \in Producers : lock_arr'[s] = r <=> enq_pc'[r] = "store" /\ enq_index'[r] = s
    BY <1>1, <1>2, <1>5, <1>6, ThreadsAssumption DEF LockTable, Threads, enqVars
  <2>3. \A s \in Slots : lock_arr'[s] = Sender <=> deq_pc' = "take" /\ deq_index' = s
    BY <1>1, <1>2, <1>5, <1>6 DEF LockTable
  <2>4. \A s \in Slots : lock_arr'[s] # NoOne => \E q \in Positions' : s = Slot(q)
    BY <1>1, <1>4, <1>6 DEF LockTable
  <2> QED BY <2>1, <2>2, <2>3, <2>4 DEF LockTable
<1>9. SlotsOutside'
  BY <1>1, <1>2, <1>4, <1>5, <1>6, ThreadsAssumption DEF SlotsOutside
<1>10. PositionSeq'
  BY <1>1, <1>2, <1>4, <1>5, ThreadsAssumption DEF PositionSeq, Owner, enqVars
<1>11. UnsentLast'
  <2>1. \A j \in Positions : Unsent(j)' => Unsent(j)
    BY <1>5, ThreadsAssumption DEF Unsent, Owner
  <2>2. \A j \in Positions : Unsent(j) => curr_pt <= j
    BY <1>7 DEF Unsent, Waiting
  <2>3. \A k \in Positions : Sent(k)' <=> Sent(k)
    BY <1>5 DEF Sent
  <2>4. \A j \in Positions : Unsent(j)' =>
          highest_sent' <= j /\ \A k \in Positions : j < k => ~Sent(k)' /\ Owner(k)' # Sender
    BY <1>1, <1>2, <1>4, <1>5, <2>1, <2>2, <2>3 DEF UnsentLast
  <2> QED BY <1>1, <1>2, <1>4, <2>4 DEF UnsentLast
<1>12. BudgetOrder'
  <2>1. \A j, k \in Positions : j < k /\ Sent(j) /\ Sent(k) /\ At(j).num_retrans = At(k).num_retrans
          => ~(At(k)'.status = "Retrans" /\ Owner(k)' = Sender)
    <3> SUFFICES ASSUME NEW j \in Positions, NEW k \in Positions, j < k, Sent(j), Sent(k),
                        At(j).num_retrans = At(k).num_retrans, At(k).status = "Retrans", Owner(k)' = Sender
                 PROVE  FALSE
      BY <1>5
    <3>1. k = curr_pt
      BY <1>5, <1>7
    <3>2. At(j).status = "Outbound"
      BY <1>4, <1>7, <3>1 DEF Waiting, Sent
    <3> QED BY <1>1, <3>2 DEF BudgetOrder
  <2> QED BY <1>1, <1>2, <1>4, <1>5, <2>1 DEF BudgetOrder, Sent
<1>13. SenderAhead'
  BY <1>1, <1>2, <1>3, <1>4, <1>5, <1>7, ThreadsAssumption DEF SenderAhead, Waiting, Owner
<1> QED BY <1>3, <1>8, <1>9, <1>10, <1>11, <1>12, <1>13
        DEF BookInv, ScanInv, AckScan, TimeOutScan, ScanBounds, OverdueOrder, InHandler

\* The slot the sender has locked is unlocked, and nothing waits in it any more.
LEMMA DequeueTakeSlotsInv ==
  ASSUME SlotsInv, DequeueTake
  PROVE  BookInv' /\ ScanInv'
<1>1. /\ TypeOK /\ LockTable /\ SlotsOutside /\ PositionSeq /\ UnsentLast /\ BudgetOrder
      /\ AckScan /\ TimeOutScan /\ ScanBounds /\ OverdueOrder /\ SenderAhead
      /\ SeqsBelowTail /\ ScanInWindow
      /\ \A s \in Slots : book_keep[s].num_retrans \in 0 .. NumRetrans
  BY DEF SlotsInv, WindowInv, TypeInv, BookInv, ScanInv, TypeOK, BookKeeping
<1>2. /\ deq_pc = "take" /\ deq_index \in Slots /\ lock_arr[deq_index] = Sender
      /\ DequeueRelease
  BY <1>1 DEF DequeueTake, DequeueNew, DequeueRetrans, DequeueSkip, LockTable, TypeOK
<1>3. PICK n \in Positions : deq_index = Slot(n)
  BY <1>1, <1>2, ThreadsAssumption DEF LockTable, Threads
<1>4. /\ lock_arr' = [lock_arr EXCEPT ![Slot(n)] = NoOne]
      /\ deq_pc' = "idle"
      /\ UNCHANGED <<cursors, qlock, enqVars, deq_index, ack_pc, scanVars, nackVars>>
  BY <1>2, <1>3 DEF DequeueRelease
<1>5. /\ Positions \subseteq Nat /\ Positions' = Positions /\ Slot(n) \in Slots
      /\ \A q \in Positions : Slot(q) \in Slots
      /\ \A q \in Positions : Slot(q) = Slot(n) => q = n
      /\ \A q \in Positions : At(q) \in BookKeeping
  BY <1>4, PositionsTyped DEF SlotsInv, Positions, cursors
<1>6. /\ Owner(n) = Sender /\ Owner(n)' = NoOne
      /\ \A q \in Positions : q # n => Owner(q)' = Owner(q)
      /\ \A s \in Slots : s # Slot(n) => lock_arr'[s] = lock_arr[s]
  BY <1>1, <1>2, <1>3, <1>4, <1>5 DEF Owner, TypeOK
<1>7. /\ \A s \in Slots : s # Slot(n) => book_keep'[s] = book_keep[s]
      /\ \A q \in Positions : q # n => At(q)' = At(q)
      /\ At(n)'.seq_num = At(n).seq_num
      /\ At(n)'.status \in {"Outbound", "Empty"}
      /\ At(n)'.status = "Empty" <=> At(n).status = "Empty"
  BY <1>1, <1>3, <1>5
     DEF At, TypeOK, BookKeeping, DequeueTake, DequeueNew, DequeueRetrans, DequeueSkip
<1>8. LockTable'
  <2>1. lock_arr'[Slot(n)] = NoOne
    BY <1>6 DEF Owner
  <2>2. \A s \in Slots : lock_arr'[s] # Acker
    BY <1>1, <1>6, <2>1, ThreadsAssumption DEF LockTable, Threads
  <2>3. \A s \in Slots, r \in Producers : lock_arr'[s] = r <=> enq_pc'[r] = "store" /\ enq_index'[r] = s
    BY <1>1, <1>2, <1>3, <1>4, <1>6, <2>1, ThreadsAssumption DEF LockTable, Threads, enqVars
  <2>4. \A s \in Slots : lock_arr'[s] = Sender <=> deq_pc' = "take" /\ deq_index' = s
    BY <1>1, <1>2, <1>3, <1>4, <1>6, <2>1, ThreadsAssumption DEF LockTable, Threads
  <2>5. \A s \in Slots : lock_arr'[s] # NoOne => \E q \in Positions' : s = Slot(q)
    BY <1>1, <1>5, <1>6, <2>1 DEF LockTable
  <2> QED BY <2>2, <2>3, <2>4, <2>5 DEF LockTable
<1>9. SlotsOutside'
  BY <1>1, <1>5, <1>6, <1>7, ThreadsAssumption DEF SlotsOutside, Owner, Threads
<1>10. PositionSeq'
  BY <1>1, <1>4, <1>5, <1>6, <1>7, ThreadsAssumption DEF PositionSeq, Threads, enqVars
<1>11. highest_sent <= highest_sent' /\ \A j \in Positions : Unsent(j) /\ j # n => highest_sent' <= j
  <2>1. CASE DequeueNew
    <3>1. highest_sent' = Larger(highest_sent, At(n).seq_num) /\ Unsent(n) /\ At(n).seq_num <= n + 1
      BY <1>1, <1>3, <2>1 DEF DequeueNew, At, Unsent, PositionSeq
    <3>2. \A j \in Positions : Unsent(j) => highest_sent <= j
      BY <1>1 DEF UnsentLast
    <3>3. \A j \in Positions : Unsent(j) => ~(j < n)
      BY <1>1, <1>6 DEF UnsentLast
    <3>4. highest_sent \in Nat /\ At(n).seq_num \in Nat
      BY <1>1, <1>5 DEF TypeOK, BookKeeping
    <3> QED BY <1>5, <3>1, <3>2, <3>3, <3>4 DEF Larger
  <2>2. CASE ~DequeueNew
    <3>1. highest_sent' = highest_sent
      BY <2>2 DEF DequeueTake, DequeueRetrans, DequeueSkip
    <3> QED BY <1>1, <3>1 DEF UnsentLast, TypeOK
  <2> QED BY <2>1, <2>2
<1>12. \A j \in Positions : Unsent(j)' => j # n /\ Unsent(j)
  BY <1>6, <1>7, ThreadsAssumption DEF Unsent, Threads
<1>13. UnsentLast'
  <2>1. \A s \in Slots : book_keep'[s].status = "New" => book_keep'[s].num_retrans = NumRetrans
    BY <1>1, <1>5, <1>7 DEF UnsentLast, At
  <2>2. \A j, k \in Positions : Unsent(j) /\ j < k => ~Sent(k)' /\ Owner(k)' # Sender
    BY <1>1, <1>6, <1>7, ThreadsAssumption DEF UnsentLast, Sent, Threads
  <2> QED BY <1>5, <1>11, <1>12, <2>1, <2>2 DEF UnsentLast
<1>14. BudgetOrder'
  <2>1. CASE DequeueSkip
    <3>1. sent_before' = sent_before /\ \A q \in Positions : At(q)' = At(q)
      BY <2>1 DEF DequeueSkip, At
    <3> QED BY <1>1, <1>5, <1>6, <3>1, ThreadsAssumption DEF BudgetOrder, Sent, Threads
  <2>2. CASE DequeueNew \/ DequeueRetrans
    <3>a. At(n)'.status = "Outbound"
      BY <1>3, <1>7, <2>2 DEF DequeueNew, DequeueRetrans, At
    <3>b. Stamp(Slot(n))
      BY <1>3, <2>2 DEF DequeueNew, DequeueRetrans
    <3>0. sent_before' = [s \in Slots |-> IF s = Slot(n)
                           THEN {o \in Slots \ {Slot(n)} : book_keep[o].status = "Outbound"}
                           ELSE sent_before[s] \ {Slot(n)}]
      BY <3>b DEF Stamp
    <3>1. /\ At(n)'.status = "Outbound"
          /\ \A q, r \in Positions : q # n /\ r # n =>
               (Slot(r) \in sent_before'[Slot(q)] <=> Slot(r) \in sent_before[Slot(q)])
          /\ \A q \in Positions : q # n /\ At(q).status = "Outbound" => Slot(q) \in sent_before'[Slot(n)]
      BY <1>5, <3>0, <3>a DEF At
    <3>2. \A j \in Positions : j < n /\ Sent(j) => At(j).num_retrans <= At(n)'.num_retrans
      <4>1. CASE DequeueNew
        <5>1. At(n)'.num_retrans = NumRetrans
          BY <1>1, <1>3, <1>5, <4>1 DEF DequeueNew, UnsentLast, At, TypeOK
        <5> QED BY <1>1, <1>5, <5>1 DEF At
      <4>2. CASE DequeueRetrans
        <5>1. At(n)'.num_retrans = At(n).num_retrans - 1 /\ At(n).status = "Retrans"
          BY <1>1, <1>3, <1>5, <4>2 DEF DequeueRetrans, At, TypeOK, BookKeeping
        <5>2. \A j \in Positions : j < n /\ Sent(j) => /\ At(j).num_retrans <= At(n).num_retrans
                                                   /\ At(j).num_retrans # At(n).num_retrans
          BY <1>1, <1>6, <5>1 DEF BudgetOrder, Sent
        <5> QED BY <1>5, <5>1, <5>2 DEF BookKeeping
      <4> QED BY <2>2, <4>1, <4>2
    <3>3. \A k \in Positions : n < k /\ Sent(k) =>
            At(n)'.num_retrans <= At(k).num_retrans /\ At(n)'.num_retrans # At(k).num_retrans
      <4>1. CASE DequeueNew
        BY <1>1, <1>3, <4>1 DEF DequeueNew, UnsentLast, Unsent, At
      <4>2. CASE DequeueRetrans
        <5>1. At(n)'.num_retrans = At(n).num_retrans - 1 /\ At(n).status = "Retrans"
          BY <1>1, <1>3, <1>5, <4>2 DEF DequeueRetrans, At, TypeOK, BookKeeping
        <5>2. \A k \in Positions : n < k /\ Sent(k) => At(n).num_retrans <= At(k).num_retrans
          BY <1>1, <5>1 DEF BudgetOrder, Sent
        <5> QED BY <1>5, <5>1, <5>2 DEF BookKeeping
      <4> QED BY <2>2, <4>1, <4>2
    <3>4. \A q \in Positions : q # n => (Sent(q)' <=> Sent(q))
      BY <1>7 DEF Sent
    <3>5. ASSUME NEW j \in Positions, NEW k \in Positions, j < k, Sent(j)', Sent(k)'
          PROVE  /\ At(j)'.num_retrans <= At(k)'.num_retrans
                 /\ At(j)'.num_retrans = At(k)'.num_retrans =>
                      /\ ~(At(k)'.status = "Retrans" /\ Owner(k)' = Sender)
                      /\ At(j)'.status = "Outbound" =>
                           At(k)'.status = "Outbound" /\ Slot(j) \in sent_before'[Slot(k)]
      <4>1. CASE k = n
        BY <1>5, <1>7, <3>1, <3>2, <3>4, <3>5, <4>1
      <4>2. CASE j = n
        BY <1>5, <1>7, <3>3, <3>4, <3>5, <4>2
      <4>3. CASE j # n /\ k # n
        BY <1>1, <1>6, <1>7, <3>1, <3>4, <3>5, <4>3 DEF BudgetOrder
      <4> QED BY <4>1, <4>2, <4>3, <1>5
    <3> QED BY <1>5, <3>5 DEF BudgetOrder
  <2> QED BY <2>1, <2>2 DEF DequeueTake
<1>15. /\ InHandler' = InHandler /\ Passed' = Passed
       /\ \A q \in Passed : index <= tail_pt => q \in Positions
       /\ \A q \in head_pt .. head_pt_final - 1 : head_pt_final <= tail_pt => q \in Positions
       /\ overdue' \subseteq overdue
  BY <1>1, <1>4 DEF InHandler, Passed, ScanBounds, Positions, cursors, scanVars, TypeOK,
                    DequeueTake, DequeueNew, DequeueRetrans, DequeueSkip, Stamp
<1>16. AckScan'
  <2> SUFFICES ASSUME ack_pc = "ack" PROVE AckScan'
    BY <1>4 DEF AckScan
  <2>1. end_seq <= highest_sent' /\ index <= tail_pt
    BY <1>1, <1>11 DEF AckScan, ScanInWindow, TypeOK, DequeueTake, DequeueNew, DequeueRetrans, DequeueSkip, Larger, BookKeeping
  <2>2. \A q \in Passed : q \in Positions /\ q # n
    BY <1>1, <1>6, <1>15, <2>1, ThreadsAssumption DEF AckScan, Threads
  <2> QED BY <1>1, <1>4, <1>6, <1>7, <1>15, <2>1, <2>2 DEF AckScan, Waiting, cursors, scanVars, nackVars
<1>17. TimeOutScan'
  <2> SUFFICES ASSUME ack_pc = "time_out" PROVE TimeOutScan'
    BY <1>4 DEF TimeOutScan
  <2>1. head_pt_final <= tail_pt /\ index <= tail_pt
    BY <1>1 DEF ScanInWindow, TypeOK
  <2>2. \A q \in head_pt .. head_pt_final - 1 : q \in Positions /\ q # n
    BY <1>1, <1>6, <1>15, <2>1, ThreadsAssumption DEF TimeOutScan, Threads
  <2>3. index < tail_pt => \A q \in Passed : q \in Positions /\ q # n
    BY <1>1, <1>6, <1>15, <2>1, ThreadsAssumption DEF TimeOutScan, Threads
  <2> QED BY <1>1, <1>4, <1>6, <1>7, <1>15, <2>1, <2>2, <2>3 DEF TimeOutScan, Waiting, cursors, scanVars, nackVars
<1>18. ScanBounds'
  BY <1>1, <1>4, <1>15 DEF ScanBounds, cursors, scanVars
<1>19. OverdueOrder'
  <2>1. \A q \in Positions : q # n => (Sent(q)' <=> Sent(q))
    BY <1>7 DEF Sent
  <2>2. CASE DequeueSkip
    <3>1. overdue' = overdue /\ \A q \in Positions : At(q)' = At(q)
      BY <2>2 DEF DequeueSkip, At
    <3> QED BY <1>1, <1>5, <1>15, <3>1 DEF OverdueOrder
  <2>3. CASE DequeueNew \/ DequeueRetrans
    <3>a. At(n)'.status = "Outbound"
      BY <1>3, <1>7, <2>3 DEF DequeueNew, DequeueRetrans, At
    <3>0. overdue' = overdue \ {Slot(n)}
      BY <1>3, <2>3 DEF DequeueNew, DequeueRetrans, Stamp
    <3>1. /\ Slot(n) \notin overdue' /\ At(n)'.status = "Outbound"
          /\ \A q \in Positions : q # n /\ Slot(q) \in overdue => Slot(q) \in overdue'
      BY <1>5, <3>0, <3>a
    <3>2. \A k \in Positions : n < k /\ At(k).status = "Outbound" => At(n)'.num_retrans # At(k).num_retrans
      <4>1. CASE DequeueNew
        BY <1>1, <1>3, <4>1 DEF DequeueNew, UnsentLast, Unsent, Sent, At
      <4>2. CASE DequeueRetrans
        <5>1. At(n)'.num_retrans = At(n).num_retrans - 1 /\ At(n).status = "Retrans"
          BY <1>1, <1>3, <1>5, <4>2 DEF DequeueRetrans, At, TypeOK, BookKeeping
        <5>2. \A k \in Positions : n < k /\ Sent(k) => At(n).num_retrans <= At(k).num_retrans
          BY <1>1, <5>1 DEF BudgetOrder, Sent
        <5> QED BY <1>5, <5>1, <5>2 DEF BookKeeping, Sent
      <4> QED BY <2>3, <4>1, <4>2
    <3> QED BY <1>1, <1>5, <1>7, <1>15, <3>1, <3>2 DEF OverdueOrder
  <2> QED BY <2>2, <2>3 DEF DequeueTake
<1>20. SenderAhead'
  <2>1. ~Waiting(n)'
    BY <1>6, <1>7, ThreadsAssumption DEF Waiting, Threads
  <2>2. \A q \in Positions : q # n => (Waiting(q)' <=> Waiting(q)) /\ Owner(q)' = Owner(q)
    BY <1>6, <1>7 DEF Waiting
  <2> QED BY <1>1, <1>4, <1>5, <1>15, <2>1, <2>2 DEF SenderAhead, cursors, scanVars
<1> QED BY <1>8, <1>9, <1>10, <1>13, <1>14, <1>16, <1>17, <1>18, <1>19, <1>20 DEF BookInv, ScanInv

LEMMA DequeueSlotsInv ==
  ASSUME SlotsInv, DequeuePkt
  PROVE  SlotsInv'
BY DequeueWindowInv, DequeueLockQueueSlotsInv, AcquireCurrLockSlotsInv, DequeueTakeSlotsInv
   DEF SlotsInv, DequeuePkt

-----------------------------------------------------------------------------
(* An iteration of a handler: what it may do to the slot it looks at.      *)

\* What every iteration leaves alone.
LEMMA IterationFrame ==
  ASSUME SlotsInv, ScanUnchanged
  PROVE  /\ Positions' = Positions /\ LockTable' /\ InHandler' = InHandler
         /\ \A q \in Positions : Slot(q) \in Slots /\ Owner(q)' = Owner(q) /\ (q = index \/ Slot(q) # Slot(index) \/ index \notin Positions)
         /\ UNCHANGED <<head_pt, tail_pt, curr_pt, lock_arr, enq_pc, enq_seq, deq_pc, sent_before, highest_sent, ack_pc, overdue>>
<1>1. UNCHANGED <<head_pt, tail_pt, curr_pt, lock_arr, enqVars, deqVars, ack_pc, overdue>>
  BY DEF ScanUnchanged, cursors
<1>2. Positions' = Positions /\ LockTable' /\ InHandler' = InHandler
  BY <1>1 DEF Positions, SlotsInv, BookInv, LockTable, InHandler, enqVars, deqVars
<1> QED BY <1>1, <1>2, PositionsTyped DEF SlotsInv, Owner, enqVars, deqVars

LEMMA FreeEntryBook ==
  ASSUME SlotsInv, ScanUnchanged, NEW n \in Positions, n = index, Owner(n) = NoOne, FreeEntry
  PROVE  /\ BookInv' /\ OverdueOrder'
         /\ \A q \in Positions : q # n => At(q)' = At(q)
         /\ At(n)'.status = "Empty"
<1>1. /\ TypeOK /\ SlotsOutside /\ PositionSeq /\ UnsentLast /\ BudgetOrder /\ OverdueOrder
  BY DEF SlotsInv, WindowInv, TypeInv, BookInv, ScanInv
<1>2. /\ Positions' = Positions /\ LockTable' /\ InHandler' = InHandler
      /\ \A q \in Positions : Slot(q) \in Slots /\ Owner(q)' = Owner(q) /\ (q = n \/ Slot(q) # Slot(n))
      /\ UNCHANGED <<lock_arr, enq_pc, enq_seq, sent_before, highest_sent, overdue>>
  BY IterationFrame
<1>3. book_keep' = [book_keep EXCEPT ![Slot(n)] = Cleared]
  BY DEF FreeEntry, AtSlot
<1>4. /\ \A q \in Positions : q # n => At(q)' = At(q)
      /\ book_keep'[Slot(n)] = Cleared
      /\ \A s \in Slots : s # Slot(n) => book_keep'[s] = book_keep[s]
  BY <1>1, <1>2, <1>3 DEF At, TypeOK
<1>5. At(n)'.status = "Empty"
  BY <1>4 DEF At, Cleared
<1>6. SlotsOutside' /\ PositionSeq'
  BY <1>1, <1>2, <1>4, <1>5 DEF SlotsOutside, PositionSeq, At
<1>7. \A q \in Positions : Sent(q)' => q # n /\ Sent(q)
  BY <1>4, <1>5 DEF Sent
<1>8. \A q \in Positions : Unsent(q)' => Unsent(q)
  BY <1>2, <1>4, <1>5 DEF Unsent
<1>9. \A s \in Slots : book_keep'[s].status = "New" => book_keep'[s].num_retrans = NumRetrans
  BY <1>1, <1>4 DEF UnsentLast, Cleared
<1>10. UnsentLast'
  BY <1>1, <1>2, <1>7, <1>8, <1>9 DEF UnsentLast
<1>11. BudgetOrder'
  BY <1>1, <1>2, <1>4, <1>7 DEF BudgetOrder
<1>12. OverdueOrder'
  BY <1>1, <1>2, <1>4, <1>5 DEF OverdueOrder
<1> QED BY <1>2, <1>4, <1>5, <1>6, <1>10, <1>11, <1>12 DEF BookInv

\* No older packet that is out may have as many retransmissions left.
LEMMA RetransEntryBook ==
  ASSUME SlotsInv, ScanUnchanged, NEW n \in Positions, n = index, Owner(n) = NoOne,
         At(n).status = "Outbound",
         \A j \in Positions : j < n /\ At(j).status = "Outbound" => At(j).num_retrans # At(n).num_retrans,
         book_keep' = [book_keep EXCEPT ![AtSlot].status = "Retrans"]
  PROVE  /\ BookInv' /\ OverdueOrder'
         /\ \A q \in Positions : q # n => At(q)' = At(q)
         /\ At(n)'.status = "Retrans"
<1>1. /\ TypeOK /\ SlotsOutside /\ PositionSeq /\ UnsentLast /\ BudgetOrder /\ OverdueOrder
  BY DEF SlotsInv, WindowInv, TypeInv, BookInv, ScanInv
<1>2. /\ Positions' = Positions /\ LockTable' /\ InHandler' = InHandler
      /\ \A q \in Positions : Slot(q) \in Slots /\ Owner(q)' = Owner(q) /\ (q = n \/ Slot(q) # Slot(n))
      /\ UNCHANGED <<lock_arr, enq_pc, enq_seq, sent_before, highest_sent, overdue>>
  BY IterationFrame
<1>3. /\ \A q \in Positions : q # n => At(q)' = At(q)
      /\ \A s \in Slots : s # Slot(n) => book_keep'[s] = book_keep[s]
      /\ book_keep'[Slot(n)] = At(n)'
      /\ At(n)'.status = "Retrans"
      /\ At(n)'.seq_num = At(n).seq_num
      /\ At(n)'.num_retrans = At(n).num_retrans
  BY <1>1, <1>2 DEF At, AtSlot, TypeOK, BookKeeping
<1>4. SlotsOutside'
  BY <1>1, <1>2, <1>3, ThreadsAssumption DEF SlotsOutside, Owner, Threads
<1>5. PositionSeq'
  BY <1>1, <1>2, <1>3 DEF PositionSeq
<1>6. \A q \in Positions : Sent(q)' <=> Sent(q)
  BY <1>3 DEF Sent
<1>7. \A q \in Positions : Unsent(q)' => Unsent(q)
  BY <1>2, <1>3 DEF Unsent
<1>8. UnsentLast'
  BY <1>1, <1>2, <1>3, <1>6, <1>7 DEF UnsentLast
<1>9. BudgetOrder'
  BY <1>1, <1>2, <1>3, <1>6, ThreadsAssumption DEF BudgetOrder, Threads
<1>10. OverdueOrder'
  BY <1>1, <1>2, <1>3 DEF OverdueOrder
<1> QED BY <1>2, <1>3, <1>4, <1>5, <1>8, <1>9, <1>10 DEF BookInv

LEMMA UntouchedBook ==
  ASSUME SlotsInv, ScanUnchanged, UNCHANGED book_keep
  PROVE  /\ BookInv' /\ OverdueOrder'
         /\ \A q \in Positions : At(q)' = At(q)
<1>1. /\ Positions' = Positions /\ LockTable' /\ InHandler' = InHandler
      /\ \A q \in Positions : Owner(q)' = Owner(q)
      /\ UNCHANGED <<head_pt, tail_pt, lock_arr, enq_pc, enq_seq, sent_before, highest_sent, overdue>>
  BY IterationFrame
<1>2. \A q \in Positions : At(q)' = At(q)
  BY DEF At
<1>3. PositionSeq' /\ OverdueOrder'
  BY <1>1, <1>2 DEF SlotsInv, BookInv, ScanInv, PositionSeq, OverdueOrder
<1> QED BY <1>1, <1>2, <1>3, BookUntouched DEF SlotsInv

\* An iteration that leaves the position it looked at waiting makes the sender
\* resume there or before.
LEMMA ResumeInOrder ==
  ASSUME SlotsInv, InHandler, ScanUnchanged, NEW n \in Positions, n = index, Owner(n) = NoOne,
         index' = index + 1,
         \A q \in Passed : Owner(q) = NoOne /\ (is_first_update => ~Waiting(q)),
         \A q \in Positions : q # n => At(q)' = At(q),
         \/ UNCHANGED <<curr_pt_final, is_first_update>> /\ ~Waiting(n)'
         \/ \E p \in Int : p <= n /\ ResumeAt(p)
  PROVE  /\ ScanBounds' /\ SenderAhead'
         /\ is_first_update' => \A q \in Passed' : ~Waiting(q)'
<1>1. /\ TypeOK /\ ScanBounds /\ SenderAhead /\ index \in Nat /\ head_pt \in Nat /\ curr_pt_final \in Int
      /\ Positions \subseteq Nat
  BY PositionsTyped DEF SlotsInv, WindowInv, TypeInv, ScanInv, TypeOK
<1>2. /\ Positions' = Positions /\ InHandler' /\ UNCHANGED <<head_pt, tail_pt, lock_arr>>
      /\ \A q \in Positions : Owner(q)' = Owner(q)
  BY IterationFrame
<1>3. \A q \in Positions : q # n => (Waiting(q)' <=> Waiting(q))
  BY <1>2 DEF Waiting
<1>4. Passed' = Passed \cup {n} /\ Passed \subseteq Positions /\ n \notin Passed
  BY <1>1, <1>2 DEF Passed, Positions, ScanBounds, TypeOK
<1>5. \A q \in Positions : q \in Passed \/ n <= q
  BY <1>1 DEF Passed, Positions, TypeOK
<1>6. CASE UNCHANGED <<curr_pt_final, is_first_update>> /\ ~Waiting(n)'
  <2>1. ScanBounds'
    BY <1>1, <1>2, <1>6 DEF ScanBounds
  <2>2. SenderAhead'
    BY <1>1, <1>2, <1>3, <1>6 DEF SenderAhead
  <2> QED BY <1>3, <1>4, <1>6, <2>1, <2>2
<1>7. ASSUME NEW p \in Int, p <= n, ResumeAt(p) PROVE ScanBounds' /\ SenderAhead' /\ ~is_first_update'
  <2>1. ~is_first_update' /\ curr_pt_final' = IF is_first_update THEN p ELSE curr_pt_final
    BY <1>7 DEF ResumeAt
  <2>2. curr_pt_final' <= index
    BY <1>1, <1>7, <2>1 DEF ScanBounds
  <2>3. ScanBounds'
    BY <1>1, <1>2, <2>1, <2>2 DEF ScanBounds
  <2>4. ASSUME NEW q \in Positions, Waiting(q)' PROVE Owner(q)' = Sender \/ curr_pt_final' <= q
    <3>1. CASE is_first_update
      BY <1>1, <1>3, <1>5, <2>1, <2>2, <2>4, <3>1
    <3>2. CASE ~is_first_update
      BY <1>1, <1>2, <1>3, <2>1, <2>2, <2>4, <3>2 DEF SenderAhead
    <3> QED BY <3>1, <3>2
  <2> QED BY <1>2, <2>1, <2>3, <2>4 DEF SenderAhead
<1> QED BY <1>6, <1>7

-----------------------------------------------------------------------------
(* HandleDataAck.                                                          *)

\* The position an iteration looks at.
LEMMA AckPosition ==
  ASSUME SlotsInv, ack_pc = "ack", index < scan_from \/ index < end_seq, lock_arr[AtSlot] = NoOne
  PROVE  /\ InHandler /\ index \in Positions /\ Owner(index) = NoOne /\ Entry = At(index)
         /\ \A q \in Passed : q \in Positions /\ Owner(q) = NoOne /\ (is_first_update => ~Waiting(q))
<1>1. /\ TypeOK /\ ScanInWindow /\ ScanBounds /\ AckScan /\ InHandler
  BY DEF SlotsInv, WindowInv, TypeInv, ScanInv, InHandler
<1>2. index \in Positions
  BY <1>1 DEF Positions, ScanInWindow, ScanBounds, TypeOK
<1>3. \A q \in Passed : q \in Positions
  BY <1>1, <1>2 DEF Positions, Passed, TypeOK
<1> QED BY <1>1, <1>2, <1>3 DEF AckScan, Owner, Entry, At, AtSlot

LEMMA AckIteration ==
  ASSUME SlotsInv, ack_pc = "ack", ScanUnchanged, NEW n \in Positions, n = index, Owner(n) = NoOne,
         index' = index + 1, UNCHANGED <<end_seq, scan_from>>,
         BookInv', OverdueOrder',
         \A q \in Positions : q # n => At(q)' = At(q),
         UNCHANGED head_pt_final \/ ReclaimAt(n),
         \/ UNCHANGED <<curr_pt_final, is_first_update>> /\ ~Waiting(n)'
         \/ \E p \in Int : p <= n /\ ResumeAt(p),
         n < scan_from \/ n < head_pt_final' => At(n)'.status = "Empty",
         At(n)'.status = "Outbound" => Slot(n) \notin overdue /\ At(n)'.num_retrans # NumRetrans
  PROVE  BookInv' /\ ScanInv'
<1>1. /\ TypeOK /\ AckScan /\ ScanBounds /\ InHandler
  BY DEF SlotsInv, WindowInv, TypeInv, ScanInv, InHandler
<1>2. /\ Positions' = Positions /\ Positions \subseteq Nat
      /\ \A q \in Positions : Owner(q)' = Owner(q)
      /\ UNCHANGED <<head_pt, tail_pt, highest_sent, ack_pc, overdue>>
  BY IterationFrame, PositionsTyped DEF SlotsInv
<1>3. Passed' = Passed \cup {n} /\ \A q \in Passed : q \in Positions /\ q # n
  BY <1>1, <1>2 DEF Passed, Positions, ScanBounds, TypeOK
<1>4. ScanBounds' /\ SenderAhead' /\ (is_first_update' => \A q \in Passed' : ~Waiting(q)')
  BY <1>1, <1>3, ResumeInOrder DEF AckScan
<1>5. \A q \in Passed : q < head_pt_final' => q < head_pt_final
  BY <1>1, <1>2, <1>3 DEF ReclaimAt, Passed, TypeOK
<1>6. AckScan'
  BY <1>1, <1>2, <1>3, <1>4, <1>5 DEF AckScan
<1>7. TimeOutScan'
  BY <1>2 DEF TimeOutScan
<1> QED BY <1>4, <1>6, <1>7 DEF ScanInv

LEMMA AckStepSlotsInv ==
  ASSUME SlotsInv, AckStep, ~AckFinish
  PROVE  BookInv' /\ ScanInv'
<1>1. /\ ack_pc = "ack" /\ ScanUnchanged /\ index' = index + 1
      /\ index < scan_from \/ index < end_seq
      /\ lock_arr[AtSlot] = NoOne
      /\ UNCHANGED <<end_seq, scan_from>>
  BY DEF AckStep, AckFreeBlock, AckGiveUp, AckRetransmit, AckTooEarly, AckStillPending,
         AckReceived, AckSkipEmpty, AckScanning, nackVars
<1>2. PICK n \in Positions : n = index
  BY <1>1, AckPosition
<1>3. /\ InHandler /\ Owner(n) = NoOne /\ Entry = At(n)
      /\ \A q \in Passed : q \in Positions /\ Owner(q) = NoOne /\ (is_first_update => ~Waiting(q))
  BY <1>1, <1>2, AckPosition
<1>4. /\ TypeOK /\ AckScan /\ OverdueOrder /\ n \in Nat
      /\ head_pt_final <= Larger(index, scan_from)
      /\ Owner(n)' = Owner(n)
  BY <1>1, <1>2, IterationFrame, PositionsTyped DEF SlotsInv, WindowInv, TypeInv, ScanInv, ScanInWindow
<1>5. scan_from <= n => ~(n < scan_from) /\ ~(n < head_pt_final)
  BY <1>2, <1>4 DEF Larger, TypeOK
<1>6. CASE AckFreeBlock \/ AckGiveUp \/ AckReceived
  <2>1. /\ BookInv' /\ OverdueOrder'
        /\ \A q \in Positions : q # n => At(q)' = At(q)
        /\ At(n)'.status = "Empty"
    BY <1>1, <1>2, <1>3, <1>6, FreeEntryBook DEF AckFreeBlock, AckGiveUp, AckReceived
  <2>2. ~Waiting(n)'
    BY <1>3, <1>4, <2>1, ThreadsAssumption DEF Waiting, Threads
  <2>3. UNCHANGED <<curr_pt_final, is_first_update>> /\ (UNCHANGED head_pt_final \/ ReclaimAt(n))
    BY <1>2, <1>6 DEF AckFreeBlock, AckGiveUp, AckReceived
  <2> QED BY <1>1, <1>2, <1>3, <2>1, <2>2, <2>3, AckIteration
<1>7. CASE AckRetransmit
  <2>1. \A j \in Positions : j < n => j \in Passed
    BY <1>2, <1>4 DEF Passed, Positions, TypeOK
  <2>2. \A j \in Positions : j < n /\ At(j).status = "Outbound" => At(j).num_retrans # At(n).num_retrans
    BY <1>1, <1>2, <1>3, <1>4, <1>7, <2>1 DEF AckRetransmit, AckScan, OverdueOrder, AtSlot
  <2>3. /\ BookInv' /\ OverdueOrder'
        /\ \A q \in Positions : q # n => At(q)' = At(q)
        /\ At(n)'.status = "Retrans"
    BY <1>1, <1>2, <1>3, <1>7, <2>2, RetransEntryBook DEF AckRetransmit
  <2>4. UNCHANGED head_pt_final /\ scan_from <= n /\ n \in Int /\ n <= n /\ ResumeAt(n)
    BY <1>2, <1>4, <1>7 DEF AckRetransmit, AckScanning
  <2> QED BY <1>1, <1>2, <1>3, <1>5, <2>3, <2>4, AckIteration
<1>8. CASE AckStillPending
  <2>1. /\ BookInv' /\ OverdueOrder'
        /\ \A q \in Positions : At(q)' = At(q)
    BY <1>1, <1>8, UntouchedBook DEF AckStillPending
  <2>2. UNCHANGED head_pt_final /\ scan_from <= n /\ n \in Int /\ n <= n /\ ResumeAt(n)
    BY <1>2, <1>4, <1>8 DEF AckStillPending, AckScanning
  <2>3. At(n)'.status # "Outbound"
    BY <1>3, <1>8, <2>1 DEF AckStillPending
  <2> QED BY <1>1, <1>2, <1>3, <1>5, <2>1, <2>2, <2>3, AckIteration
<1>9. CASE AckTooEarly \/ AckSkipEmpty
  <2>1. /\ BookInv' /\ OverdueOrder'
        /\ \A q \in Positions : At(q)' = At(q)
    BY <1>1, <1>9, UntouchedBook DEF AckTooEarly, AckSkipEmpty
  <2>2. UNCHANGED <<curr_pt_final, is_first_update>> /\ (UNCHANGED head_pt_final \/ ReclaimAt(n)) /\ scan_from <= n
    BY <1>2, <1>9 DEF AckTooEarly, AckSkipEmpty, AckScanning
  <2>3. ~Waiting(n)'
    BY <1>3, <1>4, <1>9, <2>1, ThreadsAssumption DEF AckTooEarly, AckSkipEmpty, Waiting, Threads
  <2>4. n < head_pt_final' => At(n)'.status = "Empty"
    BY <1>3, <1>5, <1>9, <2>1, <2>2 DEF AckTooEarly, AckSkipEmpty
  <2>5. At(n)'.status = "Outbound" => Slot(n) \notin overdue /\ At(n)'.num_retrans # NumRetrans
    BY <1>2, <1>3, <1>9, <2>1 DEF AckTooEarly, AckSkipEmpty, AtSlot
  <2> QED BY <1>1, <1>2, <1>3, <1>5, <2>1, <2>2, <2>3, <2>4, <2>5, AckIteration
<1> QED BY <1>6, <1>7, <1>8, <1>9 DEF AckStep

-----------------------------------------------------------------------------
(* The end of both handlers.                                               *)

LEMMA StoreCursorsSlotsInv ==
  ASSUME SlotsInv, InHandler, StoreCursors,
         \A q \in head_pt .. head_pt_final - 1 : Owner(q) = NoOne /\ At(q).status = "Empty"
  PROVE  BookInv' /\ ScanInv'
<1>1. /\ TypeOK /\ LockTable /\ SlotsOutside /\ PositionSeq /\ UnsentLast /\ BudgetOrder /\ SenderAhead
      /\ head_pt <= head_pt_final
  BY DEF SlotsInv, WindowInv, TypeInv, BookInv, ScanInv, ScanInWindow
<1>2. /\ head_pt' = head_pt_final /\ curr_pt' = Larger(curr_pt_final, head_pt_final)
      /\ UNCHANGED <<tail_pt, book_keep, lock_arr, enqVars, deqVars>>
      /\ ack_pc' = "wait"
  BY <1>1 DEF StoreCursors, Larger, TypeOK
<1>3. ~InHandler'
  BY <1>2 DEF InHandler
<1>4. /\ Positions' \subseteq Positions /\ \A q \in Positions' : head_pt_final <= q
      /\ \A q \in Positions : q \in Positions' \/ q \in head_pt .. head_pt_final - 1
      /\ Positions \subseteq Nat
  BY <1>1, <1>2 DEF Positions, TypeOK
<1>5. \A q \in Nat : At(q)' = At(q) /\ Owner(q)' = Owner(q)
  BY <1>2 DEF At, Owner
<1>6. LockTable'
  <2>1. ASSUME NEW s \in Slots, lock_arr[s] # NoOne PROVE \E q \in Positions' : s = Slot(q)
    <3>1. PICK q \in Positions : s = Slot(q)
      BY <1>1, <2>1 DEF LockTable
    <3>2. q \in Positions'
      BY <1>4, <2>1, <3>1 DEF Owner
    <3> QED BY <3>1, <3>2
  <2> QED BY <1>1, <1>2, <2>1 DEF LockTable, enqVars, deqVars
<1>7. SlotsOutside'
  BY <1>1, <1>2, <1>4 DEF SlotsOutside, At
<1>8. PositionSeq'
  BY <1>1, <1>2, <1>4, <1>5 DEF PositionSeq, enqVars
<1>9. UnsentLast'
  BY <1>1, <1>2, <1>4, <1>5 DEF UnsentLast, Unsent, Sent, deqVars
<1>10. BudgetOrder'
  BY <1>1, <1>2, <1>4, <1>5 DEF BudgetOrder, Sent, deqVars
<1>11. SenderAhead'
  <2>1. \A q \in Positions' : Waiting(q)' => Owner(q)' = Sender \/ curr_pt' <= q
    BY <1>1, <1>2, <1>4, <1>5 DEF SenderAhead, Waiting, Larger, TypeOK
  <2> QED BY <1>3, <2>1 DEF SenderAhead
<1> QED BY <1>2, <1>3, <1>6, <1>7, <1>8, <1>9, <1>10, <1>11
        DEF BookInv, ScanInv, AckScan, TimeOutScan, ScanBounds, OverdueOrder, InHandler

\* What HandleDataAck moves head past is free.
LEMMA AckFinishPassed ==
  ASSUME SlotsInv, AckFinish, NEW q \in head_pt .. head_pt_final - 1
  PROVE  Owner(q) = NoOne /\ At(q).status = "Empty"
<1>1. TypeOK /\ AckScan /\ ScanInWindow /\ ack_pc = "ack" /\ index >= end_seq
  BY DEF SlotsInv, WindowInv, TypeInv, ScanInv, AckFinish
<1>2. head_pt_final <= index
  BY <1>1 DEF ScanInWindow, Larger, TypeOK
<1>3. q \in Passed /\ q < head_pt_final
  BY <1>1, <1>2 DEF Passed, TypeOK
<1> QED BY <1>1, <1>3 DEF AckScan

LEMMA AckFinishSlotsInv ==
  ASSUME SlotsInv, AckFinish
  PROVE  BookInv' /\ ScanInv'
<1>1. InHandler /\ StoreCursors
  BY DEF AckFinish, InHandler
<1> QED BY <1>1, AckFinishPassed, StoreCursorsSlotsInv

-----------------------------------------------------------------------------
(* The start of both handlers.                                             *)

\* Whatever is found too old, an older packet with as many retransmissions
\* left was sent before and is too old as well.
LEMMA OverdueInOrder ==
  ASSUME SlotsInv, NEW late \in SUBSET Slots, Overdue(late),
         NEW j \in Positions, NEW k \in Positions, j < k,
         At(j).status = "Outbound", At(k).status = "Outbound",
         At(j).num_retrans = At(k).num_retrans, Slot(k) \in late
  PROVE  Slot(j) \in late
<1>1. Slot(j) \in sent_before[Slot(k)]
  BY DEF SlotsInv, BookInv, BudgetOrder, Sent
<1>2. {o \in sent_before[Slot(k)] : book_keep[o].status = "Outbound"} \subseteq late
  BY DEF Overdue
<1> QED BY <1>1, <1>2 DEF At

LEMMA HandlerStarts ==
  ASSUME SlotsInv, ~InHandler, NEW late \in SUBSET Slots, Overdue(late),
         overdue' = late, index' = head_pt, curr_pt_final' = curr_pt, is_first_update' = TRUE,
         UNCHANGED <<cursors, book_keep, lock_arr, enqVars, deqVars>>,
         AckScan', TimeOutScan', ack_pc' \in {"ack", "time_out"}
  PROVE  BookInv' /\ ScanInv'
<1>1. TypeOK /\ PositionSeq /\ LockTable /\ SenderAhead
  BY DEF SlotsInv, WindowInv, TypeInv, BookInv, ScanInv
<1>2. LockTable' /\ PositionSeq'
  BY <1>1 DEF LockTable, PositionSeq, Positions, At, Owner, cursors, enqVars, deqVars
<1>3. BookInv'
  BY <1>2, BookUntouched DEF SlotsInv, cursors, deqVars
<1>4. ScanBounds'
  BY <1>1 DEF ScanBounds, cursors, TypeOK
<1>5. Positions' = Positions /\ \A q \in Positions : At(q)' = At(q) /\ Owner(q)' = Owner(q)
  BY DEF Positions, At, Owner, cursors
<1>6. OverdueOrder'
  BY <1>5, OverdueInOrder DEF OverdueOrder
<1>7. SenderAhead'
  BY <1>1, <1>5 DEF SenderAhead, Waiting, InHandler
<1> QED BY <1>3, <1>4, <1>6, <1>7 DEF ScanInv

LEMMA AckArrivesSlotsInv ==
  ASSUME SlotsInv, AckArrives
  PROVE  BookInv' /\ ScanInv'
<1>1. ASSUME NEW a \in 1 .. MaxAckSeq, HandlePoke(a) PROVE BookInv' /\ ScanInv'
  <2>1. LockTable' /\ PositionSeq'
    BY <1>1 DEF HandlePoke, SlotsInv, BookInv, LockTable, PositionSeq, Positions, At, Owner, cursors, enqVars, deqVars
  <2> QED BY <1>1, <2>1, BookUntouched, ScanUntouched DEF HandlePoke, SlotsInv, cursors, deqVars
<1>2. ASSUME NEW a \in 1 .. MaxAckSeq, NEW end \in 1 .. highest_sent, HandleDupAck(a, end)
      PROVE  BookInv' /\ ScanInv'
  <2>1. /\ UNCHANGED <<cursors, book_keep, lock_arr, enqVars, deqVars, scanVars, nackVars, overdue>>
        /\ ~InHandler /\ ~InHandler' /\ ack_pc' \notin {"ack", "time_out"}
    BY <1>2 DEF HandleDupAck, InHandler
  <2>2. LockTable' /\ PositionSeq'
    BY <2>1 DEF SlotsInv, BookInv, LockTable, PositionSeq, Positions, At, Owner, cursors, enqVars, deqVars
  <2>3. BookInv'
    BY <2>1, <2>2, BookUntouched DEF SlotsInv, cursors, deqVars
  <2>4. SenderAhead'
    BY <2>1 DEF SlotsInv, ScanInv, SenderAhead, Waiting, Positions, At, Owner, cursors
  <2> QED BY <2>1, <2>3, <2>4 DEF ScanInv, AckScan, TimeOutScan, ScanBounds, OverdueOrder
<1>3. ASSUME NEW a \in 1 .. MaxAckSeq, NEW end \in 1 .. highest_sent,
             NEW nacks \in SUBSET (1 .. end), NEW late \in SUBSET Slots,
             HandleNewAck(a, end, nacks, late)
      PROVE  BookInv' /\ ScanInv'
  <2>1. /\ ~InHandler /\ ack_pc' = "ack" /\ overdue' = late /\ Overdue(late)
        /\ index' = head_pt /\ curr_pt_final' = curr_pt /\ is_first_update' = TRUE
        /\ UNCHANGED <<cursors, book_keep, lock_arr, enqVars, deqVars>>
        /\ end_seq' = end
    BY <1>3 DEF HandleNewAck, InHandler
  <2>2. Passed' = {}
    BY <2>1 DEF Passed, cursors, SlotsInv, WindowInv, TypeInv, TypeOK
  <2>3. AckScan' /\ TimeOutScan'
    BY <2>1, <2>2 DEF AckScan, TimeOutScan, deqVars
  <2> QED BY <2>1, <2>3, HandlerStarts
<1> QED BY <1>1, <1>2, <1>3 DEF AckArrives

LEMMA TimeOutStartSlotsInv ==
  ASSUME SlotsInv, NEW late \in SUBSET Slots, TimeOutStart(late)
  PROVE  BookInv' /\ ScanInv'
<1>1. /\ ~InHandler /\ ack_pc' = "time_out" /\ overdue' = late /\ Overdue(late)
      /\ index' = head_pt /\ curr_pt_final' = curr_pt /\ is_first_update' = TRUE
      /\ UNCHANGED <<cursors, book_keep, lock_arr, enqVars, deqVars>>
      /\ head_pt_final' = head_pt
  BY DEF TimeOutStart, InHandler
<1>2. Passed' = {} /\ head_pt' .. head_pt_final' - 1 = {}
  BY <1>1 DEF Passed, cursors, SlotsInv, WindowInv, TypeInv, TypeOK
<1>3. AckScan' /\ TimeOutScan'
  BY <1>1, <1>2 DEF AckScan, TimeOutScan
<1> QED BY <1>1, <1>3, HandlerStarts

-----------------------------------------------------------------------------
(* HandleTimeOut.                                                          *)

LEMMA TimeOutPosition ==
  ASSUME SlotsInv, TimeOutScanning
  PROVE  /\ InHandler /\ index \in Positions /\ Owner(index) = NoOne /\ Entry = At(index)
         /\ head_pt_final <= index
         /\ \A q \in Passed : /\ q \in Positions /\ Owner(q) = NoOne
                              /\ is_first_update => ~Waiting(q)
                              /\ At(q).status = "Outbound" => Slot(q) \notin overdue /\ At(q).num_retrans > 0
<1>1. /\ TypeOK /\ ScanInWindow /\ ScanBounds /\ TimeOutScan /\ InHandler /\ ack_pc = "time_out"
      /\ index < tail_pt
  BY DEF SlotsInv, WindowInv, TypeInv, ScanInv, InHandler, TimeOutScanning
<1>2. index \in Positions
  BY <1>1 DEF Positions, ScanBounds, TypeOK
<1>3. \A q \in Passed : q \in Positions
  BY <1>1, <1>2 DEF Positions, Passed, TypeOK
<1> QED BY <1>1, <1>2, <1>3 DEF TimeOutScan, TimeOutScanning, ScanInWindow, Owner, Entry, At, AtSlot

LEMMA TimeOutIteration ==
  ASSUME SlotsInv, TimeOutScanning, ScanUnchanged, NEW n \in Positions, n = index, index' = index + 1,
         BookInv', OverdueOrder',
         \A q \in Positions : q # n => At(q)' = At(q),
         \/ UNCHANGED head_pt_final
         \/ \E p \in Int : /\ p <= n /\ ReclaimAt(p)
                           /\ head_pt <= p => At(p)'.status = "Empty",
         \/ UNCHANGED <<curr_pt_final, is_first_update>> /\ ~Waiting(n)'
         \/ \E p \in Int : p <= n /\ ResumeAt(p),
         At(n)'.status = "Outbound" => Slot(n) \notin overdue /\ At(n)'.num_retrans > 0
  PROVE  BookInv' /\ ScanInv'
<1>1. /\ TypeOK /\ TimeOutScan /\ InHandler /\ ack_pc = "time_out" /\ Owner(n) = NoOne
      /\ head_pt <= head_pt_final /\ head_pt_final <= n /\ head_pt <= index
      /\ \A q \in Passed : /\ q \in Positions /\ Owner(q) = NoOne
                           /\ is_first_update => ~Waiting(q)
                           /\ At(q).status = "Outbound" => Slot(q) \notin overdue /\ At(q).num_retrans > 0
  BY TimeOutPosition
     DEF SlotsInv, WindowInv, TypeInv, ScanInv, ScanInWindow, ScanBounds, InHandler, TimeOutScanning
<1>2. /\ Positions' = Positions /\ Positions \subseteq Nat
      /\ \A q \in Positions : Owner(q)' = Owner(q)
      /\ UNCHANGED <<head_pt, tail_pt, ack_pc, overdue>>
  BY IterationFrame, PositionsTyped DEF SlotsInv
<1>3. Passed' = Passed \cup {n} /\ \A q \in Passed : q \in Positions /\ q # n
  BY <1>1, <1>2 DEF Passed, TypeOK
<1>4. ScanBounds' /\ SenderAhead' /\ (is_first_update' => \A q \in Passed' : ~Waiting(q)')
  BY <1>1, <1>3, ResumeInOrder
<1>5. \A q \in head_pt .. head_pt_final - 1 : q \in Passed
  BY <1>1 DEF Passed, TypeOK
<1>6. ASSUME NEW q \in head_pt .. head_pt_final' - 1 PROVE Owner(q)' = NoOne /\ At(q)'.status = "Empty"
  <2>1. CASE q \in head_pt .. head_pt_final - 1
    BY <1>1, <1>2, <1>3, <1>5, <2>1 DEF TimeOutScan
  <2>2. CASE q \notin head_pt .. head_pt_final - 1
    <3>1. PICK p \in Int : /\ p <= n /\ ReclaimAt(p)
                           /\ head_pt <= p => At(p)'.status = "Empty"
      BY <1>6, <2>2
    <3>2. q = p /\ head_pt <= p
      BY <1>1, <1>6, <2>2, <3>1 DEF ReclaimAt, TypeOK
    <3>3. q \in Passed \/ q = n
      BY <1>1, <1>2, <3>1, <3>2 DEF Passed, TypeOK
    <3> QED BY <1>1, <1>2, <3>1, <3>2, <3>3
  <2> QED BY <2>1, <2>2
<1>7. TimeOutScan'
  BY <1>1, <1>2, <1>3, <1>4, <1>6 DEF TimeOutScan
<1>8. AckScan'
  BY <1>1, <1>2 DEF AckScan
<1> QED BY <1>4, <1>7, <1>8 DEF ScanInv

LEMMA TimeOutStepSlotsInv ==
  ASSUME SlotsInv, TimeOutStep, ~TimeOutFinish
  PROVE  BookInv' /\ ScanInv'
<1>1. TimeOutScanning /\ ScanUnchanged
  BY DEF TimeOutStep, TimeOutPending, TimeOutDrop, TimeOutRetransmit, TimeOutKeep, TimeOutEmpty, TimeOutBreak
<1>2. PICK n \in Positions : n = index
  BY <1>1, TimeOutPosition
<1>3. /\ InHandler /\ Owner(n) = NoOne /\ Entry = At(n)
      /\ \A q \in Passed : /\ q \in Positions /\ Owner(q) = NoOne
                           /\ At(q).status = "Outbound" => Slot(q) \notin overdue /\ At(q).num_retrans > 0
      /\ head_pt_final <= n
  BY <1>1, <1>2, TimeOutPosition
<1>4. /\ TypeOK /\ PendingHasBudget /\ OverdueOrder /\ UnsentLast /\ BudgetOrder /\ n \in Nat
      /\ Positions \subseteq Nat
      /\ \A q \in Positions : Slot(q) \in Slots /\ At(q) \in BookKeeping
      /\ Owner(n)' = Owner(n)
      /\ \A j \in Positions : j < n => j \in Passed
  <2>1. \A j \in Positions : j < n => j \in Passed
    BY <1>2 DEF Passed, Positions, SlotsInv, WindowInv, TypeInv, TypeOK
  <2> QED BY <1>1, <1>2, <2>1, IterationFrame, PositionsTyped DEF SlotsInv, WindowInv, TypeInv, BookInv, ScanInv
<1>5. At(n).status # "Empty" => Entry.seq_num - 1 \in Int /\ Entry.seq_num - 1 <= n /\ 0 <= Entry.seq_num - 1
  BY <1>3, <1>4 DEF SlotsInv, BookInv, PositionSeq, BookKeeping
<1>6. CASE TimeOutDrop
  <2>1. /\ BookInv' /\ OverdueOrder'
        /\ \A q \in Positions : q # n => At(q)' = At(q)
        /\ At(n)'.status = "Empty"
    BY <1>1, <1>2, <1>3, <1>6, FreeEntryBook DEF TimeOutDrop
  <2>2. ~Waiting(n)'
    BY <1>3, <1>4, <2>1, ThreadsAssumption DEF Waiting, Threads
  <2>3. At(n).status = "Outbound" /\ At(n).num_retrans = 0
    BY <1>3, <1>6 DEF TimeOutDrop
  <2>4. ASSUME NEW j \in Positions, j < n PROVE At(j).status = "Empty"
    <3>1. At(j).status # "New"
      BY <1>4, <2>3, <2>4 DEF UnsentLast, Unsent, Sent
    <3>2. ~Sent(j) \/ At(j).num_retrans = 0
      BY <1>4, <2>3, <2>4 DEF BudgetOrder, Sent, BookKeeping
    <3>3. At(j).status # "Outbound"
      BY <1>3, <1>4, <2>4, <3>2 DEF Sent
    <3>4. At(j).status # "Retrans"
      BY <1>4, <3>2 DEF Sent, PendingHasBudget, At
    <3> QED BY <1>4, <3>1, <3>3, <3>4 DEF BookKeeping, Status
  <2>5. PICK p \in Int : p = Entry.seq_num - 1 /\ p <= n
    BY <1>5, <2>3
  <2>6. head_pt <= p => p \in Positions
    BY <1>2, <1>4, <2>5 DEF Positions, TypeOK
  <2>7. head_pt <= p => At(p)'.status = "Empty"
    BY <2>1, <2>4, <2>5, <2>6, <1>4
  <2>8. UNCHANGED <<curr_pt_final, is_first_update>> /\ ReclaimAt(p) /\ index' = index + 1
    BY <1>6, <2>5 DEF TimeOutDrop, ReclaimAt
  <2> QED BY <1>1, <1>2, <1>3, <2>1, <2>2, <2>5, <2>7, <2>8, TimeOutIteration
<1>7. CASE TimeOutPending
  <2>1. /\ BookInv' /\ OverdueOrder'
        /\ \A q \in Positions : At(q)' = At(q)
    BY <1>1, <1>7, UntouchedBook DEF TimeOutPending
  <2>2. At(n).status = "Retrans"
    BY <1>3, <1>7 DEF TimeOutPending
  <2>3. \E p \in Int : p <= n /\ ResumeAt(p)
    BY <1>5, <1>7, <2>2 DEF TimeOutPending
  <2>4. UNCHANGED head_pt_final /\ index' = index + 1 /\ At(n)'.status # "Outbound"
    BY <1>7, <2>1, <2>2 DEF TimeOutPending
  <2> QED BY <1>1, <1>2, <2>1, <2>3, <2>4, TimeOutIteration
<1>8. CASE TimeOutRetransmit
  <2>1. At(n).status = "Outbound" /\ Slot(n) \in overdue
    BY <1>2, <1>3, <1>8 DEF TimeOutRetransmit, AtSlot
  <2>2. \A j \in Positions : j < n /\ At(j).status = "Outbound" => At(j).num_retrans # At(n).num_retrans
    BY <1>3, <1>4, <2>1 DEF OverdueOrder
  <2>3. /\ BookInv' /\ OverdueOrder'
        /\ \A q \in Positions : q # n => At(q)' = At(q)
        /\ At(n)'.status = "Retrans"
    BY <1>1, <1>2, <1>3, <1>8, <2>1, <2>2, RetransEntryBook DEF TimeOutRetransmit
  <2>4. \E p \in Int : p <= n /\ ResumeAt(p)
    BY <1>5, <1>8, <2>1 DEF TimeOutRetransmit
  <2>5. UNCHANGED head_pt_final /\ index' = index + 1
    BY <1>8 DEF TimeOutRetransmit
  <2> QED BY <1>1, <1>2, <2>3, <2>4, <2>5, TimeOutIteration
<1>9. CASE TimeOutKeep \/ TimeOutEmpty
  <2>1. /\ BookInv' /\ OverdueOrder'
        /\ \A q \in Positions : At(q)' = At(q)
    BY <1>1, <1>9, UntouchedBook DEF TimeOutKeep, TimeOutEmpty
  <2>2. ~Waiting(n)'
    BY <1>3, <1>4, <1>9, <2>1, ThreadsAssumption DEF TimeOutKeep, TimeOutEmpty, Waiting, Threads
  <2>3. UNCHANGED head_pt_final \/ (ReclaimAt(n) /\ At(n)'.status = "Empty")
    BY <1>2, <1>3, <1>9, <2>1 DEF TimeOutKeep, TimeOutEmpty
  <2>4. At(n)'.status = "Outbound" => Slot(n) \notin overdue /\ At(n)'.num_retrans > 0
    BY <1>2, <1>3, <1>9, <2>1 DEF TimeOutKeep, TimeOutEmpty, AtSlot
  <2>5. UNCHANGED <<curr_pt_final, is_first_update>> /\ index' = index + 1
    BY <1>9 DEF TimeOutKeep, TimeOutEmpty
  <2>6. n \in Int /\ n <= n
    BY <1>4
  <2> QED BY <1>1, <1>2, <2>1, <2>2, <2>3, <2>4, <2>5, <2>6, TimeOutIteration
<1>10. CASE TimeOutBreak
  <2>1. /\ BookInv' /\ OverdueOrder' /\ Positions' = Positions
        /\ \A q \in Positions : At(q)' = At(q) /\ Owner(q)' = Owner(q)
        /\ UNCHANGED <<head_pt, tail_pt, curr_pt, book_keep, lock_arr, ack_pc, head_pt_final, curr_pt_final, is_first_update>>
        /\ index' = tail_pt /\ ack_pc = "time_out" /\ InHandler'
    BY <1>1, <1>3, <1>10, UntouchedBook, IterationFrame DEF TimeOutBreak, TimeOutScanning
  <2>2. TypeOK /\ TimeOutScan /\ ScanBounds /\ SenderAhead /\ index \in Nat /\ index < tail_pt
    BY <1>1, <1>4 DEF SlotsInv, ScanInv, TimeOutScanning, TypeOK
  <2>3. AckScan' /\ TimeOutScan'
    BY <2>1, <2>2 DEF AckScan, TimeOutScan, At, Owner, TypeOK
  <2>4. ScanBounds'
    BY <1>3, <2>1, <2>2 DEF ScanBounds, TypeOK
  <2>5. SenderAhead'
    BY <1>3, <2>1, <2>2 DEF SenderAhead, Waiting
  <2> QED BY <2>1, <2>3, <2>4, <2>5 DEF ScanInv
<1> QED BY <1>6, <1>7, <1>8, <1>9, <1>10 DEF TimeOutStep

LEMMA TimeOutFinishSlotsInv ==
  ASSUME SlotsInv, TimeOutFinish
  PROVE  BookInv' /\ ScanInv'
<1>1. ack_pc = "time_out" /\ InHandler /\ StoreCursors
  BY DEF TimeOutFinish, InHandler
<1> QED BY <1>1, StoreCursorsSlotsInv DEF SlotsInv, ScanInv, TimeOutScan

-----------------------------------------------------------------------------
(* The theorems.                                                           *)

LEMMA NextSlotsInv == SlotsInv /\ [Next]_vars => SlotsInv'
<1> SUFFICES ASSUME SlotsInv, [Next]_vars PROVE SlotsInv'
  OBVIOUS
<1>1. WindowInv'
  BY NextWindowInv DEF SlotsInv
<1>2. CASE UNCHANGED vars
  <2>1. /\ UNCHANGED <<head_pt, tail_pt, book_keep, lock_arr, sent_before, highest_sent>>
        /\ UNCHANGED <<cursors, ack_pc, scanVars, nackVars, overdue>>
        /\ UNCHANGED <<enqVars, deqVars>>
    BY <1>2 DEF vars, cursors, deqVars, ackVars
  <2>2. LockTable' /\ PositionSeq'
    BY <2>1 DEF SlotsInv, BookInv, LockTable, PositionSeq, Positions, At, Owner, enqVars, deqVars
  <2> QED BY <1>1, <2>1, <2>2, BookUntouched, ScanUntouched DEF SlotsInv
<1>3. CASE HandleDataAck
  BY <1>1, <1>3, AckArrivesSlotsInv, AckStepSlotsInv, AckFinishSlotsInv DEF SlotsInv, HandleDataAck
<1>4. CASE HandleTimeOut
  BY <1>1, <1>4, TimeOutStartSlotsInv, TimeOutStepSlotsInv, TimeOutFinishSlotsInv DEF SlotsInv, HandleTimeOut
<1> QED BY <1>2, <1>3, <1>4, EnqueueSlotsInv, DequeueSlotsInv DEF Next

LEMMA SlotsInvHolds == Spec => []SlotsInv
BY InitSlotsInv, NextSlotsInv, PTL DEF Spec

\* The assertion of EnqueuePkt never fires: the slot a producer writes is
\* empty, however many producers there are.
THEOREM EnqueueNeverOverwrites == Spec => []EnqueueIntoEmpty
<1>1. SlotsInv => EnqueueIntoEmpty
  <2> SUFFICES ASSUME SlotsInv, NEW p \in Producers, enq_pc[p] = "store"
               PROVE  book_keep[enq_index[p]].status = "Empty"
    BY DEF EnqueueIntoEmpty
  <2>1. enq_index[p] \in Slots
    BY DEF SlotsInv, WindowInv, TypeInv, TypeOK
  <2> QED BY <2>1 DEF SlotsInv, BookInv, LockTable, SlotsOutside
<1> QED BY <1>1, SlotsInvHolds, PTL

\* The assertions of DequeuePkt never fire: what the sender takes has a
\* sequence number and, if it was sent before, a retransmission left.
THEOREM DequeueAssertsHold == Spec => []DequeueAsserts
<1>1. SlotsInv => DequeueAsserts
  <2> SUFFICES ASSUME SlotsInv, deq_pc = "take" PROVE DequeueAsserts
    BY DEF DequeueAsserts
  <2>1. TypeOK /\ PendingHasBudget /\ LockTable /\ PositionSeq /\ deq_index \in Slots
    BY DEF SlotsInv, WindowInv, TypeInv, TypeOK, BookInv
  <2>2. PICK n \in Positions : deq_index = Slot(n)
    BY <2>1, ThreadsAssumption DEF LockTable, Threads
  <2>3. book_keep[deq_index] = At(n) /\ book_keep[deq_index] \in BookKeeping
    BY <2>1, <2>2 DEF At, TypeOK
  <2> QED BY <2>1, <2>3 DEF DequeueAsserts, PositionSeq, PendingHasBudget, BookKeeping
<1> QED BY <1>1, SlotsInvHolds, PTL

\* However the handlers move curr_pt_, every packet that waits to be sent is
\* at the sender's cursor, after it, or in the sender's hand.
THEOREM NoneStranded == Spec => []NothingStranded
<1>1. SlotsInv => NothingStranded
  <2> SUFFICES ASSUME SlotsInv, qlock # Acker, NEW q \in Positions, At(q).status \in {"New", "Retrans"}
               PROVE  q >= curr_pt \/ (deq_pc = "take" /\ deq_index = Slot(q))
    BY DEF NothingStranded, Positions, At
  <2>1. LockOwners /\ LockTable /\ SenderAhead /\ Slot(q) \in Slots /\ curr_pt \in Nat /\ q \in Nat
    BY PositionsTyped DEF SlotsInv, WindowInv, BookInv, ScanInv
  <2>2. Owner(q) = Sender \/ curr_pt <= q
    BY <2>1 DEF LockOwners, SenderAhead, Waiting
  <2> QED BY <2>1, <2>2 DEF LockTable, Owner
<1> QED BY <1>1, SlotsInvHolds, PTL

-----------------------------------------------------------------------------
(***************************************************************************)
(* The ring buffer with its threads implements SendWindow, for every       *)
(* number of producers, window size, budget and bound: the initial state   *)
(* shows an empty window, and every step of every thread is one step of    *)
(* one packet or shows nothing.                                            *)
(***************************************************************************)

-----------------------------------------------------------------------------
(* What the window shows of a position.                                    *)

Accepted(p) == p \in Positions /\ Owner(p) \notin Producers

Shown ==
  \A p \in Nat :
    /\ p < head_pt => LifeAt(p) = "gone" /\ SendsAt(p) = 0
    /\ p >= head_pt /\ ~Accepted(p) => LifeAt(p) = "none" /\ SendsAt(p) = 0
    /\ Accepted(p) =>
         /\ At(p).status = "Empty" => LifeAt(p) = "gone" /\ SendsAt(p) = 0
         /\ At(p).status = "New" => LifeAt(p) = "waiting" /\ SendsAt(p) = 0
         /\ At(p).status = "Outbound" =>
              LifeAt(p) = "out" /\ SendsAt(p) = NumRetrans - At(p).num_retrans + 1
         /\ At(p).status = "Retrans" =>
              LifeAt(p) = "waiting" /\ SendsAt(p) = NumRetrans - At(p).num_retrans + 1

LEMMA ShownHolds == SlotsInv => Shown
<1> SUFFICES ASSUME SlotsInv, NEW p \in Nat
             PROVE  /\ p < head_pt => LifeAt(p) = "gone" /\ SendsAt(p) = 0
                    /\ p >= head_pt /\ ~Accepted(p) => LifeAt(p) = "none" /\ SendsAt(p) = 0
                    /\ Accepted(p) =>
                         /\ At(p).status = "Empty" => LifeAt(p) = "gone" /\ SendsAt(p) = 0
                         /\ At(p).status = "New" => LifeAt(p) = "waiting" /\ SendsAt(p) = 0
                         /\ At(p).status = "Outbound" =>
                              LifeAt(p) = "out" /\ SendsAt(p) = NumRetrans - At(p).num_retrans + 1
                         /\ At(p).status = "Retrans" =>
                              LifeAt(p) = "waiting" /\ SendsAt(p) = NumRetrans - At(p).num_retrans + 1
  BY DEF Shown
<1>1. /\ LockTable /\ Slot(p) \in Slots /\ head_pt \in Nat /\ tail_pt \in Nat /\ head_pt <= tail_pt
  BY PositionsTyped DEF SlotsInv, BookInv, WindowInv, WindowOrder
<1>2. Storing(p) <=> Owner(p) \in Producers
  BY <1>1 DEF Storing, Owner, LockTable
<1>3. p \in Positions <=> head_pt <= p /\ p < tail_pt
  BY <1>1 DEF Positions
<1>4. CASE p < head_pt
  <2>1. LifeAt(p) = "gone"
    BY <1>1, <1>4 DEF LifeAt
  <2> QED BY <1>1, <1>3, <1>4, <2>1 DEF SendsAt, Accepted
<1>5. CASE p >= head_pt /\ ~Accepted(p)
  <2>1. LifeAt(p) = "none"
    BY <1>1, <1>2, <1>3, <1>5 DEF LifeAt, Accepted
  <2> QED BY <1>1, <1>5, <2>1 DEF SendsAt
<1>6. CASE Accepted(p)
  <2>1. LifeAt(p) = CASE At(p).status = "Empty" -> "gone"
                      [] At(p).status = "Outbound" -> "out"
                      [] OTHER -> "waiting"
    BY <1>1, <1>2, <1>3, <1>6 DEF LifeAt, Accepted, At
  <2> QED BY <1>1, <1>3, <1>6, <2>1 DEF SendsAt, Accepted, At
<1> QED BY <1>1, <1>4, <1>5, <1>6

LEMMA ShownNext == SlotsInv' => Shown'
BY ShownHolds, PTL

-----------------------------------------------------------------------------
(* The steps of the window, one position at a time.                        *)

SameAt(p) == LifeAt(p)' = LifeAt(p) /\ SendsAt(p)' = SendsAt(p)

AcceptAt(p) ==
  /\ LifeAt(p) = "none"
  /\ \A q \in Nat : q <= p - BufSize => LifeAt(q) = "gone"
  /\ LifeAt(p)' = "waiting" /\ SendsAt(p)' = SendsAt(p)

SendAt(p) ==
  /\ LifeAt(p) = "waiting" /\ SendsAt(p) <= NumRetrans
  /\ SendsAt(p) = 0 => \A q \in Nat : q < p => SendsAt(q) > 0 \/ LifeAt(q) = "gone"
  /\ LifeAt(p)' = "out" /\ SendsAt(p)' = SendsAt(p) + 1

MissAckAt(p) ==
  /\ LifeAt(p) = "out" /\ SendsAt(p) <= NumRetrans
  /\ LifeAt(p)' = "waiting" /\ SendsAt(p)' = SendsAt(p)

LeaveAt(p) ==
  /\ LifeAt(p) \in {"waiting", "out"} /\ SendsAt(p) > 0
  /\ LifeAt(p)' = "gone" /\ SendsAt(p)' = 0

StepAt(p) == AcceptAt(p) \/ SendAt(p) \/ MissAckAt(p) \/ LeaveAt(p) \/ SameAt(p)

AbstractLife == [n \in 1 .. MaxEnq |-> LifeAt(n - 1)]
AbstractSends == [n \in 1 .. MaxEnq |-> SendsAt(n - 1)]

\* Positions the window has no packet for are not seen.
LEMMA StepMaps ==
  ASSUME NEW p \in Nat, StepAt(p), \A q \in Nat : q # p => SameAt(q)
  PROVE  [Window!WindowNext]_<<AbstractLife, AbstractSends>>
<1>1. MaxEnq \in Nat
  BY BoundsAssumption
<1>2. \A n \in 1 .. MaxEnq : n - 1 \in Nat /\ (n - 1 = p <=> n = p + 1)
  BY <1>1
<1>3. \A n \in 1 .. MaxEnq : n # p + 1 => SameAt(n - 1)
  BY <1>2
<1>4. CASE p + 1 \notin 1 .. MaxEnq \/ SameAt(p)
  <2>1. \A n \in 1 .. MaxEnq : SameAt(n - 1)
    BY <1>2, <1>3, <1>4
  <2> QED BY <2>1 DEF SameAt, AbstractLife, AbstractSends
<1>5. CASE p + 1 \in 1 .. MaxEnq /\ ~SameAt(p)
  <2> DEFINE n == p + 1
  <2>1. n \in 1 .. MaxEnq /\ n - 1 = p
    BY <1>5
  <2>2. AbstractLife[n] = LifeAt(p) /\ AbstractSends[n] = SendsAt(p)
    BY <2>1 DEF AbstractLife, AbstractSends
  <2>3. AbstractLife' = [AbstractLife EXCEPT ![n] = LifeAt(p)']
    BY <1>3, <2>1 DEF SameAt, AbstractLife
  <2>4. AbstractSends' = [AbstractSends EXCEPT ![n] = SendsAt(p)']
    BY <1>3, <2>1 DEF SameAt, AbstractSends
  <2>5. \A m \in 1 .. MaxEnq : m - 1 \in Nat /\ AbstractLife[m] = LifeAt(m - 1) /\ AbstractSends[m] = SendsAt(m - 1)
    BY <1>1 DEF AbstractLife, AbstractSends
  <2> HIDE DEF n
  <2>6. CASE AcceptAt(p)
    <3>1. \A m \in 1 .. MaxEnq : m <= n - BufSize => AbstractLife[m] = "gone"
      BY <2>1, <2>5, <2>6, BufSizeAssumption DEF AcceptAt
    <3>2. AbstractSends' = AbstractSends
      BY <2>2, <2>4, <2>6 DEF AcceptAt, AbstractSends
    <3>3. Window!Accept(n)
      BY <2>1, <2>2, <2>3, <2>6, <3>1, <3>2 DEF AcceptAt, Window!Accept, Window!Packets, AbstractLife, AbstractSends
    <3> QED BY <2>1, <3>3 DEF Window!WindowNext, Window!Packets
  <2>7. CASE SendAt(p)
    <3>1. AbstractSends[n] = 0 => \A m \in 1 .. MaxEnq : m < n => AbstractSends[m] > 0 \/ AbstractLife[m] = "gone"
      BY <2>1, <2>2, <2>5, <2>7 DEF SendAt
    <3>2. Window!Send(n)
      BY <2>1, <2>2, <2>3, <2>4, <2>7, <3>1 DEF SendAt, Window!Send, Window!Packets, AbstractLife, AbstractSends
    <3> QED BY <2>1, <3>2 DEF Window!WindowNext, Window!Packets
  <2>8. CASE MissAckAt(p)
    <3>1. AbstractSends' = AbstractSends
      BY <2>2, <2>4, <2>8 DEF MissAckAt, AbstractSends
    <3>2. Window!MissAck(n)
      BY <2>1, <2>2, <2>3, <2>8, <3>1 DEF MissAckAt, Window!MissAck, AbstractLife, AbstractSends
    <3> QED BY <2>1, <3>2 DEF Window!WindowNext, Window!Packets
  <2>9. CASE LeaveAt(p)
    <3>1. Window!Leave(n)
      BY <2>1, <2>2, <2>3, <2>4, <2>9 DEF LeaveAt, Window!Leave, AbstractLife, AbstractSends
    <3> QED BY <2>1, <3>1 DEF Window!WindowNext, Window!Packets
  <2> QED BY <1>5, <2>6, <2>7, <2>8, <2>9 DEF StepAt
<1> QED BY <1>4, <1>5

-----------------------------------------------------------------------------
(* Every step of the ring buffer is a step at one position.                *)

\* A position whose slot is left alone looks the same.
LEMMA LeftAlone ==
  ASSUME SlotsInv, SlotsInv', UNCHANGED <<head_pt, tail_pt>>, NEW q \in Nat,
         q \in Positions => At(q)' = At(q) /\ (Owner(q)' \in Producers <=> Owner(q) \in Producers)
  PROVE  SameAt(q)
<1>1. Shown /\ Shown'
  BY ShownHolds, ShownNext
<1>2. Positions' = Positions /\ head_pt \in Nat
  BY PositionsTyped DEF Positions, SlotsInv
<1>3. Accepted(q)' <=> Accepted(q)
  BY <1>2 DEF Accepted
<1>4. At(q) \in BookKeeping
  BY PositionsTyped DEF SlotsInv
<1>5. CASE q < head_pt
  BY <1>1, <1>5 DEF Shown, SameAt
<1>6. CASE q >= head_pt /\ ~Accepted(q)
  BY <1>1, <1>3, <1>6 DEF Shown, SameAt
<1>7. CASE Accepted(q)
  <2>1. At(q)' = At(q) /\ At(q).status \in Status /\ Accepted(q)'
    BY <1>3, <1>4, <1>7 DEF Accepted, BookKeeping
  <2> QED BY <1>1, <1>7, <2>1 DEF Shown, SameAt, Status
<1> QED BY <1>2, <1>5, <1>6, <1>7

\* A step that may write the slot of one position only.
LEMMA OneSlotStep ==
  ASSUME SlotsInv, SlotsInv', UNCHANGED <<head_pt, tail_pt>>, NEW n \in Positions, StepAt(n),
         \A q \in Positions : q # n => At(q)' = At(q) /\ (Owner(q)' \in Producers <=> Owner(q) \in Producers)
  PROVE  [Window!WindowNext]_<<AbstractLife, AbstractSends>>
<1>1. \A q \in Nat : q # n => SameAt(q)
  BY LeftAlone
<1>2. n \in Nat
  BY PositionsTyped DEF SlotsInv
<1> QED BY <1>1, <1>2, StepMaps

LEMMA NothingShown ==
  ASSUME \A q \in Nat : SameAt(q)
  PROVE  [Window!WindowNext]_<<AbstractLife, AbstractSends>>
BY StepMaps DEF StepAt

LEMMA NoSlotStep ==
  ASSUME SlotsInv, SlotsInv', UNCHANGED <<head_pt, tail_pt>>,
         \A q \in Positions : At(q)' = At(q) /\ (Owner(q)' \in Producers <=> Owner(q) \in Producers)
  PROVE  [Window!WindowNext]_<<AbstractLife, AbstractSends>>
<1>1. \A q \in Nat : SameAt(q)
  BY LeftAlone
<1> QED BY <1>1, NothingShown

LEMMA EnqueueMaps ==
  ASSUME SlotsInv, SlotsInv', NEW p \in Producers, EnqueuePkt(p)
  PROVE  [Window!WindowNext]_<<AbstractLife, AbstractSends>>
<1>1. CASE EnqueueReadTail(p) \/ EnqueueLockQueue(p) \/ EnqueueDrop(p)
  <2>1. UNCHANGED <<head_pt, tail_pt, book_keep, lock_arr>>
    BY <1>1 DEF EnqueueReadTail, EnqueueLockQueue, EnqueueDrop, cursors
  <2> QED BY <2>1, NoSlotStep DEF At, Owner
<1>2. CASE AcquireTailLock(p)
  <2>1. /\ TypeOK /\ Positions \subseteq Nat /\ tail_pt \in Nat /\ head_pt \in Nat /\ head_pt <= tail_pt
        /\ Slot(tail_pt) \in Slots
        /\ \A q \in Positions : Slot(q) \in Slots
    BY PositionsTyped DEF SlotsInv, WindowInv, TypeInv, WindowOrder
  <2>2. /\ lock_arr' = [lock_arr EXCEPT ![Slot(tail_pt)] = p] /\ tail_pt' = tail_pt + 1
        /\ UNCHANGED <<head_pt, book_keep>>
        /\ tail_pt < head_pt + BufSize
    BY <1>2, <2>1, BufSizeAssumption DEF AcquireTailLock, IsFull, TypeOK, SlotsInv, WindowInv, WindowOrder
  <2>3. \A q \in Positions : Slot(q) # Slot(tail_pt)
    BY <2>2, PositionsTyped DEF SlotsInv
  <2>4. /\ Positions' = Positions \cup {tail_pt} /\ tail_pt \notin Positions
        /\ \A q \in Positions : Owner(q)' = Owner(q) /\ At(q)' = At(q)
        /\ lock_arr'[Slot(tail_pt)] = p
    BY <2>1, <2>2, <2>3 DEF Positions, Owner, At, TypeOK
  <2>5. \A q \in Nat : Accepted(q)' <=> Accepted(q)
    BY <2>4 DEF Accepted, Owner
  <2>6. Shown /\ Shown' /\ \A q \in Nat : At(q) \in BookKeeping /\ At(q)' = At(q)
    BY <2>2, ShownHolds, ShownNext, PositionsTyped DEF SlotsInv, At
  <2>7. ASSUME NEW q \in Nat PROVE SameAt(q)
    <3>1. CASE q < head_pt
      BY <2>2, <2>6, <3>1 DEF Shown, SameAt
    <3>2. CASE q >= head_pt /\ ~Accepted(q)
      BY <2>2, <2>5, <2>6, <3>2 DEF Shown, SameAt
    <3>3. CASE Accepted(q)
      BY <2>5, <2>6, <3>3 DEF Shown, SameAt, BookKeeping, Status
    <3> QED BY <2>1, <3>1, <3>2, <3>3
  <2> QED BY <2>7, NothingShown
<1>3. CASE EnqueueStore(p)
  <2>1. /\ TypeOK /\ LockTable /\ SlotsOutside
    BY DEF SlotsInv, WindowInv, TypeInv, BookInv
  <2>2. /\ lock_arr[enq_index[p]] = p /\ enq_index[p] \in Slots
    BY <1>3, <2>1 DEF EnqueueStore, LockTable, TypeOK
  <2>3. PICK n \in Positions : enq_index[p] = Slot(n)
    BY <2>1, <2>2, ThreadsAssumption DEF LockTable, Threads
  <2>4. /\ book_keep' = [book_keep EXCEPT ![Slot(n)] =
                           [seq_num |-> enq_seq[p], status |-> "New", num_retrans |-> NumRetrans]]
        /\ lock_arr' = [lock_arr EXCEPT ![Slot(n)] = NoOne]
        /\ UNCHANGED <<head_pt, tail_pt>>
    BY <1>3, <2>3 DEF EnqueueStore, cursors
  <2>5. /\ Positions \subseteq Nat /\ Positions' = Positions /\ Slot(n) \in Slots
        /\ \A q \in Positions : Slot(q) \in Slots
        /\ \A q \in Positions : Slot(q) = Slot(n) => q = n
        /\ head_pt \in Nat /\ tail_pt \in Nat /\ tail_pt <= head_pt + BufSize
    BY <2>4, PositionsTyped DEF SlotsInv, Positions, WindowInv, WindowOrder
  <2>6. /\ \A q \in Positions : q # n => At(q)' = At(q) /\ Owner(q)' = Owner(q)
        /\ At(n)'.status = "New" /\ Owner(n)' = NoOne /\ Owner(n) = p
    BY <2>1, <2>2, <2>3, <2>4, <2>5 DEF At, Owner, TypeOK
  <2>7. ~Accepted(n) /\ Accepted(n)' /\ n >= head_pt
    <3>1. n >= head_pt
      BY <2>5 DEF Positions
    <3> QED BY <2>5, <2>6, <3>1, ThreadsAssumption DEF Accepted, Threads
  <2>8. Shown /\ Shown'
    BY ShownHolds, ShownNext
  <2>9. \A q \in Nat : q <= n - BufSize => LifeAt(q) = "gone"
    BY <2>5, <2>8, BufSizeAssumption DEF Positions, Shown
  <2>10. /\ LifeAt(n) = "none" /\ SendsAt(n) = 0
         /\ LifeAt(n)' = "waiting" /\ SendsAt(n)' = 0
    BY <2>5, <2>6, <2>7, <2>8 DEF Shown
  <2> QED BY <2>4, <2>6, <2>9, <2>10, OneSlotStep DEF StepAt, AcceptAt
<1> QED BY <1>1, <1>2, <1>3 DEF EnqueuePkt

LEMMA DequeueMaps ==
  ASSUME SlotsInv, SlotsInv', DequeuePkt
  PROVE  [Window!WindowNext]_<<AbstractLife, AbstractSends>>
<1>1. /\ TypeOK /\ PendingHasBudget /\ LockTable /\ UnsentLast /\ Positions \subseteq Nat
      /\ \A q \in Positions : Slot(q) \in Slots /\ At(q) \in BookKeeping
  BY PositionsTyped DEF SlotsInv, WindowInv, TypeInv, BookInv
<1>2. CASE DequeueLockQueue
  BY <1>2, NoSlotStep DEF DequeueLockQueue, cursors, At, Owner
<1>3. CASE AcquireCurrLock
  <2>1. /\ lock_arr[Slot(curr_pt)] = NoOne /\ lock_arr' = [lock_arr EXCEPT ![Slot(curr_pt)] = Sender]
        /\ UNCHANGED <<head_pt, tail_pt, book_keep>>
    BY <1>3 DEF AcquireCurrLock
  <2>2. \A q \in Positions : At(q)' = At(q) /\ (Owner(q)' = Owner(q) \/ (Owner(q)' = Sender /\ Owner(q) = NoOne))
    BY <1>1, <2>1 DEF At, Owner, TypeOK
  <2> QED BY <2>1, <2>2, ThreadsAssumption, NoSlotStep DEF Threads
<1>4. CASE DequeueTake
  <2>1. /\ deq_pc = "take" /\ deq_index \in Slots /\ lock_arr[deq_index] = Sender
        /\ DequeueRelease
    BY <1>1, <1>4 DEF DequeueTake, DequeueNew, DequeueRetrans, DequeueSkip, LockTable, TypeOK
  <2>2. PICK n \in Positions : deq_index = Slot(n)
    BY <1>1, <2>1, ThreadsAssumption DEF LockTable, Threads
  <2>3. /\ lock_arr' = [lock_arr EXCEPT ![Slot(n)] = NoOne]
        /\ UNCHANGED <<head_pt, tail_pt>>
        /\ Positions' = Positions
    BY <2>1, <2>2 DEF DequeueRelease, cursors, Positions
  <2>4. \A q \in Positions : Slot(q) = Slot(n) => q = n
    BY PositionsTyped DEF SlotsInv
  <2>5. /\ Owner(n) = Sender /\ Owner(n)' = NoOne
        /\ \A q \in Positions : q # n => Owner(q)' = Owner(q)
    BY <1>1, <2>1, <2>2, <2>3, <2>4 DEF Owner, TypeOK
  <2>6. /\ \A q \in Positions : q # n => At(q)' = At(q)
        /\ DequeueSkip => At(n)' = At(n)
    BY <1>1, <1>4, <2>2, <2>4
       DEF At, TypeOK, DequeueTake, DequeueNew, DequeueRetrans, DequeueSkip
  <2>7. Accepted(n) /\ Accepted(n)' /\ n \in Nat
    BY <1>1, <2>3, <2>5, ThreadsAssumption DEF Accepted, Threads
  <2>8. Shown /\ Shown' /\ NumRetrans \in Nat
    BY ShownHolds, ShownNext, BoundsAssumption
  <2>9. CASE DequeueNew
    <3>1. /\ At(n).status = "New" /\ At(n)'.status = "Outbound" /\ At(n)'.num_retrans = NumRetrans
      BY <1>1, <2>2, <2>9 DEF DequeueNew, At, TypeOK, UnsentLast, BookKeeping
    <3>2. /\ LifeAt(n) = "waiting" /\ SendsAt(n) = 0
          /\ LifeAt(n)' = "out" /\ SendsAt(n)' = 1
      BY <2>7, <2>8, <3>1 DEF Shown
    <3>3. ASSUME NEW q \in Nat, q < n PROVE SendsAt(q) > 0 \/ LifeAt(q) = "gone"
      <4>1. CASE q \in Positions
        <5>1. ~Unsent(q)
          BY <1>1, <2>5, <3>3, <4>1 DEF UnsentLast
        <5>2. Accepted(q) /\ At(q) \in BookKeeping /\ At(q).status \in {"Empty", "Outbound", "Retrans"}
          BY <1>1, <4>1, <5>1 DEF Unsent, Accepted, BookKeeping, Status
        <5>3. NumRetrans - At(q).num_retrans + 1 > 0
          BY <2>8, <5>2 DEF BookKeeping
        <5> QED BY <2>8, <5>2, <5>3 DEF Shown
      <4>2. CASE q \notin Positions
        <5>1. q < head_pt
          BY <3>3, <4>2 DEF Positions, SlotsInv, WindowInv, TypeInv, TypeOK
        <5> QED BY <2>8, <5>1 DEF Shown
      <4> QED BY <4>1, <4>2
    <3>4. SendAt(n)
      BY <2>8, <3>2, <3>3 DEF SendAt
    <3> QED BY <2>3, <2>5, <2>6, <3>4, OneSlotStep DEF StepAt
  <2>10. CASE DequeueRetrans
    <3>1. /\ At(n).status = "Retrans" /\ At(n)'.status = "Outbound"
          /\ At(n)'.num_retrans = At(n).num_retrans - 1
          /\ At(n).num_retrans \in 1 .. NumRetrans
      BY <1>1, <2>2, <2>10 DEF DequeueRetrans, At, TypeOK, PendingHasBudget, BookKeeping
    <3>2. /\ LifeAt(n) = "waiting" /\ SendsAt(n) = NumRetrans - At(n).num_retrans + 1
          /\ LifeAt(n)' = "out" /\ SendsAt(n)' = NumRetrans - At(n)'.num_retrans + 1
      BY <2>7, <2>8, <3>1 DEF Shown
    <3>3. SendAt(n)
      BY <2>8, <3>1, <3>2 DEF SendAt
    <3> QED BY <2>3, <2>5, <2>6, <3>3, OneSlotStep DEF StepAt
  <2>11. CASE DequeueSkip
    BY <2>3, <2>5, <2>6, <2>11, ThreadsAssumption, NoSlotStep DEF Threads
  <2> QED BY <1>4, <2>9, <2>10, <2>11 DEF DequeueTake
<1> QED BY <1>2, <1>3, <1>4 DEF DequeuePkt

\* An iteration of a handler that writes nothing.
LEMMA IterationMaps ==
  ASSUME SlotsInv, SlotsInv', ScanUnchanged, UNCHANGED book_keep
  PROVE  [Window!WindowNext]_<<AbstractLife, AbstractSends>>
<1>1. UNCHANGED <<head_pt, tail_pt, lock_arr>>
  BY DEF ScanUnchanged, cursors
<1> QED BY <1>1, NoSlotStep DEF At, Owner

\* An iteration that frees a packet that was sent, or an empty slot.
LEMMA FreeMaps ==
  ASSUME SlotsInv, SlotsInv', ScanUnchanged, FreeEntry, NEW n \in Positions, n = index, Owner(n) = NoOne,
         At(n).status # "New"
  PROVE  [Window!WindowNext]_<<AbstractLife, AbstractSends>>
<1>1. /\ Positions' = Positions /\ UNCHANGED <<head_pt, tail_pt>>
      /\ \A q \in Positions : Owner(q)' = Owner(q)
      /\ \A q \in Positions : q # n => At(q)' = At(q)
      /\ At(n)'.status = "Empty"
  BY IterationFrame, FreeEntryBook
<1>2. Accepted(n) /\ Accepted(n)' /\ n \in Nat /\ At(n) \in BookKeeping
  BY <1>1, ThreadsAssumption, PositionsTyped DEF Accepted, Threads, SlotsInv
<1>3. Shown /\ Shown' /\ NumRetrans \in Nat
  BY ShownHolds, ShownNext, BoundsAssumption
<1>4. LifeAt(n)' = "gone" /\ SendsAt(n)' = 0
  BY <1>1, <1>2, <1>3 DEF Shown
<1>5. SameAt(n) \/ LeaveAt(n)
  <2>1. CASE At(n).status = "Empty"
    BY <1>2, <1>3, <1>4, <2>1 DEF Shown, SameAt
  <2>2. CASE At(n).status \in {"Outbound", "Retrans"}
    <3>1. LifeAt(n) \in {"waiting", "out"} /\ SendsAt(n) = NumRetrans - At(n).num_retrans + 1
      BY <1>2, <1>3, <2>2 DEF Shown
    <3>2. SendsAt(n) > 0
      BY <1>2, <1>3, <3>1 DEF BookKeeping
    <3> QED BY <1>4, <3>1, <3>2 DEF LeaveAt
  <2> QED BY <1>2, <2>1, <2>2 DEF BookKeeping, Status
<1> QED BY <1>1, <1>5, OneSlotStep DEF StepAt

LEMMA RetransmitMaps ==
  ASSUME SlotsInv, SlotsInv', ScanUnchanged, NEW n \in Positions, n = index, Owner(n) = NoOne,
         At(n).status = "Outbound", At(n).num_retrans > 0,
         book_keep' = [book_keep EXCEPT ![AtSlot].status = "Retrans"]
  PROVE  [Window!WindowNext]_<<AbstractLife, AbstractSends>>
<1>1. /\ Positions' = Positions /\ UNCHANGED <<head_pt, tail_pt>>
      /\ \A q \in Positions : Slot(q) \in Slots /\ Owner(q)' = Owner(q) /\ (q = n \/ Slot(q) # Slot(n))
      /\ TypeOK
  BY IterationFrame DEF SlotsInv, WindowInv, TypeInv
<1>2. /\ \A q \in Positions : q # n => At(q)' = At(q)
      /\ At(n)'.status = "Retrans" /\ At(n)'.num_retrans = At(n).num_retrans
  BY <1>1 DEF At, AtSlot, TypeOK, BookKeeping
<1>3. Accepted(n) /\ Accepted(n)' /\ n \in Nat /\ At(n) \in BookKeeping
  BY <1>1, ThreadsAssumption, PositionsTyped DEF Accepted, Threads, SlotsInv
<1>4. Shown /\ Shown' /\ NumRetrans \in Nat
  BY ShownHolds, ShownNext, BoundsAssumption
<1>5. /\ LifeAt(n) = "out" /\ LifeAt(n)' = "waiting"
      /\ SendsAt(n) = NumRetrans - At(n).num_retrans + 1 /\ SendsAt(n)' = SendsAt(n)
  BY <1>2, <1>3, <1>4 DEF Shown
<1>6. MissAckAt(n)
  BY <1>3, <1>4, <1>5 DEF MissAckAt, BookKeeping
<1> QED BY <1>1, <1>2, <1>6, OneSlotStep DEF StepAt

\* head_pt_ moves over positions whose packets are gone.
LEMMA StoreCursorsMaps ==
  ASSUME SlotsInv, SlotsInv', InHandler, StoreCursors,
         \A q \in head_pt .. head_pt_final - 1 : Owner(q) = NoOne /\ At(q).status = "Empty"
  PROVE  [Window!WindowNext]_<<AbstractLife, AbstractSends>>
<1>1. /\ head_pt \in Nat /\ head_pt_final \in Nat /\ tail_pt \in Nat /\ head_pt <= head_pt_final
      /\ head_pt_final <= tail_pt
  <2>1. head_pt' <= tail_pt' /\ head_pt' = Larger(head_pt, head_pt_final) /\ tail_pt' = tail_pt
    BY DEF StoreCursors, SlotsInv, WindowInv, WindowOrder, TypeInv, TypeOK
  <2> QED BY <2>1 DEF SlotsInv, WindowInv, TypeInv, TypeOK, ScanInWindow, Larger
<1>2. head_pt' = head_pt_final /\ UNCHANGED <<tail_pt, book_keep, lock_arr>>
  BY <1>1 DEF StoreCursors, Larger
<1>3. \A q \in Nat : At(q)' = At(q) /\ Owner(q)' = Owner(q) /\ At(q) \in BookKeeping
  BY <1>2, PositionsTyped DEF At, Owner, SlotsInv
<1>4. Shown /\ Shown'
  BY ShownHolds, ShownNext
<1>5. ASSUME NEW q \in Nat PROVE SameAt(q)
  <2>1. CASE q < head_pt
    BY <1>1, <1>2, <1>4, <2>1 DEF Shown, SameAt
  <2>2. CASE head_pt <= q /\ q < head_pt_final
    <3>1. Owner(q) = NoOne /\ At(q).status = "Empty" /\ q \in Positions
      BY <1>1, <2>2 DEF Positions
    <3>2. Accepted(q)
      BY <3>1, ThreadsAssumption DEF Accepted, Threads
    <3> QED BY <1>2, <1>4, <2>2, <3>1, <3>2 DEF Shown, SameAt
  <2>3. CASE head_pt_final <= q
    <3>1. Accepted(q)' <=> Accepted(q)
      BY <1>1, <1>2, <1>3, <2>3 DEF Accepted, Positions
    <3>2. q >= head_pt /\ q >= head_pt'
      BY <1>1, <1>2, <2>3
    <3>3. At(q)' = At(q) /\ At(q).status \in Status
      BY <1>3 DEF BookKeeping
    <3>4. CASE ~Accepted(q)
      BY <1>4, <3>1, <3>2, <3>4 DEF Shown, SameAt
    <3>5. CASE Accepted(q)
      BY <1>4, <3>1, <3>3, <3>5 DEF Shown, SameAt, Status
    <3> QED BY <3>4, <3>5
  <2> QED BY <1>1, <2>1, <2>2, <2>3
<1> QED BY <1>5, NothingShown

LEMMA HandlerStartMaps ==
  ASSUME SlotsInv, SlotsInv', UNCHANGED <<cursors, book_keep, lock_arr>>
  PROVE  [Window!WindowNext]_<<AbstractLife, AbstractSends>>
BY NoSlotStep DEF cursors, At, Owner

LEMMA HandleDataAckMaps ==
  ASSUME SlotsInv, SlotsInv', HandleDataAck
  PROVE  [Window!WindowNext]_<<AbstractLife, AbstractSends>>
<1>1. CASE AckArrives
  <2>1. UNCHANGED <<cursors, book_keep, lock_arr>>
    <3>1. \A a \in 1 .. MaxAckSeq : HandlePoke(a) => UNCHANGED <<cursors, book_keep, lock_arr>>
      BY DEF HandlePoke
    <3>2. \A a \in 1 .. MaxAckSeq, end \in 1 .. highest_sent :
            HandleDupAck(a, end) => UNCHANGED <<cursors, book_keep, lock_arr>>
      BY DEF HandleDupAck
    <3>3. \A a \in 1 .. MaxAckSeq, end \in 1 .. highest_sent, late \in SUBSET Slots :
            \A nacks \in SUBSET (1 .. end) :
              HandleNewAck(a, end, nacks, late) => UNCHANGED <<cursors, book_keep, lock_arr>>
      BY DEF HandleNewAck
    <3> QED BY <1>1, <3>1, <3>2, <3>3 DEF AckArrives
  <2> QED BY <2>1, HandlerStartMaps
<1>2. CASE AckStep /\ ~AckFinish
  <2>1. /\ ack_pc = "ack" /\ ScanUnchanged
        /\ index < scan_from \/ index < end_seq
        /\ lock_arr[AtSlot] = NoOne
    BY <1>2 DEF AckStep, AckFreeBlock, AckGiveUp, AckRetransmit, AckTooEarly, AckStillPending,
                AckReceived, AckSkipEmpty, AckScanning
  <2>2. PICK n \in Positions : n = index
    BY <2>1, AckPosition
  <2>3. Owner(n) = NoOne /\ Entry = At(n) /\ Slot(n) \in Slots /\ n \in Nat
    BY <2>1, <2>2, AckPosition, PositionsTyped DEF SlotsInv
  <2>4. At(n).status # "New"
    <3>1. n < end_seq /\ end_seq <= highest_sent /\ UnsentLast /\ TypeOK
      BY <2>1, <2>2 DEF SlotsInv, WindowInv, TypeInv, TypeOK, BookInv, ScanInv, AckScan, ScanInWindow
    <3> QED BY <2>3, <3>1 DEF UnsentLast, Unsent, TypeOK
  <2>5. CASE AckFreeBlock \/ AckGiveUp \/ AckReceived
    BY <2>1, <2>2, <2>3, <2>4, <2>5, FreeMaps DEF AckFreeBlock, AckGiveUp, AckReceived
  <2>6. CASE AckRetransmit
    BY <2>1, <2>2, <2>3, <2>6, RetransmitMaps DEF AckRetransmit
  <2>7. CASE AckTooEarly \/ AckStillPending \/ AckSkipEmpty
    BY <2>1, <2>7, IterationMaps DEF AckTooEarly, AckStillPending, AckSkipEmpty
  <2> QED BY <1>2, <2>5, <2>6, <2>7 DEF AckStep
<1>3. CASE AckFinish
  <2>1. InHandler /\ \A q \in head_pt .. head_pt_final - 1 : Owner(q) = NoOne /\ At(q).status = "Empty"
    BY <1>3, AckFinishPassed DEF AckFinish, InHandler
  <2> QED BY <1>3, <2>1, StoreCursorsMaps DEF AckFinish
<1> QED BY <1>1, <1>2, <1>3 DEF HandleDataAck

LEMMA HandleTimeOutMaps ==
  ASSUME SlotsInv, SlotsInv', HandleTimeOut
  PROVE  [Window!WindowNext]_<<AbstractLife, AbstractSends>>
<1>1. CASE \E late \in SUBSET Slots : TimeOutStart(late)
  <2>1. UNCHANGED <<cursors, book_keep, lock_arr>>
    BY <1>1 DEF TimeOutStart
  <2> QED BY <2>1, HandlerStartMaps
<1>2. CASE TimeOutStep /\ ~TimeOutFinish
  <2>1. TimeOutScanning /\ ScanUnchanged
    BY <1>2 DEF TimeOutStep, TimeOutPending, TimeOutDrop, TimeOutRetransmit, TimeOutKeep, TimeOutEmpty, TimeOutBreak
  <2>2. PICK n \in Positions : n = index
    BY <2>1, TimeOutPosition
  <2>3. Owner(n) = NoOne /\ Entry = At(n)
    BY <2>1, <2>2, TimeOutPosition
  <2>4. CASE TimeOutDrop
    BY <2>1, <2>2, <2>3, <2>4, FreeMaps DEF TimeOutDrop
  <2>5. CASE TimeOutRetransmit
    BY <2>1, <2>2, <2>3, <2>5, RetransmitMaps DEF TimeOutRetransmit
  <2>6. CASE TimeOutPending \/ TimeOutKeep \/ TimeOutEmpty \/ TimeOutBreak
    BY <2>1, <2>6, IterationMaps DEF TimeOutPending, TimeOutKeep, TimeOutEmpty, TimeOutBreak
  <2> QED BY <1>2, <2>4, <2>5, <2>6 DEF TimeOutStep
<1>3. CASE TimeOutFinish
  <2>1. InHandler /\ StoreCursors /\ \A q \in head_pt .. head_pt_final - 1 : Owner(q) = NoOne /\ At(q).status = "Empty"
    BY <1>3 DEF TimeOutFinish, InHandler, SlotsInv, ScanInv, TimeOutScan
  <2> QED BY <2>1, StoreCursorsMaps
<1> QED BY <1>1, <1>2, <1>3 DEF HandleTimeOut, TimeOutStep

-----------------------------------------------------------------------------
(* The theorem.                                                            *)

LEMMA InitMaps == Init => Window!WindowInit
<1> SUFFICES ASSUME Init PROVE Window!WindowInit
  OBVIOUS
<1>1. Shown /\ head_pt = 0 /\ tail_pt = 0
  BY InitSlotsInv, ShownHolds DEF Init
<1>2. \A n \in 1 .. MaxEnq : n - 1 \in Nat /\ ~Accepted(n - 1)
  BY <1>1, BoundsAssumption DEF Accepted, Positions
<1>3. \A n \in 1 .. MaxEnq : LifeAt(n - 1) = "none" /\ SendsAt(n - 1) = 0
  BY <1>1, <1>2 DEF Shown
<1> QED BY <1>3 DEF Window!WindowInit, Window!Packets

LEMMA NextMaps ==
  SlotsInv /\ SlotsInv' /\ [Next]_vars => [Window!WindowNext]_<<AbstractLife, AbstractSends>>
<1> SUFFICES ASSUME SlotsInv, SlotsInv', [Next]_vars
             PROVE  [Window!WindowNext]_<<AbstractLife, AbstractSends>>
  OBVIOUS
<1>1. CASE UNCHANGED vars
  BY <1>1, HandlerStartMaps DEF vars
<1> QED BY <1>1, EnqueueMaps, DequeueMaps, HandleDataAckMaps, HandleTimeOutMaps DEF Next

\* Every run of the threads on the ring buffer is a run of SendWindow: packets
\* are accepted into a bounded window, sent for the first time in order, sent
\* at most num_retrans_ + 1 times and leave only after they were sent.
THEOREM WindowImplemented == Spec => ImplementsSendWindow
<1>1. SlotsInv /\ SlotsInv' /\ [Next]_vars =>
        [Window!WindowNext]_<<[n \in 1 .. MaxEnq |-> LifeAt(n - 1)], [n \in 1 .. MaxEnq |-> SendsAt(n - 1)]>>
  BY NextMaps DEF AbstractLife, AbstractSends
<1> QED BY <1>1, InitMaps, SlotsInvHolds, PTL DEF Spec, ImplementsSendWindow, Window!WindowSpec

-----------------------------------------------------------------------------
(* What the window promises, and so the ring buffer.                       *)

WindowTypes == /\ AbstractLife \in [1 .. MaxEnq -> Window!Life]
               /\ AbstractSends \in [1 .. MaxEnq -> 0 .. NumRetrans + 1]
WindowIInv == WindowTypes /\ Window!InWindow /\ Window!InTurn

LEMMA WindowInitSafe == Window!WindowInit => WindowIInv
<1> SUFFICES ASSUME Window!WindowInit PROVE WindowIInv
  OBVIOUS
<1>1. \A n \in 1 .. MaxEnq : AbstractLife[n] = "none" /\ AbstractSends[n] = 0
  BY DEF Window!WindowInit, Window!Packets, AbstractLife, AbstractSends
<1>2. 0 \in 0 .. NumRetrans + 1
  BY BoundsAssumption
<1>3. WindowTypes
  BY <1>1, <1>2 DEF WindowTypes, Window!Life, AbstractLife, AbstractSends
<1>4. Window!InWindow /\ Window!InTurn
  BY <1>1 DEF Window!InWindow, Window!InTurn, Window!Packets, AbstractLife, AbstractSends
<1> QED BY <1>3, <1>4 DEF WindowIInv

LEMMA WindowNextSafe ==
  WindowIInv /\ [Window!WindowNext]_<<AbstractLife, AbstractSends>> =>
    WindowIInv' /\ (Window!Onward \/ UNCHANGED <<AbstractLife, AbstractSends>>)
<1> DEFINE life == AbstractLife
           sends == AbstractSends
           lifeN == AbstractLife'
           sendsN == AbstractSends'
           N == 1 .. MaxEnq
<1> SUFFICES ASSUME WindowIInv, [Window!WindowNext]_<<AbstractLife, AbstractSends>>
             PROVE  WindowIInv' /\ (Window!Onward \/ UNCHANGED <<AbstractLife, AbstractSends>>)
  OBVIOUS
<1>1. /\ life \in [N -> Window!Life] /\ sends \in [N -> 0 .. NumRetrans + 1]
      /\ \A n, m \in N : life[n] # "none" /\ m <= n - BufSize => life[m] = "gone"
      /\ \A n, m \in N : m < n /\ (sends[n] > 0 \/ life[n] = "gone") => sends[m] > 0 \/ life[m] = "gone"
  BY DEF WindowIInv, WindowTypes, Window!InWindow, Window!InTurn, Window!Packets, AbstractLife, AbstractSends
<1>2. WindowIInv' <=>
      /\ lifeN \in [N -> Window!Life] /\ sendsN \in [N -> 0 .. NumRetrans + 1]
      /\ \A n, m \in N : lifeN[n] # "none" /\ m <= n - BufSize => lifeN[m] = "gone"
      /\ \A n, m \in N : m < n /\ (sendsN[n] > 0 \/ lifeN[n] = "gone") => sendsN[m] > 0 \/ lifeN[m] = "gone"
  BY DEF WindowIInv, WindowTypes, Window!InWindow, Window!InTurn, Window!Packets, Window!Life, AbstractLife, AbstractSends
<1>3. Window!Onward <=>
        \A n \in N : /\ life[n] = "gone" => lifeN[n] = "gone"
                     /\ sendsN[n] < sends[n] => lifeN[n] = "gone"
                     /\ life[n] # "none" => lifeN[n] # "none"
  BY DEF Window!Onward, Window!Packets, AbstractLife, AbstractSends
<1>4. NumRetrans \in Nat /\ MaxEnq \in Nat /\ BufSize \in Int
  BY BoundsAssumption, BufSizeAssumption
<1>5. CASE UNCHANGED <<AbstractLife, AbstractSends>>
  BY <1>1, <1>2, <1>5
<1>6. ASSUME NEW n \in N, Window!Accept(n) PROVE WindowIInv' /\ Window!Onward
  <2>1. /\ life[n] = "none" /\ lifeN = [life EXCEPT ![n] = "waiting"] /\ sendsN = sends
        /\ \A m \in N : m <= n - BufSize => life[m] = "gone"
    BY <1>6 DEF Window!Accept, Window!Packets, AbstractLife, AbstractSends
  <2> HIDE DEF life, sends, lifeN, sendsN
  <2> QED BY <1>1, <1>2, <1>3, <1>4, <2>1 DEF Window!Life
<1>7. ASSUME NEW n \in N, Window!Send(n) PROVE WindowIInv' /\ Window!Onward
  <2>1. /\ life[n] = "waiting" /\ sends[n] <= NumRetrans
        /\ lifeN = [life EXCEPT ![n] = "out"] /\ sendsN = [sends EXCEPT ![n] = @ + 1]
        /\ sends[n] = 0 => \A m \in N : m < n => sends[m] > 0 \/ life[m] = "gone"
    BY <1>7 DEF Window!Send, Window!Packets, AbstractLife, AbstractSends
  <2> HIDE DEF life, sends, lifeN, sendsN
  <2> QED BY <1>1, <1>2, <1>3, <1>4, <2>1 DEF Window!Life
<1>8. ASSUME NEW n \in N, Window!MissAck(n) PROVE WindowIInv' /\ Window!Onward
  <2>1. life[n] = "out" /\ lifeN = [life EXCEPT ![n] = "waiting"] /\ sendsN = sends
    BY <1>8 DEF Window!MissAck, AbstractLife, AbstractSends
  <2> HIDE DEF life, sends, lifeN, sendsN
  <2> QED BY <1>1, <1>2, <1>3, <1>4, <2>1 DEF Window!Life
<1>9. ASSUME NEW n \in N, Window!Leave(n) PROVE WindowIInv' /\ Window!Onward
  <2>1. /\ life[n] \in {"waiting", "out"} /\ sends[n] > 0
        /\ lifeN = [life EXCEPT ![n] = "gone"] /\ sendsN = [sends EXCEPT ![n] = 0]
    BY <1>9 DEF Window!Leave, AbstractLife, AbstractSends
  <2> HIDE DEF life, sends, lifeN, sendsN
  <2> QED BY <1>1, <1>2, <1>3, <1>4, <2>1 DEF Window!Life
<1> QED BY <1>5, <1>6, <1>7, <1>8, <1>9 DEF Window!WindowNext, Window!Packets

LEMMA WindowNextHolds == Spec => []WindowIInv /\ [][Window!WindowNext]_<<AbstractLife, AbstractSends>>
<1>1. Init => WindowIInv
  BY InitMaps, WindowInitSafe
<1>2. SlotsInv /\ SlotsInv' /\ [Next]_vars /\ WindowIInv => WindowIInv'
  BY NextMaps, WindowNextSafe
<1> QED BY <1>1, <1>2, NextMaps, SlotsInvHolds, PTL DEF Spec

\* With any number of producers, whatever the handlers free: the packets in the
\* buffer are less than BUF_SIZE apart, so that the ring never laps; a packet
\* was sent, or is gone, only if every earlier one was; and none is sent more
\* than num_retrans_ + 1 times.
THEOREM WindowIsSafe == Spec => []Window!WindowSafe
<1>1. WindowIInv => Window!WindowSafe
  <2> SUFFICES ASSUME WindowIInv PROVE Window!InBudget
    BY DEF WindowIInv, Window!WindowSafe
  <2> SUFFICES ASSUME NEW n \in 1 .. MaxEnq PROVE AbstractSends[n] <= NumRetrans + 1
    BY DEF Window!InBudget, Window!Packets, AbstractSends
  <2>1. AbstractSends[n] \in 0 .. NumRetrans + 1
    BY DEF WindowIInv, WindowTypes
  <2> QED BY <2>1
<1> QED BY <1>1, WindowNextHolds, PTL

\* A packet that was acknowledged or given up never comes back, whichever thread
\* reuses its slot; what was accepted leaves only by being gone, and its
\* transmissions are never forgotten before.
THEOREM GoneForGood == Spec => Window!WindowOnward
<1>1. WindowIInv /\ [Window!WindowNext]_<<AbstractLife, AbstractSends>> =>
        [Window!Onward]_<<[n \in 1 .. MaxEnq |-> LifeAt(n - 1)], [n \in 1 .. MaxEnq |-> SendsAt(n - 1)]>>
  BY WindowNextSafe DEF AbstractLife, AbstractSends
<1> QED BY <1>1, WindowNextHolds, PTL DEF Window!WindowOnward

-----------------------------------------------------------------------------
(***************************************************************************)
(* What TxDataBuf guarantees when one thread enqueues, as for a client     *)
(* that is not probed: SingleProducer is a hypothesis of the theorems      *)
(* here, and all of them are false for two producers.                      *)
(***************************************************************************)

SingleProducer == \A p, q \in Producers : p = q

-----------------------------------------------------------------------------
(* The invariant.                                                          *)

\* A packet carries the sequence number of its position, from the moment its
\* producer reads the tail.
SeqExact ==
  /\ \A q \in Positions : At(q).status # "Empty" => At(q).seq_num = q + 1
  /\ \A p \in Producers : enq_pc[p] \in {"lock", "acquire"} => enq_seq[p] = tail_pt + 1
  /\ \A p \in Producers, q \in Positions : Owner(q) = p => enq_seq[p] = q + 1

\* Exactly the positions before highest_sent were sent.
SentPrefix ==
  /\ head_pt <= highest_sent
  /\ \A q \in Positions : highest_sent <= q => Unsent(q)

\* The nacks that are left are those the walk over the slots has not reached,
\* and no nack is skipped on the way to scan_from.
NackWalk ==
  ack_pc = "ack" =>
    /\ nack_set \subseteq 1 .. end_seq
    /\ nacks_left = {x \in nack_set : x > Larger(index, scan_from)}
    /\ \A x \in nack_set : x <= scan_from => x <= head_pt

WalkInv == SeqExact /\ SentPrefix /\ NackWalk

LEMMA InitWalkInv == Init => WalkInv
<1> SUFFICES ASSUME Init PROVE WalkInv
  OBVIOUS
<1>1. Positions = {} /\ head_pt <= highest_sent
  BY DEF Init, Positions
<1>2. SeqExact
  BY <1>1 DEF Init, SeqExact
<1> QED BY <1>1, <1>2 DEF Init, WalkInv, SentPrefix, NackWalk

\* A step that leaves the window and what its slots carry alone.
LEMMA WalkUntouched ==
  ASSUME SlotsInv, WalkInv,
         UNCHANGED <<head_pt, tail_pt, enq_pc, enq_seq, highest_sent, ack_pc, index, nackVars>>,
         \A q \in Positions : /\ At(q)'.status = At(q).status
                              /\ At(q)'.seq_num = At(q).seq_num
                              /\ Owner(q)' \in Producers \/ Owner(q) \in Producers => Owner(q)' = Owner(q)
  PROVE  WalkInv'
<1>1. Positions' = Positions
  BY DEF Positions
<1>2. SeqExact'
  BY <1>1 DEF WalkInv, SeqExact
<1>3. SentPrefix'
  BY <1>1 DEF WalkInv, SentPrefix, Unsent
<1>4. NackWalk'
  BY DEF WalkInv, NackWalk, nackVars
<1> QED BY <1>2, <1>3, <1>4 DEF WalkInv

-----------------------------------------------------------------------------
(* EnqueuePkt.                                                             *)

LEMMA EnqueueWalkInv ==
  ASSUME SingleProducer, SlotsInv, WalkInv, NEW p \in Producers, EnqueuePkt(p)
  PROVE  WalkInv'
<1>1. /\ TypeOK /\ LockTable /\ LockOwners /\ SeqExact /\ SentPrefix /\ NackWalk
      /\ head_pt \in Nat /\ tail_pt \in Nat /\ Positions \subseteq Nat
      /\ \A q \in Positions : Slot(q) \in Slots
  BY PositionsTyped DEF SlotsInv, WindowInv, TypeInv, BookInv, WalkInv
<1>2. CASE EnqueueReadTail(p) \/ EnqueueLockQueue(p) \/ EnqueueDrop(p)
  <2>1. /\ UNCHANGED <<cursors, book_keep, lock_arr, highest_sent, ack_pc, index, nackVars>>
        /\ enq_pc' = [enq_pc EXCEPT ![p] = enq_pc'[p]]
        /\ enq_seq' = [enq_seq EXCEPT ![p] = enq_seq'[p]]
        /\ enq_pc[p] # "store" /\ enq_pc'[p] # "store"
        /\ enq_pc'[p] \in {"lock", "acquire"} => enq_seq'[p] = tail_pt + 1
    BY <1>1, <1>2 DEF EnqueueReadTail, EnqueueLockQueue, EnqueueDrop, SeqExact, deqVars, ackVars, scanVars, TypeOK
  <2>2. Positions' = Positions /\ \A q \in Positions : At(q)' = At(q) /\ Owner(q)' = Owner(q) /\ Owner(q) # p
    BY <1>1, <2>1 DEF Positions, At, Owner, LockTable, cursors
  <2>3. SeqExact'
    BY <1>1, <2>1, <2>2 DEF SeqExact, cursors, TypeOK
  <2>4. SentPrefix' /\ NackWalk'
    BY <1>1, <2>1, <2>2 DEF SentPrefix, NackWalk, Unsent, cursors, nackVars
  <2> QED BY <2>3, <2>4 DEF WalkInv
<1>3. CASE AcquireTailLock(p)
  <2>1. /\ lock_arr' = [lock_arr EXCEPT ![Slot(tail_pt)] = p] /\ tail_pt' = tail_pt + 1
        /\ enq_pc[p] = "acquire" /\ enq_pc' = [enq_pc EXCEPT ![p] = "store"]
        /\ UNCHANGED <<head_pt, book_keep, enq_seq, highest_sent, ack_pc>>
        /\ tail_pt < head_pt + BufSize /\ head_pt <= tail_pt
    BY <1>1, <1>3, BufSizeAssumption
       DEF AcquireTailLock, IsFull, TypeOK, SlotsInv, WindowInv, WindowOrder, deqVars, ackVars
  <2>2. /\ Positions' = Positions \cup {tail_pt}
        /\ \A q \in Positions : At(q)' = At(q) /\ Owner(q)' = Owner(q)
        /\ Slot(tail_pt) \in Slots /\ lock_arr'[Slot(tail_pt)] = p
    BY <1>1, <2>1, PositionsTyped DEF SlotsInv, Positions, At, Owner, TypeOK
  <2>3. book_keep'[Slot(tail_pt)].status = "Empty"
    BY <2>1, <2>2, PositionsTyped DEF SlotsInv, BookInv, SlotsOutside
  <2>4. \A r \in Producers : r = p
    BY DEF SingleProducer
  <2>5. \A q \in Positions' : At(q)'.status # "Empty" => At(q)'.seq_num = q + 1
    BY <1>1, <2>2, <2>3 DEF SeqExact, At
  <2>6. \A r \in Producers : enq_pc'[r] \notin {"lock", "acquire"}
    BY <1>1, <2>1, <2>4 DEF TypeOK
  <2>7. \A r \in Producers, q \in Positions' : Owner(q)' = r => enq_seq'[r] = q + 1
    BY <1>1, <2>1, <2>2, <2>4 DEF SeqExact
  <2>8. SeqExact'
    BY <2>5, <2>6, <2>7 DEF SeqExact
  <2>9. SentPrefix'
    BY <1>1, <2>1, <2>2 DEF SentPrefix, Unsent, Owner
  <2>10. NackWalk'
    BY <1>1, <2>1, ThreadsAssumption DEF NackWalk, LockOwners, InHandler
  <2> QED BY <2>8, <2>9, <2>10 DEF WalkInv
<1>4. CASE EnqueueStore(p)
  <2>1. lock_arr[enq_index[p]] = p /\ enq_index[p] \in Slots
    BY <1>1, <1>4 DEF EnqueueStore, LockTable, TypeOK
  <2>2. PICK n \in Positions : enq_index[p] = Slot(n)
    BY <1>1, <2>1, ThreadsAssumption DEF LockTable, Threads
  <2>3. /\ book_keep' = [book_keep EXCEPT ![Slot(n)] =
                           [seq_num |-> enq_seq[p], status |-> "New", num_retrans |-> NumRetrans]]
        /\ lock_arr' = [lock_arr EXCEPT ![Slot(n)] = NoOne]
        /\ enq_pc' = [enq_pc EXCEPT ![p] = "idle"]
        /\ UNCHANGED <<head_pt, tail_pt, enq_seq, highest_sent, ack_pc, index, nackVars>>
    BY <1>4, <2>2 DEF EnqueueStore, cursors, deqVars, ackVars, scanVars
  <2>4. Positions' = Positions /\ \A q \in Positions : Slot(q) = Slot(n) => q = n
    BY <2>3, PositionsTyped DEF SlotsInv, Positions
  <2>5. /\ At(n)' = [seq_num |-> enq_seq[p], status |-> "New", num_retrans |-> NumRetrans]
        /\ Owner(n)' = NoOne /\ Owner(n) = p /\ enq_seq[p] = n + 1
        /\ \A q \in Positions : q # n => At(q)' = At(q) /\ Owner(q)' = Owner(q)
    BY <1>1, <2>1, <2>2, <2>3, <2>4 DEF At, Owner, TypeOK, SeqExact
  <2>6. SeqExact'
    BY <1>1, <2>3, <2>4, <2>5, ThreadsAssumption DEF SeqExact, TypeOK, Threads
  <2>7. SentPrefix'
    BY <1>1, <2>3, <2>4, <2>5 DEF SentPrefix, Unsent
  <2>8. NackWalk'
    BY <1>1, <2>3 DEF NackWalk, nackVars
  <2> QED BY <2>6, <2>7, <2>8 DEF WalkInv
<1> QED BY <1>2, <1>3, <1>4 DEF EnqueuePkt

-----------------------------------------------------------------------------
(* DequeuePkt.                                                             *)

\* The slot the sender has locked is that of one position.
LEMMA SenderPosition ==
  ASSUME SlotsInv, deq_pc = "take"
  PROVE  \E n \in Positions : /\ deq_index = Slot(n) /\ Owner(n) = Sender
                              /\ \A q \in Positions : Slot(q) = Slot(n) => q = n
<1>1. TypeOK /\ LockTable
  BY DEF SlotsInv, WindowInv, TypeInv, BookInv
<1>2. deq_index \in Slots /\ lock_arr[deq_index] = Sender
  BY <1>1 DEF TypeOK, LockTable
<1>3. PICK n \in Positions : deq_index = Slot(n)
  BY <1>1, <1>2, ThreadsAssumption DEF LockTable, Threads
<1>4. Owner(n) = Sender
  BY <1>2, <1>3 DEF Owner
<1> QED BY <1>3, <1>4, PositionsTyped DEF SlotsInv

\* A packet sent for the first time is the one after highest_sent.
LEMMA FirstSentNext ==
  ASSUME SlotsInv, WalkInv, deq_pc = "take", NEW n \in Positions,
         deq_index = Slot(n), Owner(n) = Sender, At(n).status = "New"
  PROVE  highest_sent = n /\ At(n).seq_num = n + 1
<1>1. /\ UnsentLast /\ SentPrefix /\ SeqExact /\ highest_sent \in Nat /\ Positions \subseteq Nat
      /\ head_pt \in Nat /\ tail_pt \in Nat
  BY PositionsTyped DEF SlotsInv, BookInv, WalkInv
<1>2. highest_sent <= n
  BY <1>1 DEF UnsentLast, Unsent
<1>3. ASSUME highest_sent < n PROVE FALSE
  <2>1. highest_sent \in Positions
    BY <1>1, <1>3 DEF Positions, SentPrefix
  <2>2. PICK h \in Positions : h = highest_sent
    BY <2>1
  <2>3. Unsent(h)
    BY <1>1, <2>2 DEF SentPrefix
  <2> QED BY <1>1, <1>3, <2>2, <2>3 DEF UnsentLast
<1> QED BY <1>1, <1>2, <1>3 DEF SeqExact

LEMMA DequeueWalkInv ==
  ASSUME SlotsInv, WalkInv, DequeuePkt
  PROVE  WalkInv'
<1>1. /\ TypeOK /\ SeqExact /\ SentPrefix /\ NackWalk /\ Positions \subseteq Nat /\ highest_sent \in Nat
      /\ \A q \in Positions : Slot(q) \in Slots
  BY PositionsTyped DEF SlotsInv, WindowInv, TypeInv, WalkInv
<1>2. CASE DequeueLockQueue
  BY <1>2, WalkUntouched DEF DequeueLockQueue, cursors, enqVars, ackVars, scanVars, At, Owner
<1>3. CASE AcquireCurrLock
  <2>1. /\ lock_arr[Slot(curr_pt)] = NoOne /\ lock_arr' = [lock_arr EXCEPT ![Slot(curr_pt)] = Sender]
        /\ UNCHANGED <<head_pt, tail_pt, book_keep, enq_pc, enq_seq, highest_sent, ack_pc, index, nackVars>>
    BY <1>3 DEF AcquireCurrLock, enqVars, ackVars, scanVars
  <2>2. \A q \in Positions : At(q)' = At(q) /\ (Owner(q)' = Owner(q) \/ (Owner(q)' = Sender /\ Owner(q) = NoOne))
    BY <1>1, <2>1 DEF At, Owner, TypeOK
  <2> QED BY <2>1, <2>2, ThreadsAssumption, WalkUntouched DEF Threads
<1>4. CASE DequeueTake
  <2>1. deq_pc = "take" /\ DequeueRelease
    BY <1>4 DEF DequeueTake, DequeueNew, DequeueRetrans, DequeueSkip
  <2>2. PICK n \in Positions : /\ deq_index = Slot(n) /\ Owner(n) = Sender
                               /\ \A q \in Positions : Slot(q) = Slot(n) => q = n
    BY <2>1, SenderPosition
  <2>3. /\ lock_arr' = [lock_arr EXCEPT ![Slot(n)] = NoOne] /\ Positions' = Positions
        /\ UNCHANGED <<head_pt, tail_pt, enq_pc, enq_seq, ack_pc, index, nackVars>>
    BY <2>1, <2>2 DEF DequeueRelease, cursors, Positions, enqVars, scanVars
  <2>4. /\ Owner(n)' = NoOne
        /\ \A q \in Positions : q # n => At(q)' = At(q) /\ Owner(q)' = Owner(q)
        /\ At(n)'.seq_num = At(n).seq_num
        /\ At(n).status = "Empty" => At(n)'.status = "Empty"
    BY <1>1, <1>4, <2>2, <2>3
       DEF At, Owner, TypeOK, BookKeeping, DequeueTake, DequeueNew, DequeueRetrans, DequeueSkip
  <2>5. SeqExact'
    <3>1. ASSUME NEW q \in Positions, At(q)'.status # "Empty" PROVE At(q)'.seq_num = q + 1
      <4>1. At(q).status # "Empty" /\ At(q)'.seq_num = At(q).seq_num
        BY <2>4, <3>1
      <4> QED BY <1>1, <4>1 DEF SeqExact
    <3>2. \A p \in Producers, q \in Positions : Owner(q)' = p => enq_seq[p] = q + 1
      BY <1>1, <2>4, ThreadsAssumption DEF SeqExact, Threads
    <3> QED BY <1>1, <2>3, <3>1, <3>2 DEF SeqExact
  <2>6. NackWalk'
    BY <1>1, <2>3 DEF NackWalk, nackVars
  <2>7. CASE DequeueNew
    <3>1. highest_sent = n /\ highest_sent' = n + 1
      BY <1>1, <2>1, <2>2, <2>7, FirstSentNext DEF DequeueNew, At, Larger
    <3>2. \A q \in Positions : highest_sent' <= q => Unsent(q)'
      BY <1>1, <2>4, <3>1 DEF SentPrefix, Unsent
    <3>3. head_pt' <= highest_sent'
      BY <1>1, <2>3, <3>1 DEF SentPrefix, TypeOK
    <3>4. SentPrefix'
      BY <2>3, <3>2, <3>3 DEF SentPrefix
    <3> QED BY <2>5, <2>6, <3>4 DEF WalkInv
  <2>8. CASE DequeueRetrans \/ DequeueSkip
    <3>1. highest_sent' = highest_sent /\ ~Unsent(n)
      BY <2>2, <2>8, ThreadsAssumption DEF DequeueRetrans, DequeueSkip, Unsent, At
    <3>2. SentPrefix'
      BY <1>1, <2>3, <2>4, <3>1 DEF SentPrefix, Unsent
    <3> QED BY <2>5, <2>6, <3>2 DEF WalkInv
  <2> QED BY <1>4, <2>7, <2>8 DEF DequeueTake
<1> QED BY <1>2, <1>3, <1>4 DEF DequeuePkt

-----------------------------------------------------------------------------
(* The iterations of the handlers.                                         *)

\* An iteration changes the slot of a packet that was sent, if any.
LEMMA IterationWalkInv ==
  ASSUME SlotsInv, WalkInv, ScanUnchanged, NEW n \in Positions, Owner(n) = NoOne,
         \A q \in Positions : q # n => At(q)' = At(q),
         \/ At(n)' = At(n)
         \/ /\ At(n).status # "New"
            /\ At(n)'.status # "Empty" => At(n).status # "Empty" /\ At(n)'.seq_num = At(n).seq_num,
         NackWalk'
  PROVE  WalkInv'
<1>1. /\ SeqExact /\ SentPrefix /\ Positions' = Positions
      /\ UNCHANGED <<head_pt, tail_pt, lock_arr, enq_pc, enq_seq, highest_sent>>
      /\ \A q \in Positions : Owner(q)' = Owner(q)
  BY IterationFrame DEF WalkInv
<1>2. SeqExact'
  <2>1. \A q \in Positions : At(q)'.status # "Empty" => At(q)'.seq_num = q + 1
    BY <1>1 DEF SeqExact
  <2> QED BY <1>1, <2>1 DEF SeqExact
<1>3. SentPrefix'
  <2>1. \A q \in Positions : Unsent(q) => Unsent(q)'
    BY <1>1, ThreadsAssumption DEF Unsent, Threads
  <2> QED BY <1>1, <2>1 DEF SentPrefix
<1> QED BY <1>2, <1>3 DEF WalkInv

\* What FreeEntry and a retransmission do to the slot they write.
LEMMA EntryWritten ==
  ASSUME SlotsInv, ScanUnchanged, NEW n \in Positions, n = index,
         \/ FreeEntry
         \/ book_keep' = [book_keep EXCEPT ![AtSlot].status = "Retrans"]
         \/ UNCHANGED book_keep
  PROVE  /\ \A q \in Positions : q # n => At(q)' = At(q)
         /\ FreeEntry => At(n)'.status = "Empty"
         /\ UNCHANGED book_keep => At(n)' = At(n)
         /\ book_keep' = [book_keep EXCEPT ![AtSlot].status = "Retrans"] => At(n)'.seq_num = At(n).seq_num
<1>1. /\ \A q \in Positions : Slot(q) \in Slots /\ (q = n \/ Slot(q) # Slot(n))
      /\ TypeOK
  BY IterationFrame DEF SlotsInv, WindowInv, TypeInv
<1>2. CASE FreeEntry
  BY <1>1, <1>2 DEF FreeEntry, At, AtSlot, Cleared, TypeOK, BookKeeping
<1>3. CASE book_keep' = [book_keep EXCEPT ![AtSlot].status = "Retrans"]
  BY <1>1, <1>3 DEF FreeEntry, At, AtSlot, Cleared, TypeOK, BookKeeping
<1>4. CASE UNCHANGED book_keep
  BY <1>1, <1>4 DEF FreeEntry, At, AtSlot, Cleared, TypeOK, BookKeeping
<1> QED BY <1>2, <1>3, <1>4

\* The next nack is that of the position looked at as soon as one left is.
LEMMA NextNackIsNext ==
  ASSUME SlotsInv, WalkInv, ack_pc = "ack", scan_from <= index, nacks_left # {}
  PROVE  /\ NextNack \in nacks_left /\ NextNack \in Nat /\ index + 1 <= NextNack /\ NextNack <= end_seq
         /\ NextNack = index + 1 <=> index + 1 \in nacks_left
<1>1. TypeOK /\ NackWalk
  BY DEF SlotsInv, WindowInv, TypeInv, WalkInv
<1>2. /\ nacks_left \subseteq Nat
      /\ \A x \in nacks_left : index < x /\ x <= end_seq
  BY <1>1 DEF NackWalk, Larger, TypeOK
<1>3. NextNack \in nacks_left /\ \A y \in nacks_left : NextNack <= y
  BY <1>2, MinIsLeast DEF NextNack
<1>4. index \in Nat
  BY <1>1 DEF TypeOK
<1> QED BY <1>2, <1>3, <1>4

\* A slot that holds a packet is nacked when the number of its position is left.
LEMMA NackedIsNext ==
  ASSUME SlotsInv, WalkInv, ack_pc = "ack", scan_from <= index, NEW n \in Positions, n = index,
         Entry = At(n), At(n).status # "Empty"
  PROVE  Nacked <=> index + 1 \in nacks_left
<1>1. At(n).seq_num = index + 1
  BY DEF WalkInv, SeqExact
<1>2. Nacked <=> nacks_left # {} /\ NextNack = index + 1
  BY <1>1 DEF Nacked
<1> QED BY <1>2, NextNackIsNext

\* An iteration consumes the nack of the position it looks at, if there is one.
LEMMA NackConsumed ==
  ASSUME SlotsInv, WalkInv, ack_pc = "ack", scan_from <= index, index' = index + 1,
         UNCHANGED <<end_seq, nack_set, scan_from, head_pt>>,
         nacks_left' = nacks_left \ {index + 1}
  PROVE  NackWalk'
<1>1. TypeOK /\ NackWalk
  BY DEF SlotsInv, WindowInv, TypeInv, WalkInv
<1>2. /\ index \in Nat /\ scan_from \in Nat /\ nack_set \subseteq Nat
      /\ nacks_left = {x \in nack_set : x > index}
  BY <1>1 DEF NackWalk, Larger, TypeOK
<1>3. Larger(index', scan_from') = index + 1
  BY <1>2 DEF Larger
<1>4. nacks_left' = {x \in nack_set : x > index + 1}
  <2>1. \A x \in nack_set : x > index + 1 <=> x > index /\ x # index + 1
    BY <1>2
  <2> QED BY <1>2, <2>1
<1> QED BY <1>1, <1>3, <1>4 DEF NackWalk

LEMMA AckStepNackWalk ==
  ASSUME SlotsInv, WalkInv, AckStep, ~AckFinish, NEW n \in Positions, n = index, Entry = At(n)
  PROVE  NackWalk'
<1>1. /\ TypeOK /\ NackWalk /\ ack_pc = "ack" /\ index' = index + 1
      /\ UNCHANGED <<end_seq, nack_set, scan_from, head_pt, ack_pc>>
  BY DEF SlotsInv, WindowInv, TypeInv, WalkInv, AckStep, AckFreeBlock, AckGiveUp, AckRetransmit, AckTooEarly,
         AckStillPending, AckReceived, AckSkipEmpty, AckScanning, ScanUnchanged, nackVars, cursors
<1>2. CASE AckFreeBlock
  <2>1. index < scan_from /\ nacks_left' = nacks_left /\ index \in Nat /\ scan_from \in Nat
    BY <1>1, <1>2 DEF AckFreeBlock, nackVars, TypeOK
  <2>2. Larger(index', scan_from') = Larger(index, scan_from)
    BY <1>1, <2>1 DEF Larger
  <2> QED BY <1>1, <2>1, <2>2 DEF NackWalk
<1>3. CASE ~AckFreeBlock
  <2>1. scan_from <= index /\ index < end_seq
    BY <1>3 DEF AckStep, AckGiveUp, AckRetransmit, AckTooEarly, AckStillPending,
                AckReceived, AckSkipEmpty, AckScanning
  <2>2. nacks_left' = nacks_left \ {index + 1}
    <3>1. CASE AckGiveUp \/ AckRetransmit \/ AckTooEarly \/ AckStillPending
      <4>1. /\ At(n).status # "Empty" /\ Nacked /\ nacks_left' = nacks_left \ {NextNack}
        BY <3>1 DEF AckGiveUp, AckRetransmit, AckTooEarly, AckStillPending
      <4>2. nacks_left # {} /\ index + 1 \in nacks_left
        BY <1>1, <2>1, <4>1, NackedIsNext DEF Nacked
      <4>3. NextNack = index + 1
        BY <1>1, <2>1, <4>2, NextNackIsNext
      <4> QED BY <4>1, <4>3
    <3>2. CASE AckReceived
      <4>1. At(n).status # "Empty" /\ ~Nacked /\ nacks_left' = nacks_left
        BY <3>2 DEF AckReceived, nackVars
      <4> QED BY <1>1, <2>1, <4>1, NackedIsNext
    <3>3. CASE AckSkipEmpty
      <4>1. nacks_left' = IF nacks_left # {} /\ Slot(NextNack - 1) = AtSlot
                          THEN nacks_left \ {NextNack} ELSE nacks_left
        BY <3>3 DEF AckSkipEmpty
      <4>2. CASE nacks_left = {}
        BY <4>1, <4>2
      <4>3. CASE nacks_left # {}
        <5>1. /\ NextNack \in nacks_left /\ NextNack \in Nat /\ index + 1 <= NextNack /\ NextNack <= end_seq
              /\ NextNack = index + 1 <=> index + 1 \in nacks_left
          BY <1>1, <2>1, <4>3, NextNackIsNext
        <5>2. index \in Nat /\ end_seq \in Nat /\ tail_pt \in Nat /\ end_seq <= tail_pt /\ head_pt \in Nat /\ head_pt <= n
          BY <1>1 DEF TypeOK, SlotsInv, WindowInv, ScanInWindow, Positions
        <5>3. NextNack - 1 \in Positions
          BY <5>1, <5>2 DEF Positions
        <5>4. Slot(NextNack - 1) = AtSlot <=> NextNack - 1 = index
          BY <5>3, PositionsTyped DEF SlotsInv, AtSlot
        <5>5. Slot(NextNack - 1) = AtSlot <=> NextNack = index + 1
          BY <5>1, <5>2, <5>4
        <5> QED BY <4>1, <4>3, <5>1, <5>5
      <4> QED BY <4>2, <4>3
    <3> QED BY <1>3, <3>1, <3>2, <3>3 DEF AckStep, AckFinish
  <2> QED BY <1>1, <2>1, <2>2, NackConsumed
<1> QED BY <1>2, <1>3

LEMMA AckStepWalkInv ==
  ASSUME SlotsInv, WalkInv, AckStep, ~AckFinish
  PROVE  WalkInv'
<1>1. /\ ack_pc = "ack" /\ ScanUnchanged
      /\ index < scan_from \/ index < end_seq
      /\ lock_arr[AtSlot] = NoOne
  BY DEF AckStep, AckFreeBlock, AckGiveUp, AckRetransmit, AckTooEarly, AckStillPending,
         AckReceived, AckSkipEmpty, AckScanning
<1>2. PICK n \in Positions : n = index
  BY <1>1, AckPosition
<1>3. Owner(n) = NoOne /\ Entry = At(n) /\ Slot(n) \in Slots /\ n \in Nat
  BY <1>1, <1>2, AckPosition, PositionsTyped DEF SlotsInv
<1>4. NackWalk'
  BY <1>2, <1>3, AckStepNackWalk
<1>5. At(n).status # "New"
  <2>1. n < end_seq /\ end_seq <= highest_sent /\ UnsentLast /\ TypeOK
    BY <1>1, <1>2 DEF SlotsInv, WindowInv, TypeInv, TypeOK, BookInv, ScanInv, AckScan, ScanInWindow
  <2> QED BY <1>3, <2>1 DEF UnsentLast, Unsent, TypeOK
<1>6. CASE AckFreeBlock \/ AckGiveUp \/ AckReceived
  BY <1>1, <1>2, <1>3, <1>4, <1>5, <1>6, EntryWritten, IterationWalkInv DEF AckFreeBlock, AckGiveUp, AckReceived
<1>7. CASE AckRetransmit
  BY <1>1, <1>2, <1>3, <1>4, <1>5, <1>7, EntryWritten, IterationWalkInv DEF AckRetransmit
<1>8. CASE AckTooEarly \/ AckStillPending \/ AckSkipEmpty
  BY <1>1, <1>2, <1>3, <1>4, <1>8, EntryWritten, IterationWalkInv DEF AckTooEarly, AckStillPending, AckSkipEmpty
<1> QED BY <1>6, <1>7, <1>8 DEF AckStep

LEMMA TimeOutStepWalkInv ==
  ASSUME SlotsInv, WalkInv, TimeOutStep, ~TimeOutFinish
  PROVE  WalkInv'
<1>1. TimeOutScanning /\ ScanUnchanged
  BY DEF TimeOutStep, TimeOutPending, TimeOutDrop, TimeOutRetransmit, TimeOutKeep, TimeOutEmpty, TimeOutBreak
<1>2. PICK n \in Positions : n = index
  BY <1>1, TimeOutPosition
<1>3. Owner(n) = NoOne /\ Entry = At(n)
  BY <1>1, <1>2, TimeOutPosition
<1>4. NackWalk'
  BY <1>1 DEF NackWalk, TimeOutScanning, ScanUnchanged
<1>5. CASE TimeOutDrop
  BY <1>1, <1>2, <1>3, <1>4, <1>5, EntryWritten, IterationWalkInv DEF TimeOutDrop
<1>6. CASE TimeOutRetransmit
  BY <1>1, <1>2, <1>3, <1>4, <1>6, EntryWritten, IterationWalkInv DEF TimeOutRetransmit
<1>7. CASE TimeOutPending \/ TimeOutKeep \/ TimeOutEmpty \/ TimeOutBreak
  BY <1>1, <1>2, <1>3, <1>4, <1>7, EntryWritten, IterationWalkInv
     DEF TimeOutPending, TimeOutKeep, TimeOutEmpty, TimeOutBreak
<1> QED BY <1>5, <1>6, <1>7 DEF TimeOutStep

-----------------------------------------------------------------------------
(* The start and the end of the handlers.                                  *)

LEMMA StoreCursorsWalkInv ==
  ASSUME SlotsInv, SlotsInv', WalkInv, InHandler, StoreCursors,
         \A q \in head_pt .. head_pt_final - 1 : Owner(q) = NoOne /\ At(q).status = "Empty"
  PROVE  WalkInv'
<1>1. /\ head_pt \in Nat /\ head_pt_final \in Nat /\ tail_pt \in Nat /\ head_pt <= head_pt_final
      /\ head_pt_final <= tail_pt /\ highest_sent \in Nat
  <2>1. head_pt' <= tail_pt' /\ head_pt' = Larger(head_pt, head_pt_final) /\ tail_pt' = tail_pt
    BY DEF StoreCursors, SlotsInv, WindowInv, WindowOrder, TypeInv, TypeOK
  <2> QED BY <2>1 DEF SlotsInv, WindowInv, TypeInv, TypeOK, ScanInWindow, Larger
<1>2. /\ head_pt' = head_pt_final /\ ack_pc' = "wait"
      /\ UNCHANGED <<tail_pt, book_keep, lock_arr, enq_pc, enq_seq, highest_sent>>
  BY <1>1 DEF StoreCursors, Larger, enqVars, deqVars
<1>3. Positions' \subseteq Positions /\ \A q \in Positions' : At(q)' = At(q) /\ Owner(q)' = Owner(q)
  BY <1>1, <1>2 DEF Positions, At, Owner
<1>4. SeqExact'
  BY <1>2, <1>3 DEF WalkInv, SeqExact
<1>5. head_pt_final <= highest_sent
  <2>1. CASE head_pt_final = head_pt
    BY <2>1 DEF WalkInv, SentPrefix
  <2>2. CASE head_pt < head_pt_final
    <3>1. PICK q \in Positions : q = head_pt_final - 1 /\ q \in head_pt .. head_pt_final - 1
      BY <1>1, <2>2 DEF Positions
    <3>2. ~Unsent(q)
      BY <3>1, ThreadsAssumption DEF Unsent, Threads
    <3>3. ~(highest_sent <= q)
      BY <3>2 DEF WalkInv, SentPrefix
    <3> QED BY <1>1, <3>1, <3>3
  <2> QED BY <1>1, <2>1, <2>2
<1>6. SentPrefix'
  BY <1>2, <1>3, <1>5 DEF WalkInv, SentPrefix, Unsent
<1>7. NackWalk'
  BY <1>2 DEF NackWalk
<1> QED BY <1>4, <1>6, <1>7 DEF WalkInv

LEMMA AckArrivesWalkInv ==
  ASSUME SlotsInv, WalkInv, AckArrives
  PROVE  WalkInv'
<1>1. ASSUME NEW a \in 1 .. MaxAckSeq, HandlePoke(a) PROVE WalkInv'
  BY <1>1, WalkUntouched DEF HandlePoke, cursors, enqVars, deqVars, scanVars, At, Owner
<1>2. ASSUME UNCHANGED <<cursors, book_keep, lock_arr, enqVars, deqVars>>, NackWalk' PROVE WalkInv'
  BY <1>2 DEF WalkInv, SeqExact, SentPrefix, Positions, At, Owner, Unsent, cursors, enqVars, deqVars
<1>3. ASSUME NEW a \in 1 .. MaxAckSeq, NEW end \in 1 .. highest_sent, HandleDupAck(a, end)
      PROVE  WalkInv'
  <2>1. ack_pc' # "ack" /\ UNCHANGED <<cursors, book_keep, lock_arr, enqVars, deqVars>>
    BY <1>3 DEF HandleDupAck
  <2> QED BY <1>2, <2>1 DEF NackWalk
<1>4. ASSUME NEW a \in 1 .. MaxAckSeq, NEW end \in 1 .. highest_sent,
             NEW nacks \in SUBSET (1 .. end), NEW late \in SUBSET Slots,
             HandleNewAck(a, end, nacks, late)
      PROVE  WalkInv'
  <2> DEFINE live == {n \in nacks : n - 1 >= head_pt}
             from == IF nacks = {} THEN end ELSE IF live = {} THEN head_pt ELSE Min(live) - 1
  <2>1. /\ head_pt' = head_pt /\ index' = head_pt /\ scan_from' = from /\ end_seq' = end
        /\ nack_set' = nacks /\ nacks_left' = live
        /\ UNCHANGED <<cursors, book_keep, lock_arr, enqVars, deqVars>>
    BY <1>4 DEF HandleNewAck, cursors
  <2>2. head_pt \in Nat /\ nacks \subseteq Nat /\ nacks \subseteq 1 .. end /\ end \in Nat
    BY DEF SlotsInv, WindowInv, TypeInv, TypeOK
  <2>3. CASE nacks = {}
    BY <1>2, <2>1, <2>3 DEF NackWalk
  <2>4. CASE nacks # {} /\ live = {}
    <3>1. from = head_pt /\ Larger(head_pt, from) = head_pt
      BY <2>4 DEF Larger
    <3>2. \A x \in nacks : ~(x - 1 >= head_pt)
      BY <2>4
    <3>3. \A x \in nacks : x <= head_pt /\ ~(x > head_pt)
      BY <2>2, <3>2
    <3> HIDE DEF from
    <3>4. {x \in nacks : x > head_pt} = {}
      BY <3>3
    <3> QED BY <1>2, <2>1, <2>2, <2>4, <3>1, <3>3, <3>4 DEF NackWalk
  <2>5. CASE nacks # {} /\ live # {}
    <3>1. Min(live) \in live /\ \A y \in live : Min(live) <= y
      BY <2>2, <2>5, MinIsLeast
    <3>2. PICK m \in nacks : m = Min(live) /\ m - 1 >= head_pt /\ m \in Nat
      BY <2>2, <3>1
    <3>3. from = m - 1 /\ Larger(head_pt, from) = m - 1
      BY <2>2, <2>5, <3>2 DEF Larger
    <3>4. \A x \in nacks : x \in live <=> x > m - 1
      BY <2>2, <3>1, <3>2
    <3>5. \A x \in nacks : x <= m - 1 => x <= head_pt
      <4>1. \A x \in nacks : x <= m - 1 => x \notin live
        BY <2>2, <3>2, <3>4
      <4> QED BY <2>2, <4>1
    <3>6. live = {x \in nacks : x > m - 1}
      BY <3>4
    <3> HIDE DEF from, live
    <3> QED BY <1>2, <2>1, <2>2, <3>3, <3>5, <3>6 DEF NackWalk
  <2> QED BY <2>3, <2>4, <2>5
<1> QED BY <1>1, <1>3, <1>4 DEF AckArrives

-----------------------------------------------------------------------------
(* The theorems.                                                           *)

LEMMA NextWalkInv ==
  ASSUME SingleProducer, SlotsInv, SlotsInv', WalkInv, [Next]_vars
  PROVE  WalkInv'
<1>1. CASE UNCHANGED vars
  BY <1>1, WalkUntouched
     DEF vars, cursors, enqVars, deqVars, ackVars, scanVars, At, Owner
<1>2. CASE HandleDataAck
  <2>1. CASE AckFinish
    <3>1. InHandler /\ StoreCursors
      BY <2>1 DEF AckFinish, InHandler
    <3> QED BY <2>1, <3>1, AckFinishPassed, StoreCursorsWalkInv
  <2> QED BY <1>2, <2>1, AckArrivesWalkInv, AckStepWalkInv DEF HandleDataAck
<1>3. CASE HandleTimeOut
  <2>1. CASE TimeOutFinish
    <3>1. InHandler /\ StoreCursors /\ \A q \in head_pt .. head_pt_final - 1 : Owner(q) = NoOne /\ At(q).status = "Empty"
      BY <2>1 DEF TimeOutFinish, InHandler, SlotsInv, ScanInv, TimeOutScan
    <3> QED BY <3>1, StoreCursorsWalkInv
  <2>2. ASSUME NEW late \in SUBSET Slots, TimeOutStart(late) PROVE WalkInv'
    <3>1. ack_pc' # "ack" /\ UNCHANGED <<cursors, book_keep, lock_arr, enqVars, deqVars>>
      BY <2>2 DEF TimeOutStart
    <3>2. NackWalk'
      BY <3>1 DEF NackWalk
    <3> QED BY <3>1, <3>2 DEF WalkInv, SeqExact, SentPrefix, Positions, At, Owner, Unsent, cursors, enqVars, deqVars
  <2> QED BY <1>3, <2>1, <2>2, TimeOutStepWalkInv DEF HandleTimeOut
<1> QED BY <1>1, <1>2, <1>3, EnqueueWalkInv, DequeueWalkInv DEF Next

LEMMA WalkInvHolds ==
  ASSUME SingleProducer
  PROVE  Spec => [](SlotsInv /\ WalkInv)
<1>1. Init => SlotsInv /\ WalkInv
  BY InitSlotsInv, InitWalkInv
<1>2. SlotsInv /\ WalkInv /\ [Next]_vars => (SlotsInv /\ WalkInv)'
  BY NextSlotsInv, NextWalkInv
<1> QED BY <1>1, <1>2, PTL DEF Spec

\* With one producer a packet in the window carries the sequence number of its
\* position, which both handlers use to turn one into the other.
THEOREM SequenceNumbersMatch ==
  ASSUME SingleProducer
  PROVE  Spec => []SeqMatchesPosition
<1>1. SlotsInv /\ WalkInv => SeqMatchesPosition
  BY DEF WalkInv, SeqExact, SeqMatchesPosition, Positions, At
<1> QED BY <1>1, WalkInvHolds, PTL

\* With one producer the walk of HandleDataAck meets every nack: the warning
\* for nack_cnt != num_nacks is never printed.
THEOREM EveryNackMet ==
  ASSUME SingleProducer
  PROVE  Spec => []NacksMatched
<1>1. SlotsInv /\ WalkInv => NacksMatched
  <2> SUFFICES ASSUME SlotsInv, WalkInv, ack_pc = "ack", index = end_seq PROVE nacks_left = {}
    BY DEF NacksMatched
  <2>1. TypeOK /\ NackWalk
    BY DEF SlotsInv, WindowInv, TypeInv, WalkInv
  <2>2. end_seq \in Nat /\ scan_from \in Nat /\ \A x \in nack_set : ~(x > Larger(index, scan_from))
    BY <2>1 DEF NackWalk, Larger, TypeOK
  <2> QED BY <2>1, <2>2 DEF NackWalk
<1> QED BY <1>1, WalkInvHolds, PTL

\* With one producer HandleDataAck frees a packet that the ack nacks only when
\* its retransmissions are used up.
THEOREM NackedPacketsKept ==
  ASSUME SingleProducer
  PROVE  Spec => NackedKept
<1> DEFINE Kept == \A s \in Slots :
                     /\ ack_pc = "ack"
                     /\ book_keep[s].status # "Empty"
                     /\ book_keep'[s].status = "Empty"
                     => book_keep[s].seq_num \notin nack_set \/ book_keep[s].num_retrans = 0
<1>1. ASSUME SlotsInv, WalkInv, Next PROVE Kept
  <2> SUFFICES ASSUME NEW s \in Slots, ack_pc = "ack", book_keep[s].status # "Empty", book_keep'[s].status = "Empty"
               PROVE  book_keep[s].seq_num \notin nack_set \/ book_keep[s].num_retrans = 0
    OBVIOUS
  <2>0. TypeOK /\ NackWalk
    BY <1>1 DEF SlotsInv, WindowInv, TypeInv, WalkInv
  <2>1. \A p \in Producers : ~EnqueuePkt(p)
    BY <2>0 DEF EnqueuePkt, EnqueueReadTail, EnqueueLockQueue, EnqueueDrop, AcquireTailLock, EnqueueStore, TypeOK
  <2>2. ~DequeuePkt
    <3>1. ~DequeueNew /\ ~DequeueRetrans
      <4>1. [book_keep EXCEPT ![deq_index].status = "Outbound"][s].status # "Empty"
        BY <2>0 DEF TypeOK, BookKeeping
      <4>2. [book_keep EXCEPT ![deq_index].status = "Outbound", ![deq_index].num_retrans = @ - 1][s].status # "Empty"
        BY <2>0 DEF TypeOK, BookKeeping
      <4> QED BY <4>1, <4>2 DEF DequeueNew, DequeueRetrans
    <3> QED BY <3>1 DEF DequeuePkt, DequeueTake, DequeueLockQueue, AcquireCurrLock, DequeueSkip
  <2>3. ~HandleTimeOut
    BY DEF HandleTimeOut, TimeOutStart, TimeOutStep, TimeOutPending, TimeOutDrop, TimeOutRetransmit, TimeOutKeep,
           TimeOutEmpty, TimeOutBreak, TimeOutFinish, TimeOutScanning
  <2>4. ~AckArrives
    BY DEF AckArrives, HandlePoke, HandleDupAck, HandleNewAck
  <2>5. AckStep
    BY <1>1, <2>1, <2>2, <2>3, <2>4 DEF Next, HandleDataAck
  <2>6. FreeEntry /\ (AckFreeBlock \/ AckGiveUp \/ AckReceived)
    BY <2>0, <2>5 DEF AckStep, AckFreeBlock, AckGiveUp, AckRetransmit, AckTooEarly, AckStillPending,
                      AckReceived, AckSkipEmpty, AckFinish, StoreCursors, TypeOK, BookKeeping
  <2>7. s = AtSlot
    BY <2>0, <2>6 DEF FreeEntry, TypeOK
  <2>8. PICK n \in Positions : n = index /\ Entry = At(n) /\ At(n) = book_keep[s]
    BY <1>1, <2>6, <2>7, AckPosition DEF AckFreeBlock, AckGiveUp, AckReceived, AckScanning, At, AtSlot
  <2>9. book_keep[s].seq_num = index + 1
    BY <1>1, <2>8 DEF WalkInv, SeqExact
  <2>10. CASE AckFreeBlock
    <3>1. index < scan_from /\ index \in Nat /\ head_pt \in Nat /\ scan_from \in Nat /\ head_pt <= index
      BY <2>0, <2>8, <2>10 DEF AckFreeBlock, TypeOK, Positions
    <3> QED BY <2>0, <2>9, <3>1 DEF NackWalk
  <2>11. CASE AckGiveUp
    BY <2>8, <2>11 DEF AckGiveUp
  <2>12. CASE AckReceived
    <3>1. scan_from <= index /\ ~Nacked /\ index \in Nat /\ scan_from \in Nat
      BY <2>0, <2>12 DEF AckReceived, AckScanning, TypeOK
    <3>2. index + 1 \notin nacks_left
      BY <1>1, <2>8, <3>1, NackedIsNext
    <3> QED BY <2>0, <2>9, <3>1, <3>2 DEF NackWalk, Larger
  <2> QED BY <2>6, <2>10, <2>11, <2>12
<1>2. SlotsInv /\ WalkInv /\ [Next]_vars => [Kept]_vars
  BY <1>1
<1> QED BY <1>2, WalkInvHolds, PTL DEF Spec, NackedKept

\* The handlers neither enqueue nor dequeue.
LEMMA HandlersKeepOut == HandleDataAck \/ HandleTimeOut => UNCHANGED <<tail_pt, enqVars, deqVars>>
<1>1. AckArrives => UNCHANGED <<tail_pt, enqVars, deqVars>>
  <2>1. \A a \in 1 .. MaxAckSeq : HandlePoke(a) => UNCHANGED <<tail_pt, enqVars, deqVars>>
    BY DEF HandlePoke, cursors
  <2>2. \A a \in 1 .. MaxAckSeq, end \in 1 .. highest_sent : HandleDupAck(a, end) => UNCHANGED <<tail_pt, enqVars, deqVars>>
    BY DEF HandleDupAck, cursors
  <2>3. \A a \in 1 .. MaxAckSeq, end \in 1 .. highest_sent, late \in SUBSET Slots :
          \A nacks \in SUBSET (1 .. end) : HandleNewAck(a, end, nacks, late) => UNCHANGED <<tail_pt, enqVars, deqVars>>
    BY DEF HandleNewAck, cursors
  <2> QED BY <2>1, <2>2, <2>3 DEF AckArrives
<1>2. AckStep => UNCHANGED <<tail_pt, enqVars, deqVars>>
  BY DEF AckStep, AckFreeBlock, AckGiveUp, AckRetransmit, AckTooEarly, AckStillPending,
         AckReceived, AckSkipEmpty, AckFinish, StoreCursors, ScanUnchanged, cursors
<1>3. HandleTimeOut => UNCHANGED <<tail_pt, enqVars, deqVars>>
  BY DEF HandleTimeOut, TimeOutStart, TimeOutStep, TimeOutPending, TimeOutDrop, TimeOutRetransmit, TimeOutKeep,
         TimeOutEmpty, TimeOutBreak, TimeOutFinish, StoreCursors, ScanUnchanged, cursors
<1> QED BY <1>1, <1>2, <1>3 DEF HandleDataAck

\* Only a packet that is sent for the first time moves highest_sent.
LEMMA HighestSentKept == Next /\ ~DequeueNew => UNCHANGED highest_sent
<1>1. DequeuePkt /\ ~DequeueNew => UNCHANGED highest_sent
  BY DEF DequeuePkt, DequeueTake, DequeueLockQueue, AcquireCurrLock, DequeueRetrans, DequeueSkip
<1>2. ASSUME NEW p \in Producers, EnqueuePkt(p) PROVE UNCHANGED highest_sent
  BY <1>2 DEF EnqueuePkt, EnqueueReadTail, EnqueueLockQueue, EnqueueDrop, AcquireTailLock, EnqueueStore, deqVars
<1>3. HandleDataAck \/ HandleTimeOut => UNCHANGED highest_sent
  BY HandlersKeepOut DEF deqVars
<1> QED BY <1>1, <1>2, <1>3 DEF Next

\* With one producer first transmissions leave in sequence order without a gap.
THEOREM FirstSentInOrder ==
  ASSUME SingleProducer
  PROVE  Spec => SentInOrder
<1>1. ASSUME SlotsInv, WalkInv, Next PROVE highest_sent' \in {highest_sent, highest_sent + 1}
  <2>1. CASE DequeueNew
    <3>1. deq_pc = "take" /\ book_keep[deq_index].status = "New"
      BY <2>1 DEF DequeueNew
    <3>2. PICK n \in Positions : deq_index = Slot(n) /\ Owner(n) = Sender
      BY <1>1, <3>1, SenderPosition
    <3>3. highest_sent = n /\ At(n).seq_num = n + 1 /\ n \in Nat
      BY <1>1, <3>1, <3>2, FirstSentNext, PositionsTyped DEF At, SlotsInv
    <3> QED BY <2>1, <3>2, <3>3 DEF DequeueNew, At, Larger
  <2>2. CASE ~DequeueNew
    BY <1>1, <2>2, HighestSentKept
  <2> QED BY <2>1, <2>2
<1>2. SlotsInv /\ WalkInv /\ [Next]_vars => [highest_sent' \in {highest_sent, highest_sent + 1}]_vars
  BY <1>1
<1> QED BY <1>2, WalkInvHolds, PTL DEF Spec, SentInOrder
=============================================================================
