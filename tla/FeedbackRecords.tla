---------------------------- MODULE FeedbackRecords ----------------------------
(***************************************************************************)
(* The records of raw packets whose fate is known, and the lookups that    *)
(* rate adaptation makes in them (feedback_records.cc). Every operation    *)
(* holds the lock of the records and is one step of the thread it is       *)
(* called from.                                                            *)
(*                                                                         *)
(* A record is [timer, rate, acked]. A loss rate is in thousandths, and -1 *)
(* when nothing is known: the quotients the code has in floating point are *)
(* rounded down.                                                           *)
(***************************************************************************)
EXTENDS MonotonicTimer, Sequences, FiniteSets

INVALID_LOSS_RATE == -1
Unit == 1000
LossRate == {INVALID_LOSS_RATE} \cup 0 .. Unit

\* Records at the front that duration has passed over are dropped.
InsertPacket(records, pkt, duration) ==
  LET recs == Append(records, pkt)
      fresh == {i \in DOMAIN recs : ~Less(Plus(recs[i].timer, duration), pkt.timer)}
      first == CHOOSE i \in fresh : \A j \in fresh : i <= j
  IN  SubSeq(recs, first, Len(recs))

-----------------------------------------------------------------------------
(* BinarySearchRecords and the lookups. Positions count from 0; a pair p   *)
(* is the part searched, from position p[1] to p[2].                       *)

Bisect(records, t, left, right) ==
  LET timer(i) == records[i + 1].timer
      search[p \in (left .. right) \X (left .. right)] ==
        LET mid == p[1] + (p[2] - p[1]) \div 2
        IN  IF p[1] >= p[2] THEN p[2]
            ELSE IF timer(mid) = t THEN mid
            ELSE IF Less(t, timer(mid)) THEN search[<<p[1], mid>>]
            ELSE search[<<mid + 1, p[2]>>]
  IN  search[<<left, right>>]

\* Broken variant: the last record is left out when the time is past it.
BinarySearchRecordsToLast(records, t) ==
  LET last == Len(records) - 1
  IN  IF Less(t, records[1].timer) THEN 0 ELSE Bisect(records, t, 0, last)

BinarySearchRecords(records, t) ==
  LET last == Len(records) - 1
  IN  IF Less(records[last + 1].timer, t) THEN last + 1
      ELSE IF Less(t, records[1].timer) THEN 0
      ELSE Bisect(records, t, 0, last)

IsAvailable(records, start, end) ==
  /\ records # <<>>
  /\ ~Less(end, records[1].timer)
  /\ ~Less(records[Len(records)].timer, start)

\* The records a lookup counts for each rate.
Counted(records, start, end) ==
  SubSeq(records, BinarySearchRecords(records, start) + 1, BinarySearchRecords(records, end))
NSent(counted, rate) == Cardinality({i \in DOMAIN counted : counted[i].rate = rate})
NAck(counted, rate) ==
  Cardinality({i \in DOMAIN counted : counted[i].rate = rate /\ counted[i].acked})

CalcLossRates(records, start, end, rates) ==
  LET counted == Counted(records, start, end)
      loss(rate) == (Unit * (NSent(counted, rate) - NAck(counted, rate))) \div NSent(counted, rate)
  IN  [rate \in rates |->
         IF ~IsAvailable(records, start, end) \/ NSent(counted, rate) = 0 THEN INVALID_LOSS_RATE
         ELSE loss(rate)]

\* A rate with one packet sent and lost still counts as a success.
kMinSentCnt == 2
FindSuccessRates(records, start, end, rates) ==
  LET counted == Counted(records, start, end)
  IN  {rate \in rates : NAck(counted, rate) > 0 \/ NSent(counted, rate) < kMinSentCnt}
=============================================================================
