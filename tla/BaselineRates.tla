------------------------------ MODULE BaselineRates ------------------------------
(***************************************************************************)
(* The two rate adaptations the scout is compared with, SampleRate and     *)
(* RRAA (sample_rate.cc, robust_rate.cc), and the history of packets they  *)
(* share (rate_adaptation.cc). None of it is locked.                       *)
(*                                                                         *)
(* A table is a record of the counters per rate and of the position of the *)
(* current one. All packets have one length here, so that times are per    *)
(* packet and lengths need not be kept beside the counts.                  *)
(***************************************************************************)
EXTENDS RateDecision

CONSTANTS
  WndSize,       \* RRAA: the packets after which a rate is judged
  SampleEvery,   \* SampleRate: packets between two samples
  FailLimit      \* SampleRate: the failures in a row that rule a rate out

ASSUME BaselineAssumption ==
  /\ WndSize \in [RateInd -> Nat \ {0}]
  /\ SampleEvery \in Nat \ {0} /\ FailLimit \in Nat \ {0}

Infinite == 10 ^ 9    \* 1e10 in the code
Difs == 28

PositionOf(rate) == CHOOSE i \in RateInd : Rates[i] = rate

-----------------------------------------------------------------------------
(* What both keep per rate.                                                *)

\* conti_loss, avg and min_avg are SampleRate's, loss_ratio is RRAA's.
NoPackets == [sent |-> 0, acked |-> 0, conti_loss |-> 0, avg |-> Infinite, min_avg |-> 0,
              loss_ratio |-> Unit]

\* update is what tells ApplyRate to recompute; RRAA never initialises it.
InitRateTable(version, update) ==
  [rate |-> [i \in RateInd |-> NoPackets], num_acked |-> 0, pos |-> 1,
   pkt_count |-> 0, wnd_counter |-> WndSize[1],
   update |-> IF version = "RRAA" THEN update ELSE TRUE]

InsertIntoRateTable(version, table, pkt) ==
  LET i == PositionOf(pkt.rate)
      acked == IF pkt.acked THEN 1 ELSE 0
  IN  [table EXCEPT !.rate[i].sent = @ + 1,
                    !.rate[i].acked = @ + acked,
                    !.rate[i].conti_loss = IF pkt.acked \/ version = "RRAA" THEN 0
                                           ELSE TheSmaller(@ + 1, FailLimit),
                    !.num_acked = @ + acked,
                    !.update = TRUE]

\* Broken variant: the packet's ack stays behind.
RemoveOnlySent(table, pkt) ==
  [table EXCEPT !.rate[PositionOf(pkt.rate)].sent = @ - 1, !.update = TRUE]

RemoveFromRateTable(table, pkt) ==
  LET i == PositionOf(pkt.rate)
      acked == IF pkt.acked THEN 1 ELSE 0
  IN  [table EXCEPT !.rate[i].sent = @ - 1,
                    !.rate[i].acked = @ - acked,
                    !.num_acked = @ - acked,
                    !.update = TRUE]

\* InsertRecord adds the packet and removes the `old` packets that are too old.
InsertRecord(version, base, pkt, old) ==
  LET history == Append(base.history, pkt)
      table[d \in 0 .. old] ==
        IF d = 0 THEN InsertIntoRateTable(version, base.table, pkt)
        ELSE RemoveFromRateTable(table[d - 1], history[d])
  IN  [base EXCEPT !.table = table[old], !.history = SubSeq(history, old + 1, Len(history))]

-----------------------------------------------------------------------------
(* SampleRate.                                                             *)

TxTime(i) == (80 * PktSize) \div Rates[i] + Difs

\* Broken variant: a rate keeps its last average when its acks have expired.
SampleUpdateKeepsAverage(table, is_reset) ==
  [table EXCEPT
     !.rate = [i \in RateInd |->
       [table.rate[i] EXCEPT
          !.conti_loss = IF is_reset THEN 0 ELSE @,
          !.min_avg = IF table.rate[i].sent > 0 THEN TxTime(i) ELSE @,
          !.avg = IF table.rate[i].acked = 0 THEN @
                  ELSE (table.rate[i].sent * TxTime(i)) \div table.rate[i].acked]],
     !.update = FALSE]

\* Failures in a row are forgotten once in update_interval.
SampleUpdate(table, is_reset) ==
  [table EXCEPT
     !.rate = [i \in RateInd |->
       [table.rate[i] EXCEPT
          !.conti_loss = IF is_reset THEN 0 ELSE @,
          !.min_avg = IF table.rate[i].sent > 0 THEN TxTime(i) ELSE @,
          !.avg = IF table.rate[i].acked = 0 THEN Infinite
                  ELSE (table.rate[i].sent * TxTime(i)) \div table.rate[i].acked]],
     !.update = FALSE]

HasFailed(table, i) == table.rate[i].conti_loss >= FailLimit

\* Before any ack: the lowest rate that has not failed, or the lowest.
Untried(table) ==
  LET unfailed == {i \in RateInd : ~HasFailed(table, i)}
  IN  {IF unfailed = {} THEN 1 ELSE Min(unfailed)}

\* A rate up to two above that could do better than the current one.
Samples(table) ==
  LET better == {i \in RateInd : /\ i <= table.pos + 2 /\ i # table.pos
                                 /\ ~HasFailed(table, i)
                                 /\ table.rate[i].min_avg < table.rate[table.pos].avg}
  IN  IF better = {} THEN {table.pos} ELSE better

Fastest(table) ==
  LET least == Min({table.rate[i].avg : i \in RateInd})
  IN  {IF least >= Infinite THEN table.pos ELSE Min({i \in RateInd : table.rate[i].avg = least})}

\* The tables ApplyRate may leave, with the position it returns.
SampleApply(table) ==
  LET fresh == IF table.update THEN {SampleUpdate(table, is_reset) : is_reset \in BOOLEAN} ELSE {table}
      count == table.pkt_count + 1
      next(t) == IF t.num_acked = 0 THEN [count |-> count % SampleEvery, to |-> Untried(t)]
                 ELSE IF count % SampleEvery = 0 THEN [count |-> 0, to |-> Samples(t)]
                 ELSE [count |-> count, to |-> Fastest(t)]
  IN  UNION {{[t EXCEPT !.pos = p, !.pkt_count = next(t).count] : p \in next(t).to} : t \in fresh}

-----------------------------------------------------------------------------
(* RRAA.                                                                   *)

\* The air time of a packet of 1000 bytes decides how much loss a rate is worth.
AirTime(i) == 80000 \div Rates[i] + 80
p_mtl(i) == IF i = 1 THEN Unit ELSE (1250 * (AirTime(i - 1) - AirTime(i))) \div AirTime(i - 1)
p_ori(i) == IF i = Len(Rates) THEN 0 ELSE p_mtl(i + 1) \div 2

RobustUpdate(table) ==
  [table EXCEPT
     !.rate = [i \in RateInd |->
       [table.rate[i] EXCEPT
          !.loss_ratio = IF table.rate[i].sent > 0
                         THEN (Unit * (table.rate[i].sent - table.rate[i].acked)) \div table.rate[i].sent
                         ELSE Unit]],
     !.update = FALSE]

\* One rate down or up when the window is over and the loss calls for it.
RobustApply(table) ==
  LET fresh == IF table.update THEN RobustUpdate(table) ELSE table
      at == fresh.rate[table.pos]
      to == IF at.sent > 0 /\ at.loss_ratio > p_mtl(table.pos) THEN TheLarger(1, table.pos - 1)
            ELSE IF at.sent > 0 /\ at.loss_ratio < p_ori(table.pos)
            THEN TheSmaller(Len(Rates), table.pos + 1)
            ELSE table.pos
  IN  {IF table.wnd_counter = 1 THEN [fresh EXCEPT !.pos = to, !.wnd_counter = WndSize[to]]
       ELSE [fresh EXCEPT !.wnd_counter = @ - 1]}

BaselineApply(version, table) ==
  IF version = "SampleRate" THEN SampleApply(table) ELSE RobustApply(table)
=============================================================================
