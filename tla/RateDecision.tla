------------------------------ MODULE RateDecision ------------------------------
(***************************************************************************)
(* The arithmetic of ScoutRateAdaptation::MakeDecision: from loss rates to *)
(* a rate, the numbers k and n of data and coded packets of a batch, the   *)
(* rates sampled, and whether the batch is duplicated over the cellular    *)
(* link (scout_rate.cc).                                                   *)
(*                                                                         *)
(* Ratios are in thousandths. What the code rounds down or up to a whole   *)
(* number of packets is a set here: a quotient that is a whole number may  *)
(* come out of floating point a little less or a little more.              *)
(***************************************************************************)
EXTENDS FeedbackRecords, FiniteSetsExt

CONSTANTS
  Rates,        \* rate_arr_, in 100 kbit/s, the lowest first
  kMaxK,        \* packets of a batch
  gf_size,      \* packets fec.cc can encode
  CoherenceTime, ExtraTime, PktSize   \* us, us, bytes

RateInd == DOMAIN Rates
RateSet == {Rates[i] : i \in RateInd}
kNumSampleRates == 1
kSampleBound == 2
kGFSize == gf_size - kNumSampleRates

\* The time on the air of a packet, in us.
PktDuration(rate) == (80 * PktSize) \div rate + ExtraTime
kMaxN(rate) == CoherenceTime \div PktDuration(rate)

\* At least one packet fits in the coherence time: the code takes that from its
\* options, and its assertions on n fail otherwise.
ASSUME DecisionAssumption ==
  /\ Rates \in Seq(Nat \ {0}) /\ Rates # <<>>
  /\ \A i, j \in RateInd : i < j => Rates[i] < Rates[j]
  /\ kMaxK \in Nat \ {0} /\ gf_size \in Nat /\ kMaxK < kGFSize
  /\ CoherenceTime \in Nat /\ ExtraTime \in Nat /\ PktSize \in Nat \ {0}
  /\ \A i \in RateInd : PktDuration(Rates[i]) > 0 /\ kMaxN(Rates[i]) > 0

Versions == {"SampleRate", "RRAA", "Fixed", "BatchSeq", "BatchRandom", "ScoutSeq",
             "ScoutRandom", "ScoutBoundLossSeq", "ScoutBoundLossRandom"}
Baselines == {"SampleRate", "RRAA"}
BackOnly == Baselines \cup {"Fixed"}
ScoutCombine == {"ScoutSeq", "ScoutRandom", "ScoutBoundLossSeq", "ScoutBoundLossRandom"}
BoundLoss == {"ScoutBoundLossSeq", "ScoutBoundLossRandom"}
Sequential == {"BatchSeq", "ScoutSeq", "ScoutBoundLossSeq"}

TheLarger(a, b) == IF a < b THEN b ELSE a
TheSmaller(a, b) == IF a < b THEN a ELSE b

-----------------------------------------------------------------------------
(* Loss rates.                                                             *)

\* A negative weight replaces the old loss, also by INVALID_LOSS_RATE.
UpdateLoss(old, loss, previous_weight) ==
  IF previous_weight <= 0 \/ old = INVALID_LOSS_RATE THEN loss
  ELSE IF loss = INVALID_LOSS_RATE THEN old
  ELSE (old * previous_weight + loss * (Unit - previous_weight)) \div Unit

kPrevWeight == 200
NoHistory == -Unit

CalcLossRatesFrontBack(front, back) ==
  IF front = INVALID_LOSS_RATE \/ back = INVALID_LOSS_RATE THEN TheLarger(front, back)
  ELSE IF front = 0 \/ back = 0 THEN TheLarger(front, back) \div 2
  ELSE (front * back) \div Unit

\* What CalcLossRatesAfterCombine makes of the three maps.
Combined(version, scout, front, back) ==
  IF version \in BackOnly THEN back
  ELSE IF version \in ScoutCombine THEN CalcLossRatesFrontBack(TheLarger(scout, front), back)
  ELSE CalcLossRatesFrontBack(front, back)

\* feasible_rates_ is empty also when no rate succeeds, and all are tried then.
IsFeasible(feasible, rate) == feasible = {} \/ rate \in feasible

duplicate_thresh == 700
loss_bound == 650
NoBound == 1500

IsHighLoss(loss, rate) == loss[rate] > duplicate_thresh
IsBootstrapping(rate) == rate = Rates[1]

-----------------------------------------------------------------------------
(* The rate with the highest throughput, the lowest of those.              *)

Throughput(loss, feasible, current, thresh, rate) ==
  IF ~IsFeasible(feasible, rate) \/ loss[rate] > thresh THEN 0
  ELSE IF loss[rate] # INVALID_LOSS_RATE THEN rate * (Unit - loss[rate])
  ELSE IF rate > current THEN 0
  ELSE rate * Unit

FindMaxInd(arr) ==
  CHOOSE i \in DOMAIN arr :
    \A j \in DOMAIN arr : arr[j] <= arr[i] /\ (j < i => arr[j] < arr[i])

ApplyRateScout(loss, feasible, current, thresh) ==
  Rates[FindMaxInd([i \in RateInd |-> Throughput(loss, feasible, current, thresh, Rates[i])])]

\* Broken variant: the bound on the loss is never passed on.
ApplyRateUnbounded(version, loss, feasible, current) ==
  ApplyRateScout(loss, feasible, current, NoBound)

\* ApplyRate of the versions that do not ask a baseline.
ApplyRate(version, loss, feasible, current) ==
  IF version = "Fixed" THEN current
  ELSE ApplyRateScout(loss, feasible, current, IF version \in BoundLoss THEN loss_bound ELSE NoBound)

-----------------------------------------------------------------------------
(* Redundancy: the k and n of a batch before sampling.                     *)

Floors(num, den) == {num \div den} \cup (IF num % den = 0 THEN {num \div den - 1} ELSE {})
Ceils(num, den) ==
  IF num % den = 0 THEN {num \div den, num \div den + 1} ELSE {num \div den + 1}

kExtraRedundancy == 50
kExtraNumPkts == 1
kMaxLoss == 900
IsModest(loss) == loss <= kMaxLoss /\ loss # INVALID_LOSS_RATE
Redundancy(loss, start) == kExtraRedundancy + (IF loss = INVALID_LOSS_RATE THEN start ELSE loss)

\* Broken variant: the number of coded packets is not cut.
BatchesForDataUncut(loss, rate) ==
  LET left == Unit - Redundancy(loss, 600)
      n0 == kMaxN(rate)
  IN  UNION {IF k0 > kMaxK THEN {<<kMaxK, n>> : n \in Ceils(Unit * kMaxK, left)}
             ELSE {<<k0, n0>>} : k0 \in Floors(n0 * left, Unit)}

\* The batch that fits in the coherence time, cut to kMaxK packets of data.
BatchesForData(loss, rate) ==
  LET left == Unit - Redundancy(loss, 600)
      n0 == kMaxN(rate)
  IN  UNION {IF k0 > kMaxK
             THEN {<<kMaxK, TheSmaller(n, kGFSize)>> : n \in Ceils(Unit * kMaxK, left)}
             ELSE {<<k0, TheSmaller(n0, kGFSize)>>} : k0 \in Floors(n0 * left, Unit)}

ApplyFECForData(use_fec, loss, rate) ==
  LET cut == TheSmaller(kMaxN(rate), kMaxK)
      \* One packet more than the loss alone calls for, at least.
      k(batch, no_extra) == TheLarger(1, IF IsModest(loss)
                                         THEN TheSmaller(batch[1], no_extra - kExtraNumPkts)
                                         ELSE batch[1])
  IN  IF ~use_fec THEN {<<cut, cut>>}
      ELSE UNION {{<<k(batch, no_extra), batch[2]>> :
                     no_extra \in Floors(batch[2] * (Unit - loss), Unit)} :
                  batch \in BatchesForData(loss, rate)}

\* n for k packets under a redundancy, with one packet more than the loss alone
\* calls for if that is at most max.
Protected(k, loss, ns, max) ==
  LET none == IF IsModest(loss) THEN Ceils(Unit * k, Unit - loss) ELSE {-1}
      enough(n, no_extra) ==
        IF n < no_extra + kExtraNumPkts /\ no_extra + kExtraNumPkts <= max
        THEN no_extra + kExtraNumPkts ELSE n
  IN  {TheSmaller(enough(n, no_extra), max) : n \in ns, no_extra \in none}

\* The redundancy is at most 1 - k / (kGFSize - 1), so that n is at most kGFSize.
ApplyFECForTimeOut(use_fec, loss, k) ==
  LET redundancy == Redundancy(loss, 800)
      most == kGFSize - 1
      ns == IF (Unit - redundancy) * most < Unit * k THEN {most, kGFSize}
            ELSE Ceils(Unit * k, Unit - redundancy)
  IN  IF ~use_fec THEN {k} ELSE Protected(k, loss, ns, kGFSize)

\* ceil(k / (1 - redundancy)) as an int. A redundancy of 999 or 1000 thousandths may be so close
\* to 1 that the quotient is beyond every int: converting it is then undefined, and gives INT_MIN
\* on an x86, and the largest int where conversions saturate, which is cut like any other.
INT_MIN == -2147483647 - 1
AsInts(k, redundancy) ==
  (IF redundancy < Unit THEN Ceils(Unit * k, Unit - redundancy) ELSE {})
    \cup (IF redundancy \in {Unit - 1, Unit} THEN {INT_MIN} ELSE {})

\* Broken variant: the packets that fit may be more than can be encoded.
ApplyFECForRetransmissionUncut(use_fec, loss, rate, k) ==
  LET redundancy == Redundancy(loss, 800)
      max == kMaxN(rate)
      ns == AsInts(k, redundancy) \cup (IF redundancy >= Unit THEN {max} ELSE {})
  IN  IF ~use_fec THEN {k} ELSE Protected(k, loss, ns, max)

ApplyFECForRetransmission(use_fec, loss, rate, k) ==
  LET redundancy == Redundancy(loss, 800)
      max == TheSmaller(kMaxN(rate), kGFSize)
      ns == AsInts(k, redundancy) \cup (IF redundancy >= Unit THEN {max} ELSE {})
  IN  IF ~use_fec THEN {k} ELSE Protected(k, loss, ns, max)

\* The <<k, n>> for a batch sent at this rate.
ApplyFEC(mode, use_fec, loss, rate, k) ==
  CASE mode = "Data" -> ApplyFECForData(use_fec, loss, rate)
    [] mode = "TimeOut" -> {<<k, n>> : n \in ApplyFECForTimeOut(use_fec, loss, k)}
    [] mode = "Retrans" -> {<<k, n>> : n \in ApplyFECForRetransmission(use_fec, loss, rate, k)}

-----------------------------------------------------------------------------
(* Sampling: one of the next higher rates, or the next lower for protection.*)

HigherRates(version, ind) ==
  IF version \in Sequential THEN ind + 1 .. ind + kNumSampleRates ELSE ind + 1 .. ind + kSampleBound

SampleRates(version, feasible, rate) ==
  LET ind == CHOOSE i \in RateInd : Rates[i] = rate
      higher == {Rates[i] : i \in HigherRates(version, ind) \cap RateInd}
      candidates == {r \in higher : IsFeasible(feasible, r)}
  IN  IF candidates # {} THEN candidates ELSE {Rates[TheLarger(ind - 1, 1)]}

\* The rates of the packets of a batch, which the scout versions sort.
SortedRates(num_data_pkts, rate, sample) ==
  LET copies == [i \in 1 .. num_data_pkts |-> rate]
  IN  IF sample < rate THEN <<sample>> \o copies ELSE Append(copies, sample)

FindRatesForBatch(version, num_data_pkts, rate, sample) ==
  IF version = "Fixed" THEN [i \in 1 .. num_data_pkts |-> rate]
  ELSE SortedRates(num_data_pkts, rate, sample)
=============================================================================
