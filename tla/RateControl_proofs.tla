---------------------------- MODULE RateControl_proofs ----------------------------
(***************************************************************************)
(* Theorems about timers, lookups in the feedback records, decisions on    *)
(* rate and redundancy and the baselines' tables, for all rates, sizes and *)
(* options.                                                                *)
(*                                                                         *)
(* The first sections are about the operators: what rounding, searching,   *)
(* counting and choosing return. The inductive invariant Inv rests on them;*)
(* SafeInv adds what keeps the losses 1 until a raw ack comes. SampleInv,  *)
(* at the end, adds that SampleRate's averages are those of its counters.  *)
(***************************************************************************)
EXTENDS RateControl, FiniteSetTheorems, SequenceTheorems, WellFoundedInduction, TLAPS

-----------------------------------------------------------------------------
(* Numbers.                                                                *)

LEMMA Quotient ==
  ASSUME NEW a \in Int, NEW b \in Nat \ {0}
  PROVE  /\ a \div b \in Int /\ a % b \in 0 .. b - 1
         /\ b * (a \div b) <= a /\ a < b * (a \div b) + b
         /\ a = b * (a \div b) + (a % b)
OBVIOUS

LEMMA ProductOrder ==
  ASSUME NEW a \in Int, NEW b \in Int, NEW c \in Nat, a <= b
  PROVE  /\ a * c \in Int /\ b * c \in Int /\ c * a = a * c /\ c * b = b * c
         /\ a * c <= b * c
<1>1. PICK d \in Nat : b = a + d
  <2>1. b - a \in Nat /\ b = a + (b - a)
    OBVIOUS
  <2> QED BY <2>1
<1>2. d * c \in Nat /\ b * c = a * c + d * c
  BY <1>1
<1> QED BY <1>2

\* What is rounded is an integer, and rounding up stays above every lower bound.
LEMMA FloorsBelow ==
  ASSUME NEW a \in Int, NEW b \in Nat \ {0}, NEW m \in Int, a <= m * b, NEW n \in Floors(a, b)
  PROVE  n \in Int /\ n <= m
<1> DEFINE q == a \div b
<1>1. q \in Int /\ b * q <= a /\ a < b * q + b
  BY Quotient
<1>2. n \in {q, q - 1}
  BY DEF Floors
<1> HIDE DEF q
<1>3. q <= m
  <2> SUFFICES ASSUME m + 1 <= q PROVE FALSE
    BY <1>1
  <2>1. (m + 1) * b <= q * b /\ b * q = q * b
    BY <1>1, ProductOrder
  <2>2. (m + 1) * b = m * b + b /\ m * b \in Int /\ b * q \in Int
    BY <1>1
  <2> QED BY <1>1, <2>1, <2>2
<1> QED BY <1>1, <1>2, <1>3

LEMMA CeilsAbove ==
  ASSUME NEW a \in Int, NEW b \in Nat \ {0}, NEW m \in Int, m * b <= a, NEW n \in Ceils(a, b)
  PROVE  n \in Int /\ m <= n
<1> DEFINE q == a \div b
<1>1. q \in Int /\ b * q <= a /\ a < b * q + b
  BY Quotient
<1>2. n \in {q, q + 1}
  BY DEF Ceils
<1> HIDE DEF q
<1>3. m <= q
  <2> SUFFICES ASSUME q + 1 <= m PROVE FALSE
    BY <1>1
  <2>1. (q + 1) * b <= m * b
    BY <1>1, ProductOrder
  <2>2. (q + 1) * b = b * q + b /\ m * b \in Int /\ b * q \in Int
    BY <1>1
  <2> QED BY <1>1, <2>1, <2>2
<1> QED BY <1>1, <1>2, <1>3

\* Every nonempty set of natural numbers has a least element.
LEMMA LeastExists ==
  ASSUME NEW S, S \subseteq Nat, S # {}
  PROVE  \E x \in S : \A y \in S : x <= y
<1>1. \E R : IsWellFoundedOn(R, Nat) /\ \A x, y \in Nat : y < x => <<y, x>> \in R
  <2>1. IsWellFoundedOn(OpToRel(<, Nat), Nat)
    BY NatLessThanWellFounded
  <2>2. \A x, y \in Nat : y < x => <<y, x>> \in OpToRel(<, Nat)
    BY DEF OpToRel
  <2> QED BY <2>1, <2>2
<1>2. PICK R : IsWellFoundedOn(R, Nat) /\ \A x, y \in Nat : y < x => <<y, x>> \in R
  BY <1>1
<1>3. PICK x \in S : \A y \in S : ~ (<<y, x>> \in R)
  BY <1>2, WFMin
<1>4. ASSUME NEW y \in S PROVE x <= y
  <2>1. ~(y < x)
    BY <1>2, <1>3
  <2> QED BY <2>1
<1> QED BY <1>4

-----------------------------------------------------------------------------
(* Timers.                                                                 *)

(***************************************************************************)
(* A second more outweighs any nanoseconds.                                *)
(***************************************************************************)
LEMMA SecondsDominate ==
  ASSUME NEW s \in Int, NEW r \in Int, s < r
  PROVE  s * Billion + Billion <= r * Billion
<1>1. PICK d \in Nat : r = s + 1 + d
  <2>1. r - s - 1 \in Nat
    OBVIOUS
  <2> QED BY <2>1
<1>2. r * Billion = s * Billion + Billion + d * Billion
  BY <1>1, TimerAssumption
<1>3. d * Billion \in Nat
  BY TimerAssumption
<1>4. s * Billion \in Int
  BY TimerAssumption
<1> QED BY <1>2, <1>3, <1>4, TimerAssumption

LEMMA NSecInt ==
  ASSUME NEW t \in Timer
  PROVE  /\ t.sec \in Int /\ t.nsec \in Int /\ 0 <= t.nsec /\ t.nsec < Billion
         /\ t.sec * Billion \in Int
         /\ GetNSec(t) \in Int
BY TimerAssumption DEF Timer, GetNSec

(***************************************************************************)
(* The comparisons of monotonic_timer.cc order timers by time: the binary  *)
(* search and the expiry of the feedback records rely on it.               *)
(***************************************************************************)
THEOREM LessIsEarlier ==
  ASSUME NEW a \in Timer, NEW b \in Timer
  PROVE  /\ Less(a, b) <=> GetNSec(a) < GetNSec(b)
         /\ AtMost(a, b) <=> GetNSec(a) <= GetNSec(b)
<1> USE NSecInt, TimerAssumption
<1>1. CASE a.sec < b.sec
  <2>1. a.sec * Billion + Billion <= b.sec * Billion
    BY <1>1, SecondsDominate
  <2>2. GetNSec(a) < GetNSec(b)
    BY <2>1 DEF GetNSec
  <2> QED BY <1>1, <2>2 DEF Less, AtMost
<1>2. CASE b.sec < a.sec
  <2>1. b.sec * Billion + Billion <= a.sec * Billion
    BY <1>2, SecondsDominate
  <2>2. GetNSec(b) < GetNSec(a)
    BY <2>1 DEF GetNSec
  <2> QED BY <1>2, <2>2 DEF Less, AtMost
<1>3. CASE a.sec = b.sec
  BY <1>3 DEF GetNSec, Less, AtMost
<1> QED BY <1>1, <1>2, <1>3

LEMMA Distribute ==
  ASSUME NEW s \in Int, NEW r \in Int
  PROVE  /\ (s + r) * Billion = s * Billion + r * Billion
         /\ (s + r + 1) * Billion = s * Billion + r * Billion + Billion
         /\ (s - r) * Billion = s * Billion - r * Billion
         /\ (s - r - 1) * Billion = s * Billion - r * Billion - Billion
BY TimerAssumption

(***************************************************************************)
(* operator+ and operator- are exact and carry or borrow at most one       *)
(* second: the result is normalised, also when the right side is larger.   *)
(***************************************************************************)
THEOREM ArithmeticExact ==
  ASSUME NEW a \in Timer, NEW b \in Timer
  PROVE  /\ Plus(a, b) \in Timer /\ GetNSec(Plus(a, b)) = GetNSec(a) + GetNSec(b)
         /\ Minus(a, b) \in Timer /\ GetNSec(Minus(a, b)) = GetNSec(a) - GetNSec(b)
<1> USE NSecInt, TimerAssumption
<1>1. Plus(a, b) \in Timer
  BY DEF Plus, Timer
<1>2. Minus(a, b) \in Timer
  BY DEF Minus, Timer
<1>3. GetNSec(Plus(a, b)) = GetNSec(a) + GetNSec(b)
  <2>1. CASE a.nsec + b.nsec >= Billion
    <3>1. GetNSec(Plus(a, b)) = (a.sec + b.sec + 1) * Billion + (a.nsec + b.nsec - Billion)
      BY <2>1 DEF Plus, GetNSec
    <3>2. (a.sec + b.sec + 1) * Billion = a.sec * Billion + b.sec * Billion + Billion
      BY Distribute
    <3> QED BY <3>1, <3>2 DEF GetNSec
  <2>2. CASE ~(a.nsec + b.nsec >= Billion)
    <3>1. GetNSec(Plus(a, b)) = (a.sec + b.sec) * Billion + (a.nsec + b.nsec)
      BY <2>2 DEF Plus, GetNSec
    <3>2. (a.sec + b.sec) * Billion = a.sec * Billion + b.sec * Billion
      BY Distribute
    <3> QED BY <3>1, <3>2 DEF GetNSec
  <2> QED BY <2>1, <2>2
<1>4. GetNSec(Minus(a, b)) = GetNSec(a) - GetNSec(b)
  <2>1. CASE a.nsec - b.nsec < 0
    <3>1. GetNSec(Minus(a, b)) = (a.sec - b.sec - 1) * Billion + (a.nsec - b.nsec + Billion)
      BY <2>1 DEF Minus, GetNSec
    <3>2. (a.sec - b.sec - 1) * Billion = a.sec * Billion - b.sec * Billion - Billion
      BY Distribute
    <3> QED BY <3>1, <3>2 DEF GetNSec
  <2>2. CASE ~(a.nsec - b.nsec < 0)
    <3>1. GetNSec(Minus(a, b)) = (a.sec - b.sec) * Billion + (a.nsec - b.nsec)
      BY <2>2 DEF Minus, GetNSec
    <3>2. (a.sec - b.sec) * Billion = a.sec * Billion - b.sec * Billion
      BY Distribute
    <3> QED BY <3>1, <3>2 DEF GetNSec
  <2> QED BY <2>1, <2>2
<1> QED BY <1>1, <1>2, <1>3, <1>4

-----------------------------------------------------------------------------
(* Redundancy: what the FEC operators return can be encoded.               *)

LEMMA ConstantsTyped ==
  /\ kMaxK \in Nat \ {0} /\ gf_size \in Nat /\ kGFSize = gf_size - 1 /\ kMaxK < kGFSize /\ kGFSize \in Nat
  /\ Rates \in Seq(Nat \ {0}) /\ Len(Rates) \in Nat \ {0} /\ RateInd = 1 .. Len(Rates)
  /\ RateSet \subseteq Nat \ {0} /\ \A i \in RateInd : Rates[i] \in RateSet
<1>1. kMaxK \in Nat \ {0} /\ gf_size \in Nat /\ kGFSize = gf_size - 1 /\ kMaxK < kGFSize /\ kGFSize \in Nat
  BY DecisionAssumption DEF kGFSize, kNumSampleRates
<1>2. Rates \in Seq(Nat \ {0}) /\ Rates # <<>> /\ RateInd = 1 .. Len(Rates)
  BY DecisionAssumption DEF RateInd
<1>3. Len(Rates) \in Nat \ {0}
  BY <1>2, EmptySeq
<1>4. RateSet \subseteq Nat \ {0} /\ \A i \in RateInd : Rates[i] \in RateSet
  BY <1>2, ElementOfSeq DEF RateSet
<1> QED BY <1>1, <1>2, <1>3, <1>4

LEMMA MaxNTyped ==
  ASSUME NEW r \in RateSet
  PROVE  kMaxN(r) \in Nat \ {0}
<1>1. PICK i \in RateInd : r = Rates[i]
  BY DEF RateSet
<1>2. PktDuration(r) > 0 /\ kMaxN(r) > 0
  BY <1>1, DecisionAssumption
<1>3. PktDuration(r) \in Int
  <2>1. r \in Nat \ {0} /\ PktSize \in Nat /\ ExtraTime \in Nat
    BY ConstantsTyped, DecisionAssumption
  <2>2. (80 * PktSize) \div r \in Int
    <3>1. 80 * PktSize \in Int
      BY <2>1
    <3> QED BY <2>1, <3>1, Quotient
  <2> QED BY <2>1, <2>2 DEF PktDuration
<1>4. kMaxN(r) \in Int
  <2>1. PktDuration(r) \in Nat \ {0} /\ CoherenceTime \in Int
    BY <1>2, <1>3, DecisionAssumption
  <2> QED BY <2>1, Quotient DEF kMaxN
<1> QED BY <1>2, <1>4

\* Protected never takes a packet away, except those that cannot be sent.
LEMMA ProtectedBounds ==
  ASSUME NEW k \in Nat \ {0}, NEW loss \in LossRate, NEW ns \in SUBSET Int, NEW max \in Int, k <= max,
         \A n \in ns : k <= n, NEW m \in Protected(k, loss, ns, max)
  PROVE  m \in k .. max
<1> DEFINE none == IF IsModest(loss) THEN Ceils(Unit * k, Unit - loss) ELSE {-1}
           enough(n, no_extra) ==
             IF n < no_extra + kExtraNumPkts /\ no_extra + kExtraNumPkts <= max
             THEN no_extra + kExtraNumPkts ELSE n
<1>1. PICK n \in ns, no_extra \in none : m = TheSmaller(enough(n, no_extra), max)
  BY DEF Protected
<1>2. no_extra \in Int
  <2>1. CASE IsModest(loss)
    <3>1. Unit * k \in Int /\ Unit - loss \in Nat \ {0}
      BY <2>1 DEF IsModest, kMaxLoss, LossRate, Unit, INVALID_LOSS_RATE
    <3>2. (Unit * k) \div (Unit - loss) \in Int
      BY <3>1, Quotient
    <3> QED BY <2>1, <3>2 DEF Ceils
  <2>2. CASE ~IsModest(loss)
    BY <2>2
  <2> QED BY <2>1, <2>2
<1> HIDE DEF none
<1>3. n \in Int /\ k <= n
  OBVIOUS
<1>4. enough(n, no_extra) \in Int /\ k <= enough(n, no_extra)
  BY <1>2, <1>3 DEF kExtraNumPkts
<1> HIDE DEF enough
<1> QED BY <1>1, <1>4 DEF TheSmaller

LEMMA RedundancyBounds ==
  ASSUME NEW loss \in LossRate, NEW start \in 0 .. Unit
  PROVE  /\ Redundancy(loss, start) \in Int /\ kExtraRedundancy <= Redundancy(loss, start)
         /\ Unit - Redundancy(loss, start) \in Int /\ Unit - Redundancy(loss, start) <= Unit
BY DEF Redundancy, LossRate, Unit, INVALID_LOSS_RATE, kExtraRedundancy

\* The batch that fits in the coherence time.
LEMMA BatchesForDataBounds ==
  ASSUME NEW loss \in LossRate, NEW r \in RateSet, NEW batch \in BatchesForData(loss, r)
  PROVE  /\ batch[1] \in Int /\ batch[1] <= kMaxK
         /\ batch[2] \in 1 .. kGFSize /\ batch[1] <= batch[2]
<1> DEFINE left == Unit - Redundancy(loss, 600)
           n0   == kMaxN(r)
<1>1. left \in Int /\ left <= Unit /\ n0 \in Nat \ {0} /\ Unit \in Nat \ {0}
  <2>1. 600 \in 0 .. Unit /\ Unit \in Nat \ {0}
    BY DEF Unit
  <2>2. left \in Int /\ left <= Unit
    BY <2>1, RedundancyBounds
  <2>3. n0 \in Nat \ {0}
    BY MaxNTyped
  <2> QED BY <2>1, <2>2, <2>3
<1>2. PICK k0 \in Floors(n0 * left, Unit) :
        batch \in IF k0 > kMaxK THEN {<<kMaxK, TheSmaller(n, kGFSize)>> : n \in Ceils(Unit * kMaxK, left)}
                  ELSE {<<k0, TheSmaller(n0, kGFSize)>>}
  BY DEF BatchesForData
<1> HIDE DEF left, n0
<1>3. k0 \in Int /\ k0 <= n0
  <2>1. n0 * left \in Int /\ n0 * left <= n0 * Unit
    BY <1>1, ProductOrder
  <2> QED BY <1>1, <1>2, <2>1, FloorsBelow
<1>4. CASE k0 > kMaxK
  <2>1. left \in Nat \ {0}
    <3> SUFFICES ASSUME left <= 0 PROVE FALSE
      BY <1>1
    <3>1. left * n0 <= 0 * n0 /\ n0 * left = left * n0 /\ 0 * n0 = 0
      BY <1>1, ProductOrder
    <3>2. n0 * left \in Int /\ n0 * left <= 0 * Unit
      BY <1>1, <3>1
    <3>3. k0 <= 0
      BY <1>1, <1>2, <3>2, FloorsBelow
    <3> QED BY <1>3, <1>4, <3>3, ConstantsTyped
  <2>2. PICK n \in Ceils(Unit * kMaxK, left) : batch = <<kMaxK, TheSmaller(n, kGFSize)>>
    BY <1>2, <1>4
  <2>3. n \in Int /\ kMaxK <= n
    <3>1. kMaxK * left <= Unit * kMaxK /\ Unit * kMaxK \in Int
      BY <1>1, ProductOrder, ConstantsTyped
    <3> QED BY <2>1, <3>1, CeilsAbove, ConstantsTyped
  <2> QED BY <2>2, <2>3, ConstantsTyped DEF TheSmaller
<1>5. CASE ~(k0 > kMaxK)
  <2>1. batch = <<k0, TheSmaller(n0, kGFSize)>>
    BY <1>2, <1>5
  <2> QED BY <1>1, <1>3, <1>5, <2>1, ConstantsTyped DEF TheSmaller
<1> QED BY <1>4, <1>5

LEMMA ForDataBounds ==
  ASSUME NEW use_fec \in BOOLEAN, NEW loss \in LossRate, NEW r \in RateSet,
         NEW kn \in ApplyFECForData(use_fec, loss, r)
  PROVE  kn[1] \in 1 .. kMaxK /\ kn[2] \in kn[1] .. kGFSize
<1>1. CASE ~use_fec
  BY <1>1, MaxNTyped, ConstantsTyped DEF ApplyFECForData, TheSmaller
<1>2. CASE use_fec
  <2> DEFINE k(batch, no_extra) ==
               TheLarger(1, IF IsModest(loss) THEN TheSmaller(batch[1], no_extra - kExtraNumPkts) ELSE batch[1])
  <2>0. PICK batch \in BatchesForData(loss, r) :
          \E no_extra \in Floors(batch[2] * (Unit - loss), Unit) : kn = <<k(batch, no_extra), batch[2]>>
    BY <1>2 DEF ApplyFECForData
  <2>1. PICK no_extra \in Floors(batch[2] * (Unit - loss), Unit) : kn = <<k(batch, no_extra), batch[2]>>
    BY <2>0
  <2>2. /\ batch[1] \in Int /\ batch[1] <= kMaxK
        /\ batch[2] \in 1 .. kGFSize /\ batch[1] <= batch[2]
    BY BatchesForDataBounds
  <2>3. no_extra \in Int
    <3>1. batch[2] * (Unit - loss) \in Int /\ Unit \in Nat \ {0}
      BY <2>2, ConstantsTyped DEF LossRate, Unit, INVALID_LOSS_RATE
    <3>2. (batch[2] * (Unit - loss)) \div Unit \in Int
      BY <3>1, Quotient
    <3> HIDE DEF k
    <3> QED BY <3>2 DEF Floors
  <2>4. k(batch, no_extra) \in Int /\ 1 <= k(batch, no_extra) /\ (k(batch, no_extra) <= batch[1] \/ k(batch, no_extra) = 1)
    BY <2>2, <2>3 DEF TheLarger, TheSmaller, kExtraNumPkts
  <2> HIDE DEF k
  <2>5. kn[1] = k(batch, no_extra) /\ kn[2] = batch[2]
    BY <2>1
  <2> QED BY <2>2, <2>4, <2>5, ConstantsTyped
<1> QED BY <1>1, <1>2

\* With a redundancy of at most 1 - k / (kGFSize - 1) the packets can be encoded.
LEMMA ForTimeOutBounds ==
  ASSUME NEW use_fec \in BOOLEAN, NEW loss \in LossRate, NEW k \in 1 .. kMaxK,
         NEW n \in ApplyFECForTimeOut(use_fec, loss, k)
  PROVE  n \in k .. kGFSize
<1> DEFINE redundancy == Redundancy(loss, 800)
           most == kGFSize - 1
           ns == IF (Unit - redundancy) * most < Unit * k THEN {most, kGFSize}
                 ELSE Ceils(Unit * k, Unit - redundancy)
<1>0. k \in Nat \ {0} /\ k <= kMaxK /\ k <= most /\ k <= kGFSize /\ most \in Nat \ {0} /\ kGFSize \in Int
  BY ConstantsTyped
<1>1. CASE ~use_fec
  BY <1>0, <1>1 DEF ApplyFECForTimeOut
<1>2. CASE use_fec
  <2>1. n \in Protected(k, loss, ns, kGFSize)
    BY <1>2 DEF ApplyFECForTimeOut
  <2>2. Unit - redundancy \in Int /\ Unit - redundancy <= Unit /\ Unit \in Nat \ {0}
    <3>1. 800 \in 0 .. Unit /\ Unit \in Nat \ {0}
      BY DEF Unit
    <3> QED BY <3>1, RedundancyBounds
  <2> HIDE DEF redundancy, most
  <2>3. ns \subseteq Int /\ \A m \in ns : k <= m
    <3>1. CASE (Unit - redundancy) * most < Unit * k
      BY <1>0, <3>1
    <3>2. CASE ~((Unit - redundancy) * most < Unit * k)
      <4>1. Unit - redundancy \in Nat \ {0}
        <5> SUFFICES ASSUME Unit - redundancy <= 0 PROVE FALSE
          BY <2>2
        <5>1. (Unit - redundancy) * most <= 0 * most /\ 0 * most = 0 /\ (Unit - redundancy) * most \in Int
          BY <1>0, <2>2, ProductOrder
        <5>2. 0 < Unit * k /\ Unit * k \in Int
          BY <1>0 DEF Unit
        <5> QED BY <3>2, <5>1, <5>2
      <4>2. k * (Unit - redundancy) <= Unit * k /\ Unit * k \in Int
        BY <1>0, <2>2, <4>1, ProductOrder
      <4>3. \A m \in Ceils(Unit * k, Unit - redundancy) : m \in Int /\ k <= m
        BY <1>0, <4>1, <4>2, CeilsAbove
      <4> QED BY <3>2, <4>3
    <3> QED BY <3>1, <3>2
  <2> HIDE DEF ns
  <2> QED BY <1>0, <2>1, <2>3, ProtectedBounds
<1> QED BY <1>1, <1>2

\* Within a thousandth of 1 the packets of a retransmission are not added up.
NearOne(loss) == Redundancy(loss, 800) \in {Unit - 1, Unit}

LEMMA ProtectedSplits ==
  ASSUME NEW k, NEW loss, NEW A, NEW B, NEW max, NEW n \in Protected(k, loss, A \cup B, max)
  PROVE  n \in Protected(k, loss, A, max) \/ n \in Protected(k, loss, B, max)
BY DEF Protected

\* A quotient that became INT_MIN leaves no packet: 0 is one more than -1.
LEMMA NothingProtected ==
  ASSUME NEW loss \in LossRate, NearOne(loss), NEW max \in Nat, NEW n \in Protected(1, loss, {INT_MIN}, max)
  PROVE  n = 0
<1>1. ~IsModest(loss)
  BY DEF NearOne, Redundancy, IsModest, kExtraRedundancy, kMaxLoss, Unit, LossRate, INVALID_LOSS_RATE
<1> DEFINE enough == IF INT_MIN < -1 + kExtraNumPkts /\ -1 + kExtraNumPkts <= max
                     THEN -1 + kExtraNumPkts ELSE INT_MIN
<1>2. n = TheSmaller(enough, max)
  BY <1>1 DEF Protected
<1>3. enough = 0
  BY DEF INT_MIN, kExtraNumPkts
<1> HIDE DEF enough
<1> QED BY <1>2, <1>3 DEF TheSmaller

LEMMA ForRetransmissionBounds ==
  ASSUME NEW use_fec \in BOOLEAN, NEW loss \in LossRate, NEW r \in RateSet,
         NEW n \in ApplyFECForRetransmission(use_fec, loss, r, 1)
  PROVE  n \in 1 .. kGFSize \/ (use_fec /\ NearOne(loss) /\ n = 0)
<1> DEFINE redundancy == Redundancy(loss, 800)
           max == TheSmaller(kMaxN(r), kGFSize)
           ceils == IF redundancy < Unit THEN Ceils(Unit * 1, Unit - redundancy) ELSE {}
           beyond == IF redundancy \in {Unit - 1, Unit} THEN {INT_MIN} ELSE {}
           full == IF redundancy >= Unit THEN {max} ELSE {}
<1>0. max \in 1 .. kGFSize /\ kGFSize \in Nat \ {0} /\ max \in Nat /\ max \in Int /\ 1 <= max
  BY MaxNTyped, ConstantsTyped DEF TheSmaller
<1>1. CASE ~use_fec
  BY <1>0, <1>1 DEF ApplyFECForRetransmission
<1>2. CASE use_fec
  <2>1. n \in Protected(1, loss, (ceils \cup beyond) \cup full, max)
    BY <1>2 DEF ApplyFECForRetransmission, AsInts
  <2>2. redundancy \in Int /\ Unit - redundancy \in Int /\ Unit - redundancy <= Unit /\ Unit \in Nat \ {0}
    <3>1. 800 \in 0 .. Unit /\ Unit \in Nat \ {0}
      BY DEF Unit
    <3> QED BY <3>1, RedundancyBounds
  <2>3. NearOne(loss) <=> redundancy \in {Unit - 1, Unit}
    BY DEF NearOne
  <2> HIDE DEF redundancy, max
  <2>4. ceils \subseteq Int /\ \A m \in ceils : 1 <= m
    <3>1. CASE redundancy < Unit
      <4>1. Unit - redundancy \in Nat \ {0} /\ 1 * (Unit - redundancy) <= Unit * 1 /\ Unit * 1 \in Int
        BY <2>2, <3>1
      <4>2. \A m \in Ceils(Unit * 1, Unit - redundancy) : m \in Int /\ 1 <= m
        BY <4>1, CeilsAbove
      <4> QED BY <3>1, <4>2
    <3>2. CASE ~(redundancy < Unit)
      BY <3>2
    <3> QED BY <3>1, <3>2
  <2>5. full \subseteq Int /\ \A m \in full : 1 <= m
    BY <1>0
  <2>6. beyond = {} \/ (NearOne(loss) /\ beyond = {INT_MIN})
    BY <2>3
  <2> HIDE DEF ceils, beyond, full
  <2>7. \/ n \in Protected(1, loss, ceils, max) \/ n \in Protected(1, loss, full, max)
        \/ n \in Protected(1, loss, beyond, max)
    BY <2>1, ProtectedSplits
  <2>8. CASE n \in Protected(1, loss, ceils, max) \/ n \in Protected(1, loss, full, max)
    <3>1. n \in 1 .. max
      BY <1>0, <2>4, <2>5, <2>8, ProtectedBounds
    <3> QED BY <1>0, <3>1
  <2>9. CASE n \in Protected(1, loss, beyond, max)
    <3>1. beyond # {}
      BY <2>9 DEF Protected
    <3>2. NearOne(loss) /\ n \in Protected(1, loss, {INT_MIN}, max)
      BY <2>6, <2>9, <3>1
    <3> QED BY <1>0, <1>2, <3>2, NothingProtected
  <2> QED BY <2>7, <2>8, <2>9
<1> QED BY <1>1, <1>2

\* For every loss, also an unknown one, and every rate: a batch keeps at least
\* one and at most kMaxK packets, gets at least as many coded ones, and leaves
\* room for the sampled one, up to the rounding of the quotients. Only of a
\* retransmission whose redundancy is within a thousandth of 1 that is not so: the
\* conversion to int may leave it with no packets, which the assertion at
\* scout_rate.cc:801 finds.
THEOREM FECEncodable ==
  ASSUME NEW mode \in {"Data", "TimeOut", "Retrans"}, NEW use_fec \in BOOLEAN, NEW loss \in LossRate,
         NEW r \in RateSet, NEW k \in Nat, mode = "TimeOut" => k \in 1 .. kMaxK, mode = "Retrans" => k = 1,
         NEW kn \in ApplyFEC(mode, use_fec, loss, r, k)
  PROVE  /\ kn[1] \in 1 .. kMaxK
         /\ \/ kn[2] \in kn[1] .. kGFSize
            \/ mode = "Retrans" /\ use_fec /\ NearOne(loss) /\ kn[2] = 0
         /\ mode # "Data" => kn[1] = k
<1>1. CASE mode = "Data"
  BY <1>1, ForDataBounds DEF ApplyFEC
<1>2. CASE mode = "TimeOut"
  <2>1. PICK n \in ApplyFECForTimeOut(use_fec, loss, k) : kn = <<k, n>>
    BY <1>2 DEF ApplyFEC
  <2> QED BY <1>2, <2>1, ForTimeOutBounds
<1>3. CASE mode = "Retrans"
  <2>1. PICK n \in ApplyFECForRetransmission(use_fec, loss, r, k) : kn = <<k, n>>
    BY <1>3 DEF ApplyFEC
  <2> QED BY <1>3, <2>1, ForRetransmissionBounds, ConstantsTyped
<1> QED BY <1>1, <1>2, <1>3

-----------------------------------------------------------------------------
(* The lookups in the feedback records.                                    *)

\* Packets are sent Gap apart.
SendTimes == {SentAt(i) : i \in Nat}
Record == [timer : SendTimes, rate : RateSet, acked : BOOLEAN]

LEMMA NanosecondsTyped ==
  ASSUME NEW n \in Int
  PROVE  Nanoseconds(n) \in Timer /\ GetNSec(Nanoseconds(n)) = n
<1>1. n \div Billion \in Int /\ n % Billion \in 0 .. Billion - 1 /\ n = Billion * (n \div Billion) + (n % Billion)
  BY Quotient, TimerAssumption
<1>2. Billion * (n \div Billion) = (n \div Billion) * Billion
  BY <1>1, TimerAssumption
<1> QED BY <1>1, <1>2 DEF Nanoseconds, Timer, GetNSec

LEMMA SendTimesApart ==
  ASSUME NEW a \in SendTimes, NEW b \in SendTimes
  PROVE  a \in Timer /\ GetNSec(a) # GetNSec(b) - 1
<1>1. PICK i \in Nat : a = SentAt(i)
  BY DEF SendTimes
<1>2. PICK j \in Nat : b = SentAt(j)
  BY DEF SendTimes
<1>3. Gap \in Nat /\ 1 < Gap /\ StartTime \in Nat
  BY ControlAssumption
<1>4. Gap * i \in Int /\ Gap * j \in Int
  BY <1>3
<1>5. a \in Timer /\ GetNSec(a) = StartTime + Gap * i /\ GetNSec(b) = StartTime + Gap * j
  BY <1>1, <1>2, <1>3, <1>4, NanosecondsTyped DEF SentAt
<1>6. Gap * i # Gap * j - 1
  <2>1. CASE i >= j
    <3>1. j * Gap <= i * Gap
      BY <1>3, <2>1, ProductOrder
    <3> QED BY <1>3, <1>4, <3>1
  <2>2. CASE i + 1 <= j
    <3>1. (i + 1) * Gap <= j * Gap /\ (i + 1) * Gap = Gap * i + Gap
      BY <1>3, <2>2, ProductOrder
    <3> QED BY <1>3, <1>4, <3>1
  <2> QED BY <2>1, <2>2
<1> QED BY <1>3, <1>4, <1>5, <1>6

LEMMA SentAtTyped ==
  ASSUME NEW n \in Int
  PROVE  SentAt(n) \in Timer
<1>1. StartTime + Gap * n \in Int
  BY ControlAssumption
<1> QED BY <1>1, NanosecondsTyped DEF SentAt

LEMMA LessOrder ==
  ASSUME NEW a \in Timer, NEW b \in Timer, NEW c \in Timer
  PROVE  /\ ~Less(a, a)
         /\ Less(a, b) => ~Less(b, a)
         /\ Less(a, b) /\ Less(b, c) => Less(a, c)
         /\ a = b \/ Less(a, b) \/ Less(b, a)
<1>1. \A x \in Timer : x.sec \in Int /\ x.nsec \in Int /\ x = [sec |-> x.sec, nsec |-> x.nsec]
  BY TimerAssumption DEF Timer
<1>2. a.sec = b.sec /\ a.nsec = b.nsec => a = b
  BY <1>1
<1> QED BY <1>1, <1>2 DEF Less

\* The part searched, and the halves one of which the search goes on in.
Parts(left, right) == (left .. right) \X (left .. right)
Mid(p) == p[1] + (p[2] - p[1]) \div 2
LowerHalf(p) == <<p[1], Mid(p)>>
UpperHalf(p) == <<Mid(p) + 1, p[2]>>
Size(p) == p[2] - p[1]
SearchStep(recs, t, search, p) ==
  IF p[1] >= p[2] THEN p[2]
  ELSE IF recs[Mid(p) + 1].timer = t THEN Mid(p)
  ELSE IF Less(t, recs[Mid(p) + 1].timer) THEN search[LowerHalf(p)]
  ELSE search[UpperHalf(p)]

LEMMA PartTyped ==
  ASSUME NEW left \in Int, NEW right \in Int, NEW p \in Parts(left, right)
  PROVE  p[1] \in left .. right /\ p[2] \in left .. right /\ Size(p) \in Int /\ p = <<p[1], p[2]>>
BY DEF Parts, Size

LEMMA HalvesShrink ==
  ASSUME NEW left \in Int, NEW right \in Int, NEW p \in Parts(left, right), p[1] < p[2]
  PROVE  /\ Mid(p) \in left .. right /\ p[1] <= Mid(p) /\ Mid(p) < p[2]
         /\ LowerHalf(p) \in Parts(left, right) /\ Size(LowerHalf(p)) <= Size(p) - 1
         /\ UpperHalf(p) \in Parts(left, right) /\ Size(UpperHalf(p)) <= Size(p) - 1
<1>1. p[1] \in Int /\ p[2] \in Int /\ p[1] \in left .. right /\ p[2] \in left .. right
  BY PartTyped
<1>2. Mid(p) \in Int /\ p[1] <= Mid(p) /\ Mid(p) < p[2]
  BY <1>1 DEF Mid
<1>3. Mid(p) \in left .. right /\ Mid(p) + 1 \in left .. right
  BY <1>1, <1>2
<1> QED BY <1>1, <1>2, <1>3 DEF Parts, Size, LowerHalf, UpperHalf

\* The recursive function of Bisect exists, so that its equation can be used.
LEMMA BisectUnfolds ==
  ASSUME NEW recs, NEW t, NEW left \in Int, NEW right \in Int, left <= right
  PROVE  \E search : /\ Bisect(recs, t, left, right) = search[<<left, right>>]
                     /\ \A p \in Parts(left, right) : search[p] = SearchStep(recs, t, search, p)
<1> DEFINE S == Parts(left, right)
           step(g, p) == SearchStep(recs, t, g, p)
           solves(g, n) == g = [p \in S |-> IF Size(p) > n THEN right ELSE step(g, p)]
           search == CHOOSE g : g = [p \in S |-> step(g, p)]
<1>1. Bisect(recs, t, left, right) = search[<<left, right>>]
  BY DEF Bisect, SearchStep, Parts, Mid, LowerHalf, UpperHalf
<1>2. ASSUME NEW p \in S, p[1] >= p[2], NEW g PROVE step(g, p) = p[2]
  BY <1>2 DEF SearchStep
<1>3. ASSUME NEW p \in S, NEW g, NEW h, p[1] < p[2],
             g[LowerHalf(p)] = h[LowerHalf(p)], g[UpperHalf(p)] = h[UpperHalf(p)]
      PROVE  step(g, p) = step(h, p)
  BY <1>3 DEF SearchStep
<1> HIDE DEF step
<1>4. \A n \in Nat : \E g : solves(g, n)
  <2> DEFINE T == {n \in Nat : ~\E g : solves(g, n)}
  <2>1. ASSUME NEW n \in T, \A m \in T : n <= m PROVE FALSE
    <3>1. n \in Nat
      OBVIOUS
    <3>2. CASE n = 0
      <4> DEFINE g == [p \in S |-> IF Size(p) > 0 THEN right ELSE p[2]]
      <4>1. \A p \in S : Size(p) > 0 \/ step(g, p) = p[2]
        <5> SUFFICES ASSUME NEW p \in S, ~(Size(p) > 0) PROVE step(g, p) = p[2]
          OBVIOUS
        <5>1. p[1] >= p[2]
          BY PartTyped DEF Size
        <5> QED BY <1>2, <5>1
      <4> HIDE DEF S
      <4>2. solves(g, 0)
        BY <4>1
      <4> QED BY <3>2, <4>2
    <3>3. CASE n # 0
      <4>1. n - 1 \in Nat /\ n - 1 \notin T
        <5> HIDE DEF T
        <5> QED BY <2>1, <3>1, <3>3
      <4>2. PICK g : solves(g, n - 1)
        BY <4>1
      <4> DEFINE h == [p \in S |-> IF Size(p) > n THEN right ELSE step(g, p)]
      <4>3. ASSUME NEW p \in S, Size(p) <= n - 1 PROVE h[p] = g[p]
        <5>1. ~(Size(p) > n) /\ ~(Size(p) > n - 1)
          BY <3>1, <4>3, PartTyped
        <5>2. h[p] = step(g, p)
          BY <5>1
        <5>3. g[p] = step(g, p)
          <6> HIDE DEF S, h
          <6> QED BY <4>2, <5>1
        <5> QED BY <5>2, <5>3
      <4> HIDE DEF h
      <4>4. ASSUME NEW p \in S, ~(Size(p) > n) PROVE step(h, p) = step(g, p)
        <5>1. CASE p[1] >= p[2]
          BY <1>2, <5>1
        <5>2. CASE p[1] < p[2]
          <6>1. /\ LowerHalf(p) \in S /\ Size(LowerHalf(p)) <= Size(p) - 1
                /\ UpperHalf(p) \in S /\ Size(UpperHalf(p)) <= Size(p) - 1
            BY <5>2, HalvesShrink
          <6>2. Size(LowerHalf(p)) <= n - 1 /\ Size(UpperHalf(p)) <= n - 1
            BY <3>1, <4>4, <6>1, PartTyped
          <6>3. h[LowerHalf(p)] = g[LowerHalf(p)] /\ h[UpperHalf(p)] = g[UpperHalf(p)]
            BY <4>3, <6>1, <6>2
          <6> QED BY <1>3, <5>2, <6>3
        <5> QED BY <5>1, <5>2, PartTyped
      <4> HIDE DEF S
      <4>5. solves(h, n)
        BY <4>4 DEF h
      <4> QED BY <4>5
    <3> QED BY <3>2, <3>3
  <2>2. T \subseteq Nat
    OBVIOUS
  <2> HIDE DEF T
  <2>3. T = {}
    BY <2>1, <2>2, LeastExists
  <2> QED BY <2>3 DEF T
<1>5. \E g : g = [p \in S |-> step(g, p)]
  <2>1. right - left \in Nat
    OBVIOUS
  <2> HIDE DEF solves
  <2>2. PICK g : solves(g, right - left)
    BY <1>4, <2>1
  <2>3. \A p \in S : ~(Size(p) > right - left)
    BY DEF Parts, Size
  <2> HIDE DEF S
  <2>4. g = [p \in S |-> step(g, p)]
    BY <2>2, <2>3 DEF solves
  <2> QED BY <2>4
<1>6. search = [p \in S |-> step(search, p)]
  BY <1>5
<1> HIDE DEF search
<1>7. \A p \in S : search[p] = step(search, p)
  <2> HIDE DEF S
  <2> QED BY <1>6
<1> QED BY <1>1, <1>7 DEF step

LEMMA BisectTyped ==
  ASSUME NEW recs, NEW t, NEW left \in Int, NEW right \in Int, left <= right
  PROVE  Bisect(recs, t, left, right) \in left .. right
<1> DEFINE S == Parts(left, right)
<1>1. PICK search : /\ Bisect(recs, t, left, right) = search[<<left, right>>]
                    /\ \A p \in S : search[p] = SearchStep(recs, t, search, p)
  BY BisectUnfolds
<1> DEFINE T == {n \in Nat : \E p \in S : Size(p) <= n /\ search[p] \notin left .. right}
<1>2. ASSUME NEW n \in T, \A m \in T : n <= m PROVE FALSE
  <2>1. PICK p \in S : Size(p) <= n /\ search[p] \notin left .. right
    OBVIOUS
  <2>2. n \in Nat /\ Size(p) \in Int /\ p[1] \in Int /\ p[2] \in left .. right
    BY PartTyped
  <2>3. p[1] < p[2]
    <3>1. p[1] >= p[2] => search[p] = p[2]
      BY <1>1 DEF SearchStep
    <3> QED BY <2>1, <2>2, <3>1
  <2>4. search[p] = Mid(p) \/ search[p] = search[LowerHalf(p)] \/ search[p] = search[UpperHalf(p)]
    BY <1>1, <2>2, <2>3 DEF SearchStep
  <2>5. /\ Mid(p) \in left .. right
        /\ LowerHalf(p) \in S /\ Size(LowerHalf(p)) <= Size(p) - 1
        /\ UpperHalf(p) \in S /\ Size(UpperHalf(p)) <= Size(p) - 1
    BY <2>3, HalvesShrink
  <2>6. 0 < Size(p)
    BY <2>2, <2>3 DEF Size
  <2> HIDE DEF T
  <2>7. n - 1 \in Nat /\ n - 1 \notin T
    BY <1>2, <2>1, <2>2, <2>6
  <2>8. \A q \in S : Size(q) <= Size(p) - 1 => search[q] \in left .. right
    <3> SUFFICES ASSUME NEW q \in S, Size(q) <= Size(p) - 1 PROVE Size(q) <= n - 1
      BY <2>7 DEF T
    <3> QED BY <2>1, <2>2, PartTyped
  <2> QED BY <2>1, <2>4, <2>5, <2>8
<1>3. T \subseteq Nat
  OBVIOUS
<1>4. T = {}
  <2> HIDE DEF T
  <2> QED BY <1>2, <1>3, LeastExists
<1>5. <<left, right>> \in S /\ right - left \in Nat /\ Size(<<left, right>>) = right - left
  BY DEF Parts, Size
<1> QED BY <1>1, <1>4, <1>5

LEMMA RecordOf ==
  ASSUME NEW recs \in Seq(Record)
  PROVE  /\ Len(recs) \in Nat /\ DOMAIN recs = 1 .. Len(recs)
         /\ \A i \in 1 .. Len(recs) : recs[i] \in Record /\ recs[i].timer \in Timer
<1>1. Len(recs) \in Nat /\ DOMAIN recs = 1 .. Len(recs)
  BY LenProperties
<1>2. \A i \in 1 .. Len(recs) : recs[i] \in Record
  BY ElementOfSeq
<1>3. \A rec \in Record : rec.timer \in Timer
  BY SendTimesApart DEF Record
<1> QED BY <1>1, <1>2, <1>3

\* The search needs no more order than this around the time it looks for.
PartedAt(recs, t) ==
  \A i, j \in DOMAIN recs : i < j /\ ~Less(t, recs[j].timer) => Less(recs[i].timer, t)

LEMMA OrderParts ==
  ASSUME NEW recs \in Seq(Record), InOrder(recs), NEW t \in Timer
  PROVE  PartedAt(recs, t)
<1> SUFFICES ASSUME NEW i \in DOMAIN recs, NEW j \in DOMAIN recs, i < j, ~Less(t, recs[j].timer)
             PROVE  Less(recs[i].timer, t)
  BY DEF PartedAt
<1>1. recs[i].timer \in Timer /\ recs[j].timer \in Timer
  BY RecordOf
<1>2. Less(recs[i].timer, recs[j].timer)
  BY DEF InOrder
<1> QED BY <1>1, <1>2, LessOrder

\* The search finds how many records are before a time.
LEMMA BisectFinds ==
  ASSUME NEW recs \in Seq(Record), recs # <<>>, NEW t \in Timer, PartedAt(recs, t),
         ~Less(recs[Len(recs)].timer, t)
  PROVE  LET b == Bisect(recs, t, 0, Len(recs) - 1)
         IN  /\ b \in 0 .. Len(recs) - 1
             /\ \A i \in 1 .. b : Less(recs[i].timer, t)
             /\ ~Less(recs[b + 1].timer, t)
<1> DEFINE last == Len(recs) - 1
           S == Parts(0, last)
           before(b) == \A i \in 1 .. b : Less(recs[i].timer, t)
           brackets(p) == p[1] <= p[2] /\ before(p[1]) /\ ~Less(recs[p[2] + 1].timer, t)
           found(b) == b \in 0 .. last /\ before(b) /\ ~Less(recs[b + 1].timer, t)
<1>1. Len(recs) \in Nat /\ last \in Nat /\ last \in Int /\ 0 \in Int
  BY EmptySeq, RecordOf
<1>2. \A i \in 1 .. last + 1 : recs[i].timer \in Timer
  BY RecordOf
<1>3. \A i, j \in 1 .. last + 1 : i < j /\ ~Less(t, recs[j].timer) => Less(recs[i].timer, t)
  BY RecordOf DEF PartedAt
<1>4. PICK search : /\ Bisect(recs, t, 0, last) = search[<<0, last>>]
                    /\ \A p \in S : search[p] = SearchStep(recs, t, search, p)
  BY <1>1, BisectUnfolds
<1> DEFINE T == {n \in Nat : \E p \in S : Size(p) <= n /\ brackets(p) /\ ~found(search[p])}
<1>5. brackets(<<0, last>>)
  BY <1>1
<1> HIDE DEF last
<1>6. ASSUME NEW n \in T, \A m \in T : n <= m PROVE FALSE
  <2>1. PICK p \in S : Size(p) <= n /\ brackets(p) /\ ~found(search[p])
    OBVIOUS
  <2>2. n \in Nat /\ Size(p) \in Int /\ p[1] \in 0 .. last /\ p[2] \in 0 .. last
    <3>1. n \in Nat
      OBVIOUS
    <3> QED BY <1>1, <3>1, PartTyped
  <2>3. p[1] < p[2]
    <3>1. p[1] >= p[2] => search[p] = p[2] /\ p[1] = p[2]
      BY <1>4, <2>1, <2>2 DEF SearchStep
    <3> QED BY <2>1, <2>2, <3>1
  <2>4. /\ Mid(p) \in 0 .. last /\ p[1] <= Mid(p) /\ Mid(p) < p[2]
        /\ LowerHalf(p) \in S /\ Size(LowerHalf(p)) <= Size(p) - 1
        /\ UpperHalf(p) \in S /\ Size(UpperHalf(p)) <= Size(p) - 1
    BY <1>1, <2>3, HalvesShrink
  <2>5. Mid(p) + 1 \in 1 .. last + 1 /\ \A i \in 1 .. Mid(p) : i \in 1 .. last + 1 /\ i < Mid(p) + 1
    BY <1>1, <2>4
  <2>6. /\ recs[Mid(p) + 1].timer \in Timer
        /\ ~Less(t, recs[Mid(p) + 1].timer) => \A i \in 1 .. Mid(p) : Less(recs[i].timer, t)
    BY <1>2, <1>3, <2>5
  <2>7. 0 < Size(p)
    BY <2>2, <2>3 DEF Size
  <2> HIDE DEF T
  <2>8. n - 1 \in Nat /\ n - 1 \notin T
    BY <1>6, <2>1, <2>2, <2>7
  <2>9. ASSUME NEW q \in S, Size(q) <= Size(p) - 1, brackets(q) PROVE found(search[q])
    <3>1. Size(q) <= n - 1
      <4>1. Size(q) \in Int
        BY <1>1, PartTyped
      <4> QED BY <2>1, <2>2, <2>9, <4>1
    <3> HIDE DEF brackets, found
    <3> QED BY <2>8, <2>9, <3>1 DEF T
  <2>10. CASE recs[Mid(p) + 1].timer = t
    <3>1. search[p] = Mid(p)
      BY <1>4, <2>2, <2>3, <2>10 DEF SearchStep
    <3>2. before(Mid(p)) /\ ~Less(t, t)
      BY <2>6, <2>10, LessOrder
    <3> QED BY <2>1, <2>4, <2>10, <3>1, <3>2
  <2>11. CASE recs[Mid(p) + 1].timer # t /\ Less(t, recs[Mid(p) + 1].timer)
    <3>1. search[p] = search[LowerHalf(p)]
      BY <1>4, <2>2, <2>3, <2>11 DEF SearchStep
    <3>2. ~Less(recs[Mid(p) + 1].timer, t)
      BY <2>6, <2>11, LessOrder
    <3>3. LowerHalf(p)[1] = p[1] /\ LowerHalf(p)[2] = Mid(p)
      BY DEF LowerHalf
    <3>4. brackets(LowerHalf(p))
      BY <2>1, <2>4, <3>2, <3>3
    <3> HIDE DEF found
    <3> QED BY <2>1, <2>4, <2>9, <3>1, <3>4
  <2>12. CASE recs[Mid(p) + 1].timer # t /\ ~Less(t, recs[Mid(p) + 1].timer)
    <3>1. search[p] = search[UpperHalf(p)]
      BY <1>4, <2>2, <2>3, <2>12 DEF SearchStep
    <3>2. Less(recs[Mid(p) + 1].timer, t)
      BY <2>6, <2>12, LessOrder
    <3>3. UpperHalf(p)[1] = Mid(p) + 1 /\ UpperHalf(p)[2] = p[2]
      BY DEF UpperHalf
    <3>4. before(Mid(p) + 1)
      <4> SUFFICES ASSUME NEW i \in 1 .. Mid(p) + 1 PROVE Less(recs[i].timer, t)
        OBVIOUS
      <4>1. CASE i = Mid(p) + 1
        BY <3>2, <4>1
      <4>2. CASE i # Mid(p) + 1
        <5>1. i \in 1 .. Mid(p)
          BY <2>4, <2>5, <4>2
        <5> QED BY <2>6, <2>12, <5>1
      <4> QED BY <4>1, <4>2
    <3>5. brackets(UpperHalf(p))
      <4>1. Mid(p) + 1 <= p[2]
        BY <2>2, <2>4
      <4> HIDE DEF before
      <4> QED BY <2>1, <3>3, <3>4, <4>1
    <3> HIDE DEF found
    <3> QED BY <2>1, <2>4, <2>9, <3>1, <3>5
  <2> QED BY <2>10, <2>11, <2>12
<1>7. T \subseteq Nat
  OBVIOUS
<1>8. T = {}
  <2> HIDE DEF T
  <2> QED BY <1>6, <1>7, LeastExists
<1>9. <<0, last>> \in S /\ Size(<<0, last>>) = last
  BY <1>1 DEF Parts, Size
<1>10. found(search[<<0, last>>])
  <2> HIDE DEF found, brackets, S
  <2>1. last \notin T
    BY <1>8
  <2> QED BY <1>1, <1>5, <1>9, <2>1
<1> QED BY <1>4, <1>10 DEF last

LEMMA BinarySearchTyped ==
  ASSUME NEW recs \in Seq(Record), recs # <<>>, NEW t
  PROVE  BinarySearchRecords(recs, t) \in 0 .. Len(recs)
<1>1. Len(recs) \in Nat /\ Len(recs) - 1 \in Nat
  BY EmptySeq, RecordOf
<1>2. Bisect(recs, t, 0, Len(recs) - 1) \in 0 .. Len(recs) - 1
  BY <1>1, BisectTyped
<1> QED BY <1>1, <1>2 DEF BinarySearchRecords

LEMMA BinarySearchFinds ==
  ASSUME NEW recs \in Seq(Record), recs # <<>>, NEW t \in Timer, PartedAt(recs, t)
  PROVE  /\ BinarySearchRecords(recs, t) \in 0 .. Len(recs)
         /\ \A i \in 1 .. Len(recs) : i <= BinarySearchRecords(recs, t) <=> Less(recs[i].timer, t)
<1> DEFINE b == BinarySearchRecords(recs, t)
<1>1. Len(recs) \in Nat /\ Len(recs) - 1 \in Nat
  BY EmptySeq, RecordOf
<1>2. b \in 0 .. Len(recs)
  BY BinarySearchTyped
<1>3. \A i \in 1 .. Len(recs) : recs[i].timer \in Timer
  BY RecordOf
<1>4. \A i, j \in 1 .. Len(recs) : i < j /\ ~Less(t, recs[j].timer) => Less(recs[i].timer, t)
  BY RecordOf DEF PartedAt
<1>5. /\ \A i \in 1 .. b : Less(recs[i].timer, t)
      /\ b < Len(recs) => ~Less(recs[b + 1].timer, t)
  <2>1. CASE Less(recs[Len(recs)].timer, t)
    <3>1. b = Len(recs)
      BY <1>1, <2>1 DEF BinarySearchRecords
    <3>2. ASSUME NEW i \in 1 .. Len(recs) PROVE Less(recs[i].timer, t)
      <4>1. Len(recs) \in 1 .. Len(recs)
        BY <1>1
      <4>2. ~Less(t, recs[Len(recs)].timer)
        BY <1>3, <2>1, <4>1, LessOrder
      <4> QED BY <1>1, <1>4, <2>1, <4>1, <4>2
    <3> QED BY <1>1, <3>1, <3>2
  <2>2. CASE ~Less(recs[Len(recs)].timer, t) /\ Less(t, recs[1].timer)
    <3>1. b = 0 /\ 1 \in 1 .. Len(recs)
      BY <1>1, <2>2 DEF BinarySearchRecords
    <3> QED BY <1>1, <1>3, <2>2, <3>1, LessOrder
  <2>3. CASE ~Less(recs[Len(recs)].timer, t) /\ ~Less(t, recs[1].timer)
    <3>1. b = Bisect(recs, t, 0, Len(recs) - 1)
      BY <1>1, <2>3 DEF BinarySearchRecords
    <3> HIDE DEF b
    <3> QED BY <2>3, <3>1, BisectFinds
  <2> QED BY <2>1, <2>2, <2>3
<1> HIDE DEF b
<1>6. ASSUME NEW i \in 1 .. Len(recs) PROVE i <= b <=> Less(recs[i].timer, t)
  <2>1. CASE i <= b
    <3>1. i \in 1 .. b
      BY <1>2, <2>1
    <3> QED BY <1>5, <2>1, <3>1
  <2>2. CASE b < i
    <3>1. b + 1 \in 1 .. Len(recs) /\ b < Len(recs) /\ (i = b + 1 \/ b + 1 < i)
      BY <1>1, <1>2, <2>2
    <3>2. ~Less(recs[b + 1].timer, t)
      BY <1>5, <3>1
    <3>3. ~Less(t, recs[i].timer) => i = b + 1
      BY <1>4, <3>1, <3>2
    <3>4. ~Less(recs[i].timer, t)
      BY <1>3, <3>1, <3>2, <3>3, LessOrder
    <3> QED BY <1>2, <2>2, <3>4
  <2> QED BY <1>2, <2>1, <2>2
<1> QED BY <1>2, <1>6 DEF b

-----------------------------------------------------------------------------
(* Loss rates.                                                             *)

LEMMA QuotientBounds ==
  ASSUME NEW a \in Int, NEW b \in Nat \ {0}, NEW hi \in Int, 0 <= a, a <= hi * b
  PROVE  a \div b \in 0 .. hi
<1> DEFINE q == a \div b
<1>1. q \in Int /\ b * q <= a /\ a < b * q + b
  BY Quotient
<1>2. q <= hi
  <2>1. q \in Floors(a, b)
    BY DEF Floors
  <2> HIDE DEF q
  <2> QED BY <2>1, FloorsBelow
<1> HIDE DEF q
<1>3. 0 <= q
  <2> SUFFICES ASSUME q + 1 <= 0 PROVE FALSE
    BY <1>1
  <2>1. (q + 1) * b <= 0 * b /\ 0 * b = 0 /\ (q + 1) * b \in Int
    BY <1>1, ProductOrder
  <2>2. (q + 1) * b = b * q + b /\ b * q \in Int
    BY <1>1
  <2> QED BY <1>1, <2>1, <2>2
<1>4. q \in 0 .. hi
  BY <1>1, <1>2, <1>3
<1> QED BY <1>4 DEF q

LEMMA UpdateLossTyped ==
  ASSUME NEW old \in LossRate, NEW loss \in LossRate, NEW weight \in {kPrevWeight, NoHistory}
  PROVE  UpdateLoss(old, loss, weight) \in LossRate
<1>1. CASE weight <= 0 \/ old = INVALID_LOSS_RATE \/ loss = INVALID_LOSS_RATE
  BY <1>1 DEF UpdateLoss
<1>2. CASE ~(weight <= 0 \/ old = INVALID_LOSS_RATE \/ loss = INVALID_LOSS_RATE)
  <2>1. weight = 200 /\ old \in 0 .. 1000 /\ loss \in 0 .. 1000
    BY <1>2 DEF LossRate, Unit, kPrevWeight, NoHistory
  <2>2. UpdateLoss(old, loss, weight) = (old * 200 + loss * 800) \div 1000
    BY <1>2, <2>1 DEF UpdateLoss, Unit
  <2>3. old * 200 + loss * 800 \in Int /\ 0 <= old * 200 + loss * 800 /\ old * 200 + loss * 800 <= 1000 * 1000
    BY <2>1
  <2>4. (old * 200 + loss * 800) \div 1000 \in 0 .. 1000
    <3> DEFINE sum == old * 200 + loss * 800
    <3>1. sum \in Int /\ 0 <= sum /\ sum <= 1000 * 1000 /\ 1000 \in Nat \ {0} /\ 1000 \in Int
      BY <2>3
    <3> HIDE DEF sum
    <3>2. sum \div 1000 \in 0 .. 1000
      BY <3>1, QuotientBounds
    <3> QED BY <3>2 DEF sum
  <2> QED BY <2>2, <2>4 DEF LossRate, Unit
<1> QED BY <1>1, <1>2

LEMMA FrontBackTyped ==
  ASSUME NEW front \in LossRate, NEW back \in LossRate
  PROVE  CalcLossRatesFrontBack(front, back) \in LossRate
<1>1. TheLarger(front, back) \in LossRate
  BY DEF TheLarger
<1>2. CASE front = INVALID_LOSS_RATE \/ back = INVALID_LOSS_RATE
  BY <1>1, <1>2 DEF CalcLossRatesFrontBack
<1>3. CASE ~(front = INVALID_LOSS_RATE \/ back = INVALID_LOSS_RATE)
  <2>1. front \in 0 .. 1000 /\ back \in 0 .. 1000
    BY <1>3 DEF LossRate, Unit
  <2>2. CASE front = 0 \/ back = 0
    <3>1. TheLarger(front, back) \in 0 .. 1000
      BY <2>1 DEF TheLarger
    <3>2. TheLarger(front, back) \div 2 \in 0 .. 1000
      BY <3>1
    <3> QED BY <1>3, <2>2, <3>2 DEF CalcLossRatesFrontBack, LossRate, Unit
  <2>3. CASE ~(front = 0 \/ back = 0)
    <3>1. front * back <= 1000 * back /\ front * back \in Int /\ 1000 * back \in Int
      BY <2>1, ProductOrder
    <3>2. 0 * back <= front * back /\ 0 * back = 0
      BY <2>1, ProductOrder
    <3>3. 0 <= front * back /\ front * back <= 1000 * 1000
      BY <2>1, <3>1, <3>2
    <3>4. (front * back) \div 1000 \in 0 .. 1000
      <4> DEFINE product == front * back
      <4>1. product \in Int /\ 0 <= product /\ product <= 1000 * 1000 /\ 1000 \in Nat \ {0} /\ 1000 \in Int
        BY <3>1, <3>3
      <4> HIDE DEF product
      <4>2. product \div 1000 \in 0 .. 1000
        BY <4>1, QuotientBounds
      <4> QED BY <4>2 DEF product
    <3> QED BY <1>3, <2>3, <3>4 DEF CalcLossRatesFrontBack, LossRate, Unit
  <2> QED BY <2>2, <2>3
<1> QED BY <1>2, <1>3

LEMMA CombinedTyped ==
  ASSUME NEW version, NEW scout \in LossRate, NEW front \in LossRate, NEW back \in LossRate
  PROVE  Combined(version, scout, front, back) \in LossRate
<1>1. TheLarger(scout, front) \in LossRate
  BY DEF TheLarger
<1> QED BY <1>1, FrontBackTyped DEF Combined

-----------------------------------------------------------------------------
(* What a lookup counts.                                                   *)

LEMMA SameCount ==
  ASSUME NEW S, NEW T, NEW f \in [S -> T], IsFiniteSet(S),
         \A x, y \in S : f[x] = f[y] => x = y, \A z \in T : \E x \in S : f[x] = z
  PROVE  IsFiniteSet(T) /\ Cardinality(T) = Cardinality(S)
<1>1. f \in Bijection(S, T)
  BY DEF Bijection, Injection, Surjection, IsInjective
<1>2. ExistsBijection(S, T)
  BY <1>1 DEF ExistsBijection
<1> QED BY <1>2, FS_Bijection

\* The positions of a part of a sequence, counted from its start.
LEMMA ShiftedCount ==
  ASSUME NEW S \in SUBSET Int, NEW T \in SUBSET Int, NEW a \in Int, IsFiniteSet(S),
         \A j \in Int : j \in S <=> a + j \in T
  PROVE  IsFiniteSet(T) /\ Cardinality(T) = Cardinality(S)
<1> DEFINE f == [j \in S |-> a + j]
<1>1. f \in [S -> T]
  OBVIOUS
<1>2. \A x, y \in S : f[x] = f[y] => x = y
  OBVIOUS
<1>3. ASSUME NEW z \in T PROVE \E x \in S : f[x] = z
  <2>1. z - a \in Int /\ a + (z - a) = z
    OBVIOUS
  <2>2. z - a \in S
    BY <2>1
  <2> QED BY <2>1, <2>2
<1> HIDE DEF f
<1> QED BY <1>1, <1>2, <1>3, SameCount

LEMMA CountedIs ==
  ASSUME NEW recs \in Seq(Record), recs # <<>>, NEW start, NEW end
  PROVE  LET counted == Counted(recs, start, end)
             a == BinarySearchRecords(recs, start)
             b == BinarySearchRecords(recs, end)
         IN  /\ DOMAIN counted = 1 .. b - a
             /\ \A j \in 1 .. b - a : counted[j] = recs[a + j] /\ a + j \in 1 .. Len(recs)
<1> DEFINE a == BinarySearchRecords(recs, start)
           b == BinarySearchRecords(recs, end)
<1>1. a \in Int /\ b \in Int /\ 0 <= a /\ b <= Len(recs) /\ Len(recs) \in Nat
  BY BinarySearchTyped, RecordOf
<1> HIDE DEF a, b
<1>2. Counted(recs, start, end) = [j \in 1 .. (1 + b - (a + 1)) |-> recs[(a + 1) + j - 1]]
  <2>1. Counted(recs, start, end) = SubSeq(recs, a + 1, b)
    BY DEF Counted, a, b
  <2> QED BY <1>1, <2>1
<1>3. 1 + b - (a + 1) = b - a /\ \A j \in 1 .. b - a : (a + 1) + j - 1 = a + j /\ a + j \in 1 .. Len(recs)
  BY <1>1
<1> QED BY <1>2, <1>3 DEF a, b

LEMMA NumbersCounted ==
  ASSUME NEW n \in Int, NEW counted, DOMAIN counted = 1 .. n, NEW r
  PROVE  NSent(counted, r) \in Nat /\ NAck(counted, r) \in 0 .. NSent(counted, r)
<1> DEFINE at == {i \in 1 .. n : counted[i].rate = r}
           acked == {i \in 1 .. n : counted[i].rate = r /\ counted[i].acked}
<1>1. IsFiniteSet(1 .. n)
  BY FS_Interval
<1>2. IsFiniteSet(at) /\ acked \subseteq at
  BY <1>1, FS_Subset
<1>3. Cardinality(at) \in Nat /\ Cardinality(acked) \in Nat /\ Cardinality(acked) <= Cardinality(at)
  BY <1>2, FS_Subset, FS_CardinalityType
<1>4. NSent(counted, r) = Cardinality(at) /\ NAck(counted, r) = Cardinality(acked)
  BY DEF NSent, NAck
<1> QED BY <1>3, <1>4

LEMMA LookupTyped ==
  ASSUME NEW recs \in Seq(Record), NEW start, NEW end
  PROVE  CalcLossRates(recs, start, end, RateSet) \in [RateSet -> LossRate]
<1> SUFFICES ASSUME NEW r \in RateSet
             PROVE  CalcLossRates(recs, start, end, RateSet)[r] \in LossRate
  BY DEF CalcLossRates
<1> DEFINE s == NSent(Counted(recs, start, end), r)
           a == NAck(Counted(recs, start, end), r)
<1>1. CASE ~IsAvailable(recs, start, end) \/ s = 0
  BY <1>1 DEF CalcLossRates, LossRate
<1>2. CASE IsAvailable(recs, start, end) /\ s # 0
  <2>1. CalcLossRates(recs, start, end, RateSet)[r] = (Unit * (s - a)) \div s
    BY <1>2 DEF CalcLossRates
  <2>2. recs # <<>>
    BY <1>2 DEF IsAvailable
  <2>3. PICK n \in Int : DOMAIN Counted(recs, start, end) = 1 .. n
    <3>1. BinarySearchRecords(recs, end) - BinarySearchRecords(recs, start) \in Int
      BY <2>2, BinarySearchTyped
    <3> QED BY <2>2, <3>1, CountedIs
  <2>4. s \in Nat \ {0} /\ a \in 0 .. s
    BY <1>2, <2>3, NumbersCounted
  <2> HIDE DEF s, a
  <2>5. Unit * (s - a) \in Int /\ 0 <= Unit * (s - a) /\ Unit * (s - a) <= Unit * s /\ Unit \in Int
    BY <2>4 DEF Unit
  <2>6. (Unit * (s - a)) \div s \in 0 .. Unit
    BY <2>4, <2>5, QuotientBounds
  <2> QED BY <2>1, <2>6 DEF LossRate
<1> QED BY <1>1, <1>2

\* From one ns before the first packet to one after the last, a lookup in order
\* counts those between, as no other was sent within a ns of the first.
LEMMA LookupExact ==
  ASSUME records \in Seq(Record), InOrder(records), NEW first \in SendTimes, NEW last \in SendTimes,
         NEW r \in RateSet
  PROVE  CalcLossRates(records, Minus(first, Nanoseconds(1)), Plus(last, Nanoseconds(1)), RateSet)[r]
           = LossIn(SentBetween(first, last), r)
<1> DEFINE start == Minus(first, Nanoseconds(1))
           end == Plus(last, Nanoseconds(1))
           window == SentBetween(first, last)
           at == {i \in window : records[i].rate = r}
           bad == {i \in at : ~records[i].acked}
<1>1. first \in Timer /\ last \in Timer /\ Nanoseconds(1) \in Timer /\ GetNSec(Nanoseconds(1)) = 1
  BY SendTimesApart, NanosecondsTyped
<1>2. /\ start \in Timer /\ GetNSec(start) = GetNSec(first) - 1
      /\ end \in Timer /\ GetNSec(end) = GetNSec(last) + 1
      /\ GetNSec(first) \in Int /\ GetNSec(last) \in Int
  BY <1>1, ArithmeticExact, NSecInt
<1> HIDE DEF start, end
<1>3. ASSUME NEW t \in SendTimes
      PROVE  /\ AtMost(first, t) <=> ~Less(t, start)
             /\ AtMost(t, last) <=> Less(t, end)
  <2>1. t \in Timer /\ GetNSec(t) \in Int /\ GetNSec(t) # GetNSec(first) - 1
    BY SendTimesApart, NSecInt
  <2>2. AtMost(first, t) <=> GetNSec(first) <= GetNSec(t)
    BY <1>1, <2>1, LessIsEarlier
  <2>3. Less(t, start) <=> GetNSec(t) < GetNSec(start)
    BY <1>2, <2>1, LessIsEarlier
  <2>4. AtMost(t, last) <=> GetNSec(t) <= GetNSec(last)
    BY <1>1, <2>1, LessIsEarlier
  <2>5. Less(t, end) <=> GetNSec(t) < GetNSec(end)
    BY <1>2, <2>1, LessIsEarlier
  <2> QED BY <1>2, <2>1, <2>2, <2>3, <2>4, <2>5
<1>4. \A i \in 1 .. Len(records) : records[i].timer \in SendTimes /\ records[i].timer \in Timer
  BY RecordOf DEF Record
<1>5. window = {i \in 1 .. Len(records) : ~Less(records[i].timer, start) /\ Less(records[i].timer, end)}
  BY <1>3, <1>4, RecordOf DEF SentBetween
<1>6. LossIn(window, r) = IF at = {} THEN INVALID_LOSS_RATE ELSE (Unit * Cardinality(bad)) \div Cardinality(at)
  BY DEF LossIn
<1> HIDE DEF window
<1>7. CASE ~IsAvailable(records, start, end)
  <2>1. CalcLossRates(records, start, end, RateSet)[r] = INVALID_LOSS_RATE
    BY <1>7 DEF CalcLossRates
  <2>2. window = {}
    <3> SUFFICES ASSUME NEW i \in window PROVE FALSE
      OBVIOUS
    <3>1. /\ i \in 1 .. Len(records) /\ ~Less(records[i].timer, start) /\ Less(records[i].timer, end)
          /\ Len(records) \in Nat
      BY <1>5, RecordOf
    <3>2. 1 \in 1 .. Len(records) /\ Len(records) \in 1 .. Len(records) /\ (i = 1 \/ 1 < i)
          /\ (i = Len(records) \/ i < Len(records)) /\ records # <<>>
      BY <3>1
    <3>3. /\ i = 1 \/ Less(records[1].timer, records[i].timer)
          /\ i = Len(records) \/ Less(records[i].timer, records[Len(records)].timer)
      BY <3>1, <3>2, RecordOf DEF InOrder
    <3>4. CASE Less(end, records[1].timer)
      BY <1>2, <1>4, <3>1, <3>2, <3>3, <3>4, LessOrder
    <3>5. CASE Less(records[Len(records)].timer, start)
      BY <1>2, <1>4, <3>1, <3>2, <3>3, <3>5, LessOrder
    <3> QED BY <1>7, <3>2, <3>4, <3>5 DEF IsAvailable
  <2> QED BY <1>6, <2>1, <2>2 DEF start, end, window
<1>8. CASE IsAvailable(records, start, end)
  <2> DEFINE counted == Counted(records, start, end)
             a == BinarySearchRecords(records, start)
             b == BinarySearchRecords(records, end)
             sent_at == {j \in 1 .. b - a : counted[j].rate = r}
             ack_at == {j \in 1 .. b - a : counted[j].rate = r /\ counted[j].acked}
  <2>1. records # <<>>
    BY <1>8 DEF IsAvailable
  <2>2. /\ a \in 0 .. Len(records) /\ b \in 0 .. Len(records) /\ Len(records) \in Nat
        /\ \A i \in 1 .. Len(records) : i <= a <=> Less(records[i].timer, start)
        /\ \A i \in 1 .. Len(records) : i <= b <=> Less(records[i].timer, end)
    <3>1. PartedAt(records, start) /\ PartedAt(records, end)
      BY <1>2, OrderParts
    <3> QED BY <1>2, <2>1, <3>1, BinarySearchFinds, RecordOf
  <2>3. /\ DOMAIN counted = 1 .. b - a
        /\ \A j \in 1 .. b - a : counted[j] = records[a + j] /\ a + j \in 1 .. Len(records)
    BY <2>1, CountedIs
  <2>4. NSent(counted, r) = Cardinality(sent_at) /\ NAck(counted, r) = Cardinality(ack_at)
    BY <2>3 DEF NSent, NAck
  <2>5. CalcLossRates(records, start, end, RateSet)[r] =
          IF NSent(counted, r) = 0 THEN INVALID_LOSS_RATE
          ELSE (Unit * (NSent(counted, r) - NAck(counted, r))) \div NSent(counted, r)
    BY <1>8 DEF CalcLossRates
  <2> HIDE DEF a, b, counted
  <2>6. \A i \in Int : i \in window <=> i \in a + 1 .. b
    <3> SUFFICES ASSUME NEW i \in Int PROVE i \in window <=> i \in a + 1 .. b
      OBVIOUS
    <3>1. i \in a + 1 .. b => i \in 1 .. Len(records)
      BY <2>2
    <3>2. i \in 1 .. Len(records) => (i \in window <=> ~(i <= a) /\ i <= b)
      BY <1>5, <2>2
    <3>3. i \in window => i \in 1 .. Len(records)
      BY <1>5
    <3> QED BY <2>2, <3>1, <3>2, <3>3
  <2>7. window \subseteq Int
    BY <1>5
  <2>8. \A j \in Int : a + j \in Int /\ (j \in 1 .. b - a <=> a + j \in window)
    BY <2>2, <2>6
  <2>9. sent_at \subseteq Int /\ at \subseteq Int /\ bad \subseteq Int /\ a \in Int
    <3>1. 1 .. b - a \subseteq Int /\ a \in Int
      BY <2>2
    <3>2. sent_at \subseteq 1 .. b - a /\ at \subseteq window /\ bad \subseteq at
      OBVIOUS
    <3> HIDE DEF sent_at, at, bad
    <3> QED BY <2>7, <3>1, <3>2
  <2>10. \A j \in Int : j \in sent_at <=> a + j \in at
    BY <2>3, <2>8
  <2>11. \A j \in Int : j \in sent_at \ ack_at <=> a + j \in bad
    BY <2>3, <2>8
  <2>12. IsFiniteSet(sent_at) /\ IsFiniteSet(sent_at \ ack_at) /\ ack_at \subseteq sent_at
    <3>1. IsFiniteSet(1 .. b - a)
      BY <2>2, FS_Interval
    <3> QED BY <3>1, FS_Subset
  <2> HIDE DEF sent_at, ack_at, at, bad
  <2>13. IsFiniteSet(at) /\ Cardinality(at) = Cardinality(sent_at)
    BY <2>9, <2>10, <2>12, ShiftedCount
  <2>14. Cardinality(bad) = Cardinality(sent_at \ ack_at)
    BY <2>9, <2>11, <2>12, ShiftedCount
  <2>15. Cardinality(sent_at \ ack_at) = Cardinality(sent_at) - Cardinality(ack_at)
    <3>1. sent_at \cap ack_at = ack_at
      BY <2>12
    <3> QED BY <2>12, <3>1, FS_Difference
  <2>16. at = {} <=> Cardinality(at) = 0
    BY <2>13, FS_EmptySet
  <2> QED BY <1>6, <2>4, <2>5, <2>13, <2>14, <2>15, <2>16 DEF start, end, window
<1> QED BY <1>7, <1>8 DEF start, end

\* The packet inserted is never older than itself: it stays, and others only
\* leave at the front.
\* If all records from a time on are lost, and behind those before it, then a
\* lookup from that time on finds nothing but losses.
LEMMA LookupLost ==
  ASSUME NEW recs \in Seq(Record), NEW first \in SendTimes, NEW end, NEW r \in RateSet,
         \A i \in DOMAIN recs : ~Less(recs[i].timer, first) => ~recs[i].acked,
         \A i, j \in DOMAIN recs : i < j /\ ~Less(recs[i].timer, first) => ~Less(recs[j].timer, first)
  PROVE  CalcLossRates(recs, Minus(first, Nanoseconds(1)), end, RateSet)[r] \in {Unit, INVALID_LOSS_RATE}
<1> DEFINE start == Minus(first, Nanoseconds(1))
           counted == Counted(recs, start, end)
           a == BinarySearchRecords(recs, start)
           b == BinarySearchRecords(recs, end)
           n == NSent(counted, r)
           loss == CalcLossRates(recs, start, end, RateSet)[r]
<1>1. /\ start \in Timer /\ GetNSec(start) = GetNSec(first) - 1
      /\ first \in Timer /\ GetNSec(first) \in Int
  BY SendTimesApart, NanosecondsTyped, ArithmeticExact, NSecInt
<1>2. loss = IF ~IsAvailable(recs, start, end) \/ n = 0 THEN INVALID_LOSS_RATE
             ELSE (Unit * (n - NAck(counted, r))) \div n
  BY DEF CalcLossRates
<1>3. CASE ~IsAvailable(recs, start, end) \/ n = 0
  BY <1>2, <1>3
<1>4. CASE IsAvailable(recs, start, end) /\ n # 0
  <2>1. recs # <<>>
    BY <1>4 DEF IsAvailable
  <2> HIDE DEF start
  <2>2. ASSUME NEW i \in DOMAIN recs
        PROVE  /\ Less(recs[i].timer, start) <=> Less(recs[i].timer, first)
               /\ ~Less(start, recs[i].timer) <=> Less(recs[i].timer, first)
    <3>1. recs[i].timer \in SendTimes /\ recs[i].timer \in Timer
      BY RecordOf DEF Record
    <3>2. GetNSec(recs[i].timer) \in Int /\ GetNSec(recs[i].timer) # GetNSec(first) - 1
      BY <3>1, SendTimesApart, NSecInt
    <3> QED BY <1>1, <3>1, <3>2, LessIsEarlier
  <2>3. PartedAt(recs, start)
    BY <2>2, RecordOf DEF PartedAt
  <2>4. /\ a \in 0 .. Len(recs) /\ b \in 0 .. Len(recs) /\ Len(recs) \in Nat
        /\ \A i \in 1 .. Len(recs) : i <= a <=> Less(recs[i].timer, start)
    BY <1>1, <2>1, <2>3, BinarySearchFinds, BinarySearchTyped, RecordOf
  <2>5. /\ DOMAIN counted = 1 .. b - a
        /\ \A j \in 1 .. b - a : counted[j] = recs[a + j] /\ a + j \in 1 .. Len(recs)
    BY <2>1, CountedIs
  <2> HIDE DEF a, b, counted
  <2>6. \A j \in 1 .. b - a : ~counted[j].acked
    <3> SUFFICES ASSUME NEW j \in 1 .. b - a PROVE ~recs[a + j].acked
      BY <2>5
    <3>1. a + j \in DOMAIN recs /\ ~(a + j <= a)
      BY <2>4, <2>5, RecordOf
    <3> QED BY <2>2, <2>4, <2>5, <3>1
  <2>7. NAck(counted, r) = 0
    <3>1. {j \in DOMAIN counted : counted[j].rate = r /\ counted[j].acked} = {}
      BY <2>5, <2>6
    <3> QED BY <3>1, FS_EmptySet DEF NAck
  <2>8. n \in Nat \ {0}
    <3>1. b - a \in Int
      BY <2>4
    <3> QED BY <1>4, <2>5, <3>1, NumbersCounted
  <2>9. loss = (Unit * (n - 0)) \div n
    BY <1>2, <1>4, <2>7
  <2> HIDE DEF n, loss
  <2>10. (Unit * (n - 0)) \div n = Unit
    <3>1. Unit * (n - 0) = Unit * n /\ Unit * n \in Int /\ Unit \in Int /\ 0 <= Unit * n /\ Unit * n <= Unit * n
      BY <2>8 DEF Unit
    <3> DEFINE q == (Unit * n) \div n
    <3>2. q \in Int /\ n * q <= Unit * n /\ Unit * n < n * q + n
      BY <2>8, <3>1, Quotient
    <3> HIDE DEF q
    <3>3. q <= Unit
      <4> SUFFICES ASSUME Unit + 1 <= q PROVE FALSE
        BY <3>1, <3>2
      <4>1. (Unit + 1) * n <= q * n /\ q * n = n * q /\ (Unit + 1) * n = Unit * n + n /\ n * q \in Int
        BY <2>8, <3>1, <3>2, ProductOrder
      <4> QED BY <2>8, <3>1, <3>2, <4>1
    <3>4. Unit <= q
      <4> SUFFICES ASSUME q + 1 <= Unit PROVE FALSE
        BY <3>1, <3>2
      <4>1. (q + 1) * n <= Unit * n /\ (q + 1) * n = n * q + n /\ n * q \in Int
        BY <2>8, <3>1, <3>2, ProductOrder
      <4> QED BY <2>8, <3>1, <3>2, <4>1
    <3> QED BY <3>1, <3>2, <3>3, <3>4 DEF q
  <2> QED BY <2>9, <2>10 DEF loss, start
<1> QED BY <1>3, <1>4

\* Some of the oldest records go, and the new one is the last.
LEMMA InsertPacketKeeps ==
  ASSUME NEW recs \in Seq(Record), NEW pkt \in Record
  PROVE  LET new == InsertPacket(recs, pkt, Nanoseconds(TotalWindow))
             last == Len(recs) + 1
         IN  /\ new \in Seq(Record)
             /\ \E m \in Nat : \A i \in DOMAIN new :
                  m + i \in 1 .. last /\ new[i] = IF m + i = last THEN pkt ELSE recs[m + i]
<1> DEFINE duration == Nanoseconds(TotalWindow)
           all == Append(recs, pkt)
           fresh == {i \in DOMAIN all : ~Less(Plus(all[i].timer, duration), pkt.timer)}
           first == CHOOSE i \in fresh : \A j \in fresh : i <= j
<1>1. all \in Seq(Record) /\ Len(all) \in Nat \ {0} /\ DOMAIN all = 1 .. Len(all) /\ all[Len(all)] = pkt
  BY AppendProperties, RecordOf
<1> HIDE DEF all
<1>2. Len(all) \in fresh
  <2>1. TotalWindow \in Nat /\ TotalWindow \in Int
    BY ControlAssumption
  <2>2. duration \in Timer /\ GetNSec(duration) = TotalWindow /\ pkt.timer \in Timer
    BY <2>1, NanosecondsTyped, SendTimesApart DEF Record
  <2> HIDE DEF duration
  <2>3. /\ Plus(pkt.timer, duration) \in Timer
        /\ GetNSec(Plus(pkt.timer, duration)) = GetNSec(pkt.timer) + TotalWindow /\ GetNSec(pkt.timer) \in Int
    BY <2>2, ArithmeticExact, NSecInt
  <2>4. ~Less(Plus(pkt.timer, duration), pkt.timer)
    BY <2>1, <2>2, <2>3, LessIsEarlier
  <2> QED BY <1>1, <2>4
<1>3. fresh \subseteq 1 .. Len(all) /\ fresh \subseteq Nat
  BY <1>1
<1> HIDE DEF fresh
<1>4. \E i \in fresh : \A j \in fresh : i <= j
  BY <1>2, <1>3, LeastExists
<1>5. first \in 1 .. Len(all)
  BY <1>3, <1>4
<1> HIDE DEF first
<1> DEFINE new == SubSeq(all, first, Len(all))
<1>6. new \in Seq(Record)
  BY <1>1, <1>5, SubSeqProperties
<1>7. new = [i \in 1 .. (1 + Len(all) - first) |-> all[first + i - 1]]
  BY <1>1, <1>5
<1>8. Len(all) = Len(recs) + 1 /\ Len(recs) \in Nat /\ \A k \in 1 .. Len(recs) : all[k] = recs[k]
  BY AppendProperties, RecordOf DEF all
<1>9. first - 1 \in Nat
  BY <1>5
<1>10. ASSUME NEW i \in DOMAIN new
       PROVE  /\ first - 1 + i \in 1 .. Len(recs) + 1
              /\ new[i] = IF first - 1 + i = Len(recs) + 1 THEN pkt ELSE recs[first - 1 + i]
  <2>1. i \in 1 .. (1 + Len(all) - first) /\ new[i] = all[first + i - 1]
    BY <1>7
  <2> HIDE DEF new
  <2>2. first - 1 + i \in 1 .. Len(recs) + 1 /\ first + i - 1 = first - 1 + i
    BY <1>5, <1>8, <2>1
  <2> QED BY <1>1, <1>8, <2>1, <2>2
<1>11. new = InsertPacket(recs, pkt, Nanoseconds(TotalWindow))
  BY DEF InsertPacket, all, fresh, first, duration
<1> HIDE DEF new
<1> QED BY <1>6, <1>9, <1>10, <1>11

LEMMA InsertPacketTyped ==
  ASSUME NEW recs \in Seq(Record), NEW pkt \in Record
  PROVE  InsertPacket(recs, pkt, Nanoseconds(TotalWindow)) \in Seq(Record)
BY InsertPacketKeeps

-----------------------------------------------------------------------------
(* The choice of a rate.                                                   *)

LEMMA MaxIndExists ==
  ASSUME NEW n \in Nat \ {0}, NEW arr \in [1 .. n -> Nat]
  PROVE  /\ FindMaxInd(arr) \in 1 .. n
         /\ \A j \in 1 .. n : /\ arr[j] <= arr[FindMaxInd(arr)]
                              /\ j < FindMaxInd(arr) => arr[j] < arr[FindMaxInd(arr)]
<1> DEFINE T == {k \in 1 .. n : ~\E i \in 1 .. k : \A j \in 1 .. k : arr[j] <= arr[i]}
<1>1. ASSUME NEW k \in T, \A m \in T : k <= m PROVE FALSE
  <2>1. k \in 1 .. n
    OBVIOUS
  <2>2. CASE k = 1
    BY <2>1, <2>2
  <2>3. CASE k # 1
    <3>1. k - 1 \in 1 .. n /\ k - 1 \notin T
      <4> HIDE DEF T
      <4> QED BY <1>1, <2>1, <2>3
    <3>2. PICK i \in 1 .. k - 1 : \A j \in 1 .. k - 1 : arr[j] <= arr[i]
      BY <3>1
    <3>3. arr[i] \in Nat /\ arr[k] \in Nat /\ i \in 1 .. k /\ k \in 1 .. k
      BY <2>1, <3>1, <3>2
    <3>4. \A j \in 1 .. k : j = k \/ (j \in 1 .. k - 1 /\ arr[j] \in Nat)
      BY <2>1
    <3>5. CASE arr[k] <= arr[i]
      BY <3>2, <3>3, <3>4, <3>5
    <3>6. CASE arr[i] <= arr[k]
      <4>1. \A j \in 1 .. k : arr[j] <= arr[k]
        BY <3>2, <3>3, <3>4, <3>6
      <4> QED BY <3>3, <4>1
    <3> QED BY <3>3, <3>5, <3>6
  <2> QED BY <2>2, <2>3
<1>2. T \subseteq Nat
  OBVIOUS
<1>3. T = {}
  <2> HIDE DEF T
  <2> QED BY <1>1, <1>2, LeastExists
<1> DEFINE best == {i \in 1 .. n : \A j \in 1 .. n : arr[j] <= arr[i]}
<1>4. best # {} /\ best \subseteq Nat
  <2>0. n \in 1 .. n
    OBVIOUS
  <2>1. n \notin T
    <3> HIDE DEF T
    <3> QED BY <1>3
  <2>2. PICK i \in 1 .. n : \A j \in 1 .. n : arr[j] <= arr[i]
    BY <2>0, <2>1
  <2>3. i \in best
    BY <2>2
  <2> QED BY <2>3
<1>5. PICK i \in best : \A j \in best : i <= j
  <2> HIDE DEF best
  <2> QED BY <1>4, LeastExists
<1>6. \A j \in 1 .. n : arr[j] <= arr[i] /\ (j < i => arr[j] < arr[i])
  <2> SUFFICES ASSUME NEW j \in 1 .. n, j < i, arr[i] <= arr[j] PROVE FALSE
    OBVIOUS
  <2>1. j \in best
    OBVIOUS
  <2> QED BY <1>5, <2>1
<1>7. DOMAIN arr = 1 .. n /\ i \in 1 .. n
  OBVIOUS
<1> QED BY <1>6, <1>7 DEF FindMaxInd

LEMMA ThroughputTyped ==
  ASSUME NEW loss \in [RateSet -> LossRate], NEW feasible_rates, NEW current, NEW thresh, NEW r \in RateSet
  PROVE  Throughput(loss, feasible_rates, current, thresh, r) \in Nat
<1>1. r \in Nat /\ Unit \in Nat
  BY ConstantsTyped DEF Unit
<1>2. r * Unit \in Nat
  BY <1>1
<1>3. loss[r] # INVALID_LOSS_RATE => r * (Unit - loss[r]) \in Nat
  <2>1. loss[r] # INVALID_LOSS_RATE => Unit - loss[r] \in Nat
    BY DEF LossRate, Unit
  <2> QED BY <1>1, <2>1
<1> QED BY <1>2, <1>3 DEF Throughput

\* A rate above the threshold has no throughput; only the lowest is chosen then.
LEMMA ScoutRate ==
  ASSUME NEW loss \in [RateSet -> LossRate], NEW feasible_rates, NEW current, NEW thresh
  PROVE  LET chosen == ApplyRateScout(loss, feasible_rates, current, thresh)
         IN  chosen \in RateSet /\ (loss[chosen] > thresh => chosen = Rates[1])
<1> DEFINE arr == [i \in RateInd |-> Throughput(loss, feasible_rates, current, thresh, Rates[i])]
           ind == FindMaxInd(arr)
<1>1. Len(Rates) \in Nat \ {0} /\ RateInd = 1 .. Len(Rates) /\ \A i \in RateInd : Rates[i] \in RateSet
  BY ConstantsTyped
<1>2. arr \in [1 .. Len(Rates) -> Nat]
  BY <1>1, ThroughputTyped
<1>3. /\ ind \in 1 .. Len(Rates)
      /\ \A j \in 1 .. Len(Rates) : j < ind => arr[j] < arr[ind]
  <2> HIDE DEF arr
  <2> QED BY <1>1, <1>2, MaxIndExists
<1>4. ApplyRateScout(loss, feasible_rates, current, thresh) = Rates[ind]
  BY DEF ApplyRateScout
<1>5. loss[Rates[ind]] > thresh => arr[ind] = 0
  <2> HIDE DEF ind
  <2> QED BY <1>1, <1>3 DEF Throughput
<1> HIDE DEF ind, arr
<1>6. arr[ind] = 0 => ind = 1
  <2> SUFFICES ASSUME arr[ind] = 0, ind # 1 PROVE FALSE
    OBVIOUS
  <2>1. 1 \in 1 .. Len(Rates) /\ 1 < ind
    BY <1>1, <1>3
  <2>2. arr[1] \in Nat /\ arr[1] < arr[ind]
    BY <1>2, <1>3, <2>1
  <2> QED BY <2>2
<1> QED BY <1>1, <1>3, <1>4, <1>5, <1>6

LEMMA ApplyRateTyped ==
  ASSUME NEW loss \in [RateSet -> LossRate], NEW feasible_rates, NEW current \in RateSet, NEW version
  PROVE  LET chosen == ApplyRate(version, loss, feasible_rates, current)
         IN  /\ chosen \in RateSet
             /\ version \in BoundLoss /\ loss[chosen] > loss_bound => chosen = Rates[1]
<1>1. version \in BoundLoss => version # "Fixed"
  BY DEF BoundLoss
<1> QED BY <1>1, ScoutRate DEF ApplyRate

-----------------------------------------------------------------------------
(* The rates of a batch.                                                   *)

LEMMA SampleRatesTyped ==
  ASSUME NEW version, NEW feasible_rates, NEW r \in RateSet
  PROVE  SampleRates(version, feasible_rates, r) \subseteq RateSet
<1> DEFINE ind == CHOOSE i \in RateInd : Rates[i] = r
           higher == {Rates[i] : i \in HigherRates(version, ind) \cap RateInd}
           candidates == {h \in higher : IsFeasible(feasible_rates, h)}
<1>1. RateInd = 1 .. Len(Rates) /\ Len(Rates) \in Nat \ {0} /\ \A i \in RateInd : Rates[i] \in RateSet
  BY ConstantsTyped
<1>2. ind \in RateInd
  BY DEF RateSet
<1>3. candidates \subseteq RateSet
  BY <1>1
<1> HIDE DEF ind
<1>4. TheLarger(ind - 1, 1) \in RateInd
  BY <1>1, <1>2 DEF TheLarger
<1>5. SampleRates(version, feasible_rates, r) =
        IF candidates # {} THEN candidates ELSE {Rates[TheLarger(ind - 1, 1)]}
  BY DEF SampleRates, ind
<1> QED BY <1>1, <1>3, <1>4, <1>5

LEMMA RatesForBatchTyped ==
  ASSUME NEW version, NEW n \in Nat, NEW r \in RateSet, NEW sample \in RateSet
  PROVE  /\ FindRatesForBatch(version, n, r, sample) \in Seq(RateSet)
         /\ Len(FindRatesForBatch(version, n, r, sample)) \in n .. n + 1
<1> DEFINE copies == [i \in 1 .. n |-> r]
<1>1. copies \in Seq(RateSet) /\ Len(copies) = n
  <2>1. copies \in [1 .. n -> RateSet]
    OBVIOUS
  <2>2. copies \in Seq(RateSet)
    BY <2>1, SeqDef
  <2> QED BY <2>1, <2>2, LenProperties
<1> HIDE DEF copies
<1>2. Append(copies, sample) \in Seq(RateSet) /\ Len(Append(copies, sample)) = n + 1
  BY <1>1, AppendProperties
<1>3. <<sample>> \o copies \in Seq(RateSet) /\ Len(<<sample>> \o copies) = n + 1
  <2>1. <<sample>> \in Seq(RateSet) /\ Len(<<sample>>) = 1
    OBVIOUS
  <2> QED BY <1>1, <2>1, ConcatProperties
<1> QED BY <1>1, <1>2, <1>3 DEF FindRatesForBatch, SortedRates, copies

-----------------------------------------------------------------------------
(* The tables of the baselines.                                            *)

RateEntry == [sent : Int, acked : Int, conti_loss : Int, avg : Nat, min_avg : Int, loss_ratio : Int]
RateTable == [rate : [RateInd -> RateEntry], num_acked : Int, pos : RateInd, pkt_count : Nat,
              wnd_counter : Nat \ {0}, update : BOOLEAN]

\* The packets of a set, in a history from which the first d have been removed.
CountFrom(history, d, pkts) == Cardinality({h \in d + 1 .. Len(history) : history[h] \in pkts})
SentAtRate(i) == {pkt \in Record : pkt.rate = Rates[i]}
AckedPkts == {pkt \in Record : pkt.acked}

\* The table counts what is left of the history.
MatchesFrom(table, history, d) ==
  /\ table.num_acked = CountFrom(history, d, AckedPkts)
  /\ \A i \in RateInd : /\ table.rate[i].sent = CountFrom(history, d, SentAtRate(i))
                        /\ table.rate[i].acked = CountFrom(history, d, SentAtRate(i) \cap AckedPkts)

One(pkt, pkts) == IF pkt \in pkts THEN 1 ELSE 0

LEMMA CountTyped ==
  ASSUME NEW history \in Seq(Record), NEW d \in Nat, NEW pkts
  PROVE  /\ IsFiniteSet({h \in d + 1 .. Len(history) : history[h] \in pkts})
         /\ CountFrom(history, d, pkts) \in Nat
<1>1. IsFiniteSet(d + 1 .. Len(history))
  <2>1. d + 1 \in Int /\ Len(history) \in Int
    BY RecordOf
  <2> QED BY <2>1, FS_Interval
<1>2. IsFiniteSet({h \in d + 1 .. Len(history) : history[h] \in pkts})
  BY <1>1, FS_Subset
<1> QED BY <1>2, FS_CardinalityType DEF CountFrom

LEMMA CountAppended ==
  ASSUME NEW history \in Seq(Record), NEW pkt \in Record, NEW pkts
  PROVE  CountFrom(Append(history, pkt), 0, pkts) = CountFrom(history, 0, pkts) + One(pkt, pkts)
<1> DEFINE n == Len(history)
           longer == Append(history, pkt)
           old == {h \in 1 .. n : history[h] \in pkts}
           new == {h \in 1 .. n + 1 : longer[h] \in pkts}
<1>1. n \in Nat
  BY RecordOf
<1>2. Len(longer) = n + 1 /\ longer[n + 1] = pkt /\ \A h \in 1 .. n : longer[h] = history[h]
  BY AppendProperties
<1> HIDE DEF longer
<1>3. 0 \in Nat /\ 0 + 1 = 1
  OBVIOUS
<1>4. IsFiniteSet(old) /\ Cardinality(old) \in Nat /\ CountFrom(history, 0, pkts) = Cardinality(old)
  <2>1. IsFiniteSet({h \in 0 + 1 .. Len(history) : history[h] \in pkts}) /\ CountFrom(history, 0, pkts) \in Nat
    BY <1>3, CountTyped
  <2> QED BY <1>3, <2>1 DEF CountFrom
<1>5. CountFrom(longer, 0, pkts) = Cardinality(new)
  BY <1>2, <1>3 DEF CountFrom
<1>6. new = IF pkt \in pkts THEN old \cup {n + 1} ELSE old
  BY <1>1, <1>2
<1>7. n + 1 \notin old
  BY <1>1
<1> HIDE DEF old, new
<1>8. CASE pkt \in pkts
  <2>1. One(pkt, pkts) = 1
    BY <1>8 DEF One
  <2>2. Cardinality(old \cup {n + 1}) = Cardinality(old) + 1
    BY <1>4, <1>7, FS_AddElement
  <2> QED BY <1>4, <1>5, <1>6, <1>8, <2>1, <2>2 DEF longer
<1>9. CASE pkt \notin pkts
  <2>1. One(pkt, pkts) = 0
    BY <1>9 DEF One
  <2> QED BY <1>4, <1>5, <1>6, <1>9, <2>1 DEF longer
<1> QED BY <1>8, <1>9

LEMMA CountRemoved ==
  ASSUME NEW history \in Seq(Record), NEW d \in 1 .. Len(history), NEW pkts
  PROVE  CountFrom(history, d, pkts) = CountFrom(history, d - 1, pkts) - One(history[d], pkts)
<1> DEFINE old == {h \in (d - 1) + 1 .. Len(history) : history[h] \in pkts}
           new == {h \in d + 1 .. Len(history) : history[h] \in pkts}
<1>1. d - 1 \in Nat /\ d \in Nat /\ Len(history) \in Nat /\ (d - 1) + 1 = d
  BY RecordOf
<1>2. IsFiniteSet(old) /\ Cardinality(old) \in Nat
  BY <1>1, CountTyped DEF CountFrom
<1>3. old = {h \in d .. Len(history) : history[h] \in pkts}
  BY <1>1
<1>4. new = old \ {d} /\ (d \in old <=> history[d] \in pkts)
  BY <1>1, <1>3
<1>5. CountFrom(history, d, pkts) = Cardinality(new) /\ CountFrom(history, d - 1, pkts) = Cardinality(old)
  BY DEF CountFrom
<1> HIDE DEF old, new
<1>6. CASE history[d] \in pkts
  <2>1. One(history[d], pkts) = 1
    BY <1>6 DEF One
  <2>2. Cardinality(old \ {d}) = Cardinality(old) - 1
    BY <1>2, <1>4, <1>6, FS_RemoveElement
  <2> QED BY <1>4, <1>5, <2>1, <2>2
<1>7. CASE history[d] \notin pkts
  <2>1. One(history[d], pkts) = 0
    BY <1>7 DEF One
  <2>2. Cardinality(old \ {d}) = Cardinality(old)
    BY <1>2, <1>4, <1>7, FS_RemoveElement
  <2> QED BY <1>2, <1>4, <1>5, <2>1, <2>2
<1> QED BY <1>6, <1>7

LEMMA CountShifted ==
  ASSUME NEW history \in Seq(Record), NEW d \in 0 .. Len(history), NEW pkts
  PROVE  /\ SubSeq(history, d + 1, Len(history)) \in Seq(Record)
         /\ CountFrom(SubSeq(history, d + 1, Len(history)), 0, pkts) = CountFrom(history, d, pkts)
<1> DEFINE n == Len(history)
           rest == SubSeq(history, d + 1, n)
           new == {h \in 0 + 1 .. Len(rest) : rest[h] \in pkts}
           old == {h \in d + 1 .. n : history[h] \in pkts}
<1>1. n \in Nat /\ d \in Nat /\ d \in Int
  BY RecordOf
<1>2. rest \in Seq(Record) /\ Len(rest) = n - d /\ \A h \in 1 .. n - d : rest[h] = history[d + h]
  BY <1>1
<1> HIDE DEF rest, n
<1>3. new \subseteq Int /\ old \subseteq Int
  BY <1>1, <1>2
<1>4. \A j \in Int : j \in new <=> d + j \in old
  BY <1>1, <1>2
<1>5. IsFiniteSet(new)
  BY <1>2, CountTyped
<1>6. CountFrom(rest, 0, pkts) = Cardinality(new) /\ CountFrom(history, d, pkts) = Cardinality(old)
  BY DEF CountFrom, n
<1> HIDE DEF new, old
<1>7. Cardinality(old) = Cardinality(new)
  BY <1>1, <1>3, <1>4, <1>5, ShiftedCount
<1> QED BY <1>2, <1>6, <1>7 DEF rest, n

LEMMA PositionUnique ==
  ASSUME NEW r \in RateSet
  PROVE  PositionOf(r) \in RateInd /\ \A i \in RateInd : Rates[i] = r <=> i = PositionOf(r)
<1>1. PositionOf(r) \in RateInd /\ Rates[PositionOf(r)] = r
  BY DEF PositionOf, RateSet
<1>2. \A i \in RateInd : i \in Int /\ Rates[i] \in Int
  <2>1. \A n \in Nat \ {0} : n \in Int
    OBVIOUS
  <2>2. \A i \in 1 .. Len(Rates) : i \in Int
    OBVIOUS
  <2> QED BY <2>1, <2>2, ConstantsTyped
<1>3. ASSUME NEW i \in RateInd, Rates[i] = r PROVE i = PositionOf(r)
  <2>1. i < PositionOf(r) => Rates[i] < Rates[PositionOf(r)]
    BY <1>1, DecisionAssumption
  <2>2. PositionOf(r) < i => Rates[PositionOf(r)] < Rates[i]
    BY <1>1, DecisionAssumption
  <2>3. i \in Int /\ PositionOf(r) \in Int /\ Rates[i] \in Int /\ Rates[PositionOf(r)] \in Int
    BY <1>1, <1>2
  <2>4. ~(i < PositionOf(r)) /\ ~(PositionOf(r) < i)
    BY <1>1, <1>3, <2>1, <2>2, <2>3
  <2> QED BY <2>3, <2>4
<1> QED BY <1>1, <1>3

LEMMA InitTableMatches ==
  ASSUME NEW version, NEW update \in BOOLEAN
  PROVE  InitRateTable(version, update) \in RateTable /\ MatchesFrom(InitRateTable(version, update), <<>>, 0)
<1>1. 1 \in RateInd
  BY ConstantsTyped
<1>2. WndSize[1] \in Nat \ {0}
  BY <1>1, BaselineAssumption
<1>3. Infinite \in Nat /\ Unit \in Int
  BY DEF Infinite, Unit
<1>4. NoPackets \in RateEntry /\ NoPackets.sent = 0 /\ NoPackets.acked = 0
  BY <1>3 DEF NoPackets, RateEntry
<1>5. [i \in RateInd |-> NoPackets] \in [RateInd -> RateEntry]
  BY <1>4
<1>6. InitRateTable(version, update) \in RateTable
  <2> DEFINE rates == [i \in RateInd |-> NoPackets]
             wnd == WndSize[1]
             upd == IF version = "RRAA" THEN update ELSE TRUE
  <2>0. upd = update \/ upd = TRUE
    OBVIOUS
  <2>1. upd \in BOOLEAN
    BY <2>0
  <2>4. 0 \in Int /\ 0 \in Nat
    OBVIOUS
  <2>2. InitRateTable(version, update) =
          [rate |-> rates, num_acked |-> 0, pos |-> 1, pkt_count |-> 0, wnd_counter |-> wnd, update |-> upd]
    BY DEF InitRateTable
  <2> HIDE DEF rates, wnd, upd
  <2>3. rates \in [RateInd -> RateEntry] /\ wnd \in Nat \ {0}
    BY <1>2, <1>5 DEF rates, wnd
  <2> QED BY <1>1, <2>1, <2>2, <2>3, <2>4 DEF RateTable
<1>7. \A pkts : CountFrom(<<>>, 0, pkts) = 0
  <2> SUFFICES ASSUME NEW pkts PROVE CountFrom(<<>>, 0, pkts) = 0
    OBVIOUS
  <2>1. {h \in 0 + 1 .. Len(<<>>) : <<>>[h] \in pkts} = {}
    OBVIOUS
  <2> QED BY <2>1, FS_EmptySet DEF CountFrom
<1> QED BY <1>4, <1>6, <1>7 DEF MatchesFrom, InitRateTable

\* A packet more at its rate, and one less.
LEMMA InsertStep ==
  ASSUME NEW version, NEW table \in RateTable, NEW history \in Seq(Record), MatchesFrom(table, history, 0),
         NEW pkt \in Record
  PROVE  /\ InsertIntoRateTable(version, table, pkt) \in RateTable
         /\ MatchesFrom(InsertIntoRateTable(version, table, pkt), Append(history, pkt), 0)
         /\ InsertIntoRateTable(version, table, pkt).update
<1> DEFINE p == PositionOf(pkt.rate)
           acked == IF pkt.acked THEN 1 ELSE 0
           entry == table.rate[p]
           sent_pkts == entry.sent + 1
           acked_pkts == entry.acked + acked
           num == table.num_acked + acked
           losses == IF pkt.acked \/ version = "RRAA" THEN 0 ELSE TheSmaller(entry.conti_loss + 1, FailLimit)
           new == [entry EXCEPT !.sent = sent_pkts, !.acked = acked_pkts, !.conti_loss = losses]
           next == InsertIntoRateTable(version, table, pkt)
<1>1. pkt.rate \in RateSet /\ pkt.acked \in BOOLEAN
  BY DEF Record
<1>2. p \in RateInd /\ \A i \in RateInd : pkt.rate = Rates[i] <=> i = p
  BY <1>1, PositionUnique
<1>3. next = [table EXCEPT !.rate[p].sent = sent_pkts, !.rate[p].acked = acked_pkts,
                           !.rate[p].conti_loss = losses, !.num_acked = num, !.update = TRUE]
  BY DEF InsertIntoRateTable
<1> HIDE DEF p
<1>4. table.rate \in [RateInd -> RateEntry] /\ table.num_acked \in Int
  BY DEF RateTable
<1>5. /\ entry \in RateEntry /\ entry.sent \in Int /\ entry.acked \in Int /\ entry.conti_loss \in Int
      /\ \A i \in RateInd : table.rate[i].sent \in Int /\ table.rate[i].acked \in Int
  BY <1>2, <1>4 DEF RateEntry
<1>6. acked \in Int /\ sent_pkts \in Int /\ acked_pkts \in Int /\ num \in Int /\ losses \in Int
  <2>1. TheSmaller(entry.conti_loss + 1, FailLimit) \in Int
    BY <1>5, BaselineAssumption DEF TheSmaller
  <2> QED BY <1>4, <1>5, <2>1
<1> HIDE DEF sent_pkts, acked_pkts, num, losses, next
<1>7. next = [table EXCEPT !.rate[p] = new, !.num_acked = num, !.update = TRUE]
  BY ZenonT(60), <1>2, <1>3 DEF RateTable, RateEntry
<1>8. /\ next \in RateTable /\ next.update /\ next.num_acked = table.num_acked + acked
      /\ \A i \in RateInd : next.rate[i] = IF i = p THEN new ELSE table.rate[i]
      /\ new.sent = entry.sent + 1 /\ new.acked = entry.acked + acked
  <2> HIDE DEF entry
  <2>1. new \in RateEntry /\ new.sent = sent_pkts /\ new.acked = acked_pkts
    BY <1>5, <1>6 DEF RateEntry
  <2> HIDE DEF new
  <2>2. /\ next \in RateTable /\ next.update /\ next.num_acked = num
        /\ \A i \in RateInd : next.rate[i] = IF i = p THEN new ELSE table.rate[i]
    BY <1>2, <1>6, <1>7, <2>1 DEF RateTable
  <2> QED BY <2>1, <2>2 DEF num, sent_pkts, acked_pkts
<1> HIDE DEF new
<1>9. acked = One(pkt, AckedPkts)
  BY DEF One, AckedPkts
<1>10. next.num_acked = CountFrom(Append(history, pkt), 0, AckedPkts)
  BY <1>8, <1>9, CountAppended DEF MatchesFrom
<1>11. ASSUME NEW i \in RateInd
       PROVE  /\ next.rate[i].sent = CountFrom(Append(history, pkt), 0, SentAtRate(i))
              /\ next.rate[i].acked = CountFrom(Append(history, pkt), 0, SentAtRate(i) \cap AckedPkts)
  <2>1. /\ CountFrom(Append(history, pkt), 0, SentAtRate(i)) = table.rate[i].sent + One(pkt, SentAtRate(i))
        /\ CountFrom(Append(history, pkt), 0, SentAtRate(i) \cap AckedPkts)
             = table.rate[i].acked + One(pkt, SentAtRate(i) \cap AckedPkts)
    BY CountAppended DEF MatchesFrom
  <2>2. CASE i = p
    <3>1. One(pkt, SentAtRate(i)) = 1 /\ One(pkt, SentAtRate(i) \cap AckedPkts) = acked
      BY <1>2, <2>2 DEF One, SentAtRate, AckedPkts
    <3>2. next.rate[i] = new
      BY <1>8, <2>2
    <3> QED BY <1>8, <2>1, <2>2, <3>1, <3>2
  <2>3. CASE i # p
    <3>1. One(pkt, SentAtRate(i)) = 0 /\ One(pkt, SentAtRate(i) \cap AckedPkts) = 0
      BY <1>2, <2>3 DEF One, SentAtRate
    <3>2. next.rate[i] = table.rate[i] /\ table.rate[i].sent \in Int /\ table.rate[i].acked \in Int
      BY <1>5, <1>8, <2>3
    <3> QED BY <2>1, <3>1, <3>2
  <2> QED BY <2>2, <2>3
<1> QED BY <1>8, <1>10, <1>11 DEF next, MatchesFrom

LEMMA RemoveStep ==
  ASSUME NEW table \in RateTable, NEW history \in Seq(Record), NEW d \in 1 .. Len(history),
         MatchesFrom(table, history, d - 1)
  PROVE  /\ RemoveFromRateTable(table, history[d]) \in RateTable
         /\ MatchesFrom(RemoveFromRateTable(table, history[d]), history, d)
         /\ RemoveFromRateTable(table, history[d]).update
<1> DEFINE pkt == history[d]
           p == PositionOf(pkt.rate)
           acked == IF pkt.acked THEN 1 ELSE 0
           entry == table.rate[p]
           sent_pkts == entry.sent - 1
           acked_pkts == entry.acked - acked
           num == table.num_acked - acked
           new == [entry EXCEPT !.sent = sent_pkts, !.acked = acked_pkts]
           next == RemoveFromRateTable(table, pkt)
<1>0. pkt \in Record
  BY ElementOfSeq
<1>1. pkt.rate \in RateSet /\ pkt.acked \in BOOLEAN
  BY <1>0 DEF Record
<1>2. p \in RateInd /\ \A i \in RateInd : pkt.rate = Rates[i] <=> i = p
  BY <1>1, PositionUnique
<1>3. next = [table EXCEPT !.rate[p].sent = sent_pkts, !.rate[p].acked = acked_pkts,
                           !.num_acked = num, !.update = TRUE]
  BY DEF RemoveFromRateTable
<1> HIDE DEF p
<1>4. table.rate \in [RateInd -> RateEntry] /\ table.num_acked \in Int
  BY DEF RateTable
<1>5. /\ entry \in RateEntry /\ entry.sent \in Int /\ entry.acked \in Int
      /\ \A i \in RateInd : table.rate[i].sent \in Int /\ table.rate[i].acked \in Int
  BY <1>2, <1>4 DEF RateEntry
<1>6. acked \in Int /\ sent_pkts \in Int /\ acked_pkts \in Int /\ num \in Int
  BY <1>4, <1>5
<1> HIDE DEF sent_pkts, acked_pkts, num, next
<1>7. next = [table EXCEPT !.rate[p] = new, !.num_acked = num, !.update = TRUE]
  BY <1>2, <1>3 DEF RateTable, RateEntry
<1>8. /\ next \in RateTable /\ next.update /\ next.num_acked = table.num_acked - acked
      /\ \A i \in RateInd : next.rate[i] = IF i = p THEN new ELSE table.rate[i]
      /\ new.sent = entry.sent - 1 /\ new.acked = entry.acked - acked
  <2> HIDE DEF entry
  <2>1. new \in RateEntry /\ new.sent = sent_pkts /\ new.acked = acked_pkts
    BY <1>5, <1>6 DEF RateEntry
  <2> HIDE DEF new
  <2>2. /\ next \in RateTable /\ next.update /\ next.num_acked = num
        /\ \A i \in RateInd : next.rate[i] = IF i = p THEN new ELSE table.rate[i]
    BY <1>2, <1>6, <1>7, <2>1 DEF RateTable
  <2> QED BY <2>1, <2>2 DEF num, sent_pkts, acked_pkts
<1> HIDE DEF new
<1>9. acked = One(pkt, AckedPkts)
  BY <1>0 DEF One, AckedPkts
<1>10. next.num_acked = CountFrom(history, d, AckedPkts)
  BY <1>8, <1>9, CountRemoved DEF MatchesFrom
<1>11. ASSUME NEW i \in RateInd
       PROVE  /\ next.rate[i].sent = CountFrom(history, d, SentAtRate(i))
              /\ next.rate[i].acked = CountFrom(history, d, SentAtRate(i) \cap AckedPkts)
  <2>1. /\ CountFrom(history, d, SentAtRate(i)) = table.rate[i].sent - One(pkt, SentAtRate(i))
        /\ CountFrom(history, d, SentAtRate(i) \cap AckedPkts)
             = table.rate[i].acked - One(pkt, SentAtRate(i) \cap AckedPkts)
    BY CountRemoved DEF MatchesFrom
  <2>2. CASE i = p
    <3>1. One(pkt, SentAtRate(i)) = 1 /\ One(pkt, SentAtRate(i) \cap AckedPkts) = acked
      BY <1>0, <1>2, <2>2 DEF One, SentAtRate, AckedPkts
    <3>2. next.rate[i] = new
      BY <1>8, <2>2
    <3> QED BY <1>8, <2>1, <2>2, <3>1, <3>2
  <2>3. CASE i # p
    <3>1. One(pkt, SentAtRate(i)) = 0 /\ One(pkt, SentAtRate(i) \cap AckedPkts) = 0
      BY <1>2, <2>3 DEF One, SentAtRate
    <3>2. next.rate[i] = table.rate[i] /\ table.rate[i].sent \in Int /\ table.rate[i].acked \in Int
      BY <1>5, <1>8, <2>3
    <3> QED BY <2>1, <3>1, <3>2
  <2> QED BY <2>2, <2>3
<1> QED BY <1>8, <1>10, <1>11 DEF next, MatchesFrom, pkt

\* InsertRecord adds a packet and takes any number of old ones away again.
Recounted(b, new) ==
  \E table \in RateTable, history \in Seq(Record) :
    /\ new = [b EXCEPT !.table = table, !.history = history] /\ MatchesFrom(table, history, 0)
    /\ table.update /\ Len(history) <= Len(b.history) + 1

LEMMA InsertRecordMatches ==
  ASSUME NEW version, NEW b, b.table \in RateTable, b.history \in Seq(Record),
         MatchesFrom(b.table, b.history, 0), NEW pkt \in Record, NEW old \in 0 .. Len(b.history)
  PROVE  Recounted(b, InsertRecord(version, b, pkt, old))
<1> DEFINE history == Append(b.history, pkt)
           start == InsertIntoRateTable(version, b.table, pkt)
           step(g, d) == IF d = 0 THEN start ELSE RemoveFromRateTable(g[d - 1], history[d])
           solves(g, n) == g = [d \in 0 .. n |-> step(g, d)]
           f == CHOOSE g : solves(g, old)
           rest == SubSeq(history, old + 1, Len(history))
<1>1. InsertRecord(version, b, pkt, old) = [b EXCEPT !.table = f[old], !.history = rest]
  BY DEF InsertRecord
<1>2. history \in Seq(Record) /\ Len(history) = Len(b.history) + 1 /\ Len(b.history) \in Nat /\ old \in Nat
  BY AppendProperties, RecordOf
<1>3. start \in RateTable /\ MatchesFrom(start, history, 0) /\ start.update
  BY InsertStep
<1> HIDE DEF history, start
<1>4. ASSUME NEW g, NEW h, NEW d, d # 0, g[d - 1] = h[d - 1] PROVE step(g, d) = step(h, d)
  BY <1>4
<1>5. ASSUME NEW g PROVE step(g, 0) = start
  OBVIOUS
<1>6. ASSUME NEW g, NEW d \in 1 .. Len(history), g[d - 1] \in RateTable, MatchesFrom(g[d - 1], history, d - 1)
      PROVE  step(g, d) \in RateTable /\ MatchesFrom(step(g, d), history, d) /\ step(g, d).update
  <2>1. step(g, d) = RemoveFromRateTable(g[d - 1], history[d])
    BY <1>2
  <2> QED BY <1>2, <1>6, <2>1, RemoveStep
<1> HIDE DEF step
<1>7. \A n \in Nat : \E g : solves(g, n)
  <2> DEFINE T == {n \in Nat : ~\E g : solves(g, n)}
  <2>1. ASSUME NEW n \in T, \A m \in T : n <= m PROVE FALSE
    <3>1. n \in Nat
      OBVIOUS
    <3>2. CASE n = 0
      <4> DEFINE g == [d \in 0 .. 0 |-> start]
      <4>1. \A d \in 0 .. 0 : step(g, d) = start
        <5>1. \A d \in 0 .. 0 : d = 0
          OBVIOUS
        <5> HIDE DEF g
        <5> QED BY <1>5, <5>1
      <4>2. solves(g, 0)
        BY <4>1
      <4> QED BY <3>2, <4>2
    <3>3. CASE n # 0
      <4>1. n - 1 \in Nat /\ n - 1 \notin T
        <5> HIDE DEF T
        <5> QED BY <2>1, <3>1, <3>3
      <4>2. PICK g : solves(g, n - 1)
        BY <4>1
      <4> DEFINE h == [d \in 0 .. n |-> step(g, d)]
      <4>3. \A d \in 0 .. n - 1 : h[d] = g[d]
        <5>1. \A d \in 0 .. n - 1 : d \in 0 .. n
          BY <3>1
        <5>2. \A d \in 0 .. n - 1 : h[d] = step(g, d)
          BY <5>1
        <5> HIDE DEF h
        <5> QED BY <4>2, <5>2
      <4> HIDE DEF h
      <4>4. ASSUME NEW d \in 0 .. n PROVE step(h, d) = step(g, d)
        <5>1. CASE d = 0
          BY <1>5, <5>1
        <5>2. CASE d # 0
          <6>1. d - 1 \in 0 .. n - 1
            BY <3>1, <5>2
          <6> QED BY <1>4, <4>3, <5>2, <6>1
        <5> QED BY <5>1, <5>2
      <4>5. solves(h, n)
        BY <4>4 DEF h
      <4> QED BY <4>5
    <3> QED BY <3>2, <3>3
  <2>2. T \subseteq Nat
    OBVIOUS
  <2> HIDE DEF T
  <2>3. T = {}
    BY <2>1, <2>2, LeastExists
  <2> QED BY <2>3 DEF T
<1>8. solves(f, old)
  BY <1>2, <1>7
<1>9. \A d \in 0 .. old : f[d] = step(f, d)
  <2> HIDE DEF f
  <2> QED BY <1>8
<1> HIDE DEF f, solves
<1> DEFINE good(d) == f[d] \in RateTable /\ MatchesFrom(f[d], history, d) /\ f[d].update
           T == {d \in 0 .. old : ~good(d)}
<1>10. ASSUME NEW d \in T, \A m \in T : d <= m PROVE FALSE
  <2>1. d \in 0 .. old /\ d \in Nat /\ f[d] = step(f, d)
    BY <1>2, <1>9
  <2>2. CASE d = 0
    <3>1. good(d)
      BY <1>3, <1>5, <2>1, <2>2
    <3> QED BY <3>1
  <2>3. CASE d # 0
    <3>1. d - 1 \in 0 .. old /\ d - 1 \notin T /\ d \in 1 .. Len(history)
      <4> HIDE DEF T
      <4> QED BY <1>2, <1>10, <2>1, <2>3
    <3>2. good(d - 1)
      BY <3>1
    <3>3. good(d)
      BY <1>6, <2>1, <3>1, <3>2
    <3> QED BY <3>3
  <2> QED BY <2>2, <2>3
<1>11. T \subseteq Nat
  BY <1>2
<1>12. good(old)
  <2>1. T = {}
    <3> HIDE DEF T
    <3> QED BY <1>10, <1>11, LeastExists
  <2>2. old \in 0 .. old
    BY <1>2
  <2> HIDE DEF good
  <2> QED BY <2>1, <2>2
<1>13. old \in 0 .. Len(history)
  BY <1>2
<1>14. /\ rest \in Seq(Record) /\ Len(rest) <= Len(b.history) + 1
       /\ \A pkts : CountFrom(rest, 0, pkts) = CountFrom(history, old, pkts)
  <2>1. rest \in Seq(Record) /\ \A pkts : CountFrom(rest, 0, pkts) = CountFrom(history, old, pkts)
    BY <1>2, <1>13, CountShifted
  <2>2. Len(rest) = Len(history) - old
    <3> HIDE DEF history
    <3> QED BY <1>2, <1>13
  <2>3. Len(rest) <= Len(b.history) + 1
    BY <1>2, <2>2
  <2> QED BY <2>1, <2>3
<1> HIDE DEF rest
<1>15. MatchesFrom(f[old], rest, 0)
  BY <1>12, <1>14 DEF MatchesFrom
<1> QED BY <1>1, <1>12, <1>14, <1>15 DEF Recounted

\* The tables that ApplyRate may leave: typed, and with the same packets in them.
SameCounts(new, table) ==
  /\ new.num_acked = table.num_acked
  /\ \A i \in RateInd : new.rate[i].sent = table.rate[i].sent /\ new.rate[i].acked = table.rate[i].acked

LEMMA TxTimeTyped ==
  ASSUME NEW i \in RateInd
  PROVE  TxTime(i) \in Nat
<1>1. Rates[i] \in Nat \ {0} /\ 80 * PktSize \in Nat
  BY ConstantsTyped, DecisionAssumption
<1>2. 80 * PktSize <= (80 * PktSize) * Rates[i]
  <2>1. 1 * (80 * PktSize) <= Rates[i] * (80 * PktSize) /\ Rates[i] * (80 * PktSize) = (80 * PktSize) * Rates[i]
    BY <1>1, ProductOrder
  <2> QED BY <1>1, <2>1
<1>3. (80 * PktSize) \div Rates[i] \in 0 .. 80 * PktSize
  BY <1>1, <1>2, QuotientBounds
<1> QED BY <1>1, <1>3 DEF TxTime, Difs

LEMMA AverageTyped ==
  ASSUME NEW i \in RateInd, NEW sent_pkts \in Nat, NEW acked_pkts \in Nat \ {0}
  PROVE  (sent_pkts * TxTime(i)) \div acked_pkts \in Nat
<1> DEFINE time == sent_pkts * TxTime(i)
<1>1. time \in Nat
  BY TxTimeTyped
<1> HIDE DEF time
<1>2. 1 * time <= acked_pkts * time /\ 1 * time = time /\ acked_pkts * time = time * acked_pkts
  BY <1>1, ProductOrder
<1>3. time \div acked_pkts \in 0 .. time
  BY <1>1, <1>2, QuotientBounds
<1>4. time \div acked_pkts \in Nat
  BY <1>1, <1>3
<1> QED BY <1>4 DEF time

LEMMA MinIn ==
  ASSUME NEW S \in SUBSET Nat, S # {}
  PROVE  Min(S) \in S
BY LeastExists DEF Min

LEMMA SampleUpdateTyped ==
  ASSUME NEW table \in RateTable, NEW is_reset \in BOOLEAN,
         \A i \in RateInd : table.rate[i].sent \in Nat /\ table.rate[i].acked \in Nat
  PROVE  SampleUpdate(table, is_reset) \in RateTable /\ SameCounts(SampleUpdate(table, is_reset), table)
<1> DEFINE losses(i) == IF is_reset THEN 0 ELSE table.rate[i].conti_loss
           least(i) == IF table.rate[i].sent > 0 THEN TxTime(i) ELSE table.rate[i].min_avg
           avg(i) == IF table.rate[i].acked = 0 THEN Infinite
                     ELSE (table.rate[i].sent * TxTime(i)) \div table.rate[i].acked
           entry(i) == [table.rate[i] EXCEPT !.conti_loss = losses(i), !.min_avg = least(i), !.avg = avg(i)]
           rates == [i \in RateInd |-> entry(i)]
<1>1. SampleUpdate(table, is_reset) = [table EXCEPT !.rate = rates, !.update = FALSE]
  BY DEF SampleUpdate
<1>2. \A i \in RateInd : table.rate[i] \in RateEntry
  BY DEF RateTable
<1>3. \A i \in RateInd : table.rate[i].conti_loss \in Int /\ table.rate[i].min_avg \in Int
  BY <1>2 DEF RateEntry
<1>4. ASSUME NEW i \in RateInd PROVE losses(i) \in Int /\ least(i) \in Int /\ avg(i) \in Nat
  <2>1. losses(i) \in Int
    <3>1. 0 \in Int
      OBVIOUS
    <3> QED BY <1>3, <3>1
  <2>2. least(i) \in Int
    BY <1>3, TxTimeTyped
  <2>3. avg(i) \in Nat
    <3>1. CASE table.rate[i].acked = 0
      BY <3>1 DEF Infinite
    <3>2. CASE table.rate[i].acked # 0
      <4>1. table.rate[i].acked \in Nat \ {0} /\ table.rate[i].sent \in Nat
        BY <3>2
      <4> QED BY <3>2, <4>1, AverageTyped
    <3> QED BY <3>1, <3>2
  <2> QED BY <2>1, <2>2, <2>3
<1> HIDE DEF losses, least, avg
<1>5. \A i \in RateInd : /\ entry(i) \in RateEntry
                         /\ entry(i).sent = table.rate[i].sent /\ entry(i).acked = table.rate[i].acked
  BY <1>2, <1>4 DEF RateEntry
<1> HIDE DEF entry
<1>6. rates \in [RateInd -> RateEntry] /\ \A i \in RateInd : rates[i] = entry(i)
  BY <1>5
<1> HIDE DEF rates
<1>7. /\ [table EXCEPT !.rate = rates, !.update = FALSE] \in RateTable
      /\ [table EXCEPT !.rate = rates, !.update = FALSE].rate = rates
      /\ [table EXCEPT !.rate = rates, !.update = FALSE].num_acked = table.num_acked
  BY <1>6 DEF RateTable
<1> QED BY <1>1, <1>5, <1>6, <1>7 DEF SameCounts

LEMMA SampleApplyTyped ==
  ASSUME NEW table \in RateTable,
         \A i \in RateInd : table.rate[i].sent \in Nat /\ table.rate[i].acked \in Nat,
         NEW new \in SampleApply(table)
  PROVE  new \in RateTable /\ SameCounts(new, table)
<1> DEFINE fresh == IF table.update THEN {SampleUpdate(table, is_reset) : is_reset \in BOOLEAN} ELSE {table}
           count == table.pkt_count + 1
           next(t) == IF t.num_acked = 0 THEN [count |-> count % SampleEvery, to |-> Untried(t)]
                      ELSE IF count % SampleEvery = 0 THEN [count |-> 0, to |-> Samples(t)]
                      ELSE [count |-> count, to |-> Fastest(t)]
           applied(t) == {[t EXCEPT !.pos = p, !.pkt_count = next(t).count] : p \in next(t).to}
<1>0. SampleApply(table) = UNION {applied(t) : t \in fresh}
  BY DEF SampleApply
<1>1. PICK t \in fresh : new \in applied(t)
  <2> HIDE DEF applied, fresh
  <2> QED BY <1>0
<1>2. PICK p \in next(t).to : new = [t EXCEPT !.pos = p, !.pkt_count = next(t).count]
  BY <1>1
<1>3. t \in RateTable /\ SameCounts(t, table)
  <2>1. CASE t = table
    BY <2>1 DEF SameCounts
  <2>2. CASE t # table
    <3>1. PICK is_reset \in BOOLEAN : t = SampleUpdate(table, is_reset)
      BY <2>2
    <3> QED BY <3>1, SampleUpdateTyped
  <2> QED BY <2>1, <2>2
<1> HIDE DEF fresh
<1>4. count \in Nat /\ count % SampleEvery \in Nat
  <2>1. table.pkt_count \in Nat
    BY DEF RateTable
  <2>2. count \in Nat /\ count \in Int
    BY <2>1
  <2> HIDE DEF count
  <2>3. count % SampleEvery \in 0 .. SampleEvery - 1 /\ SampleEvery \in Nat
    BY <2>2, Quotient, BaselineAssumption
  <2> QED BY <2>2, <2>3
<1> HIDE DEF count
<1>5. next(t).count \in Nat /\ next(t).to \in {Untried(t), Samples(t), Fastest(t)}
  BY <1>4
<1>6. RateInd = 1 .. Len(Rates) /\ Len(Rates) \in Nat \ {0} /\ RateInd \subseteq Nat /\ 1 \in RateInd
  BY ConstantsTyped
<1>7. t.pos \in RateInd /\ \A i \in RateInd : t.rate[i].avg \in Nat
  BY <1>3 DEF RateTable, RateEntry
<1>8. Untried(t) \subseteq RateInd
  <2> DEFINE unfailed == {i \in RateInd : ~HasFailed(t, i)}
  <2>1. unfailed # {} => Min(unfailed) \in unfailed
    BY <1>6, MinIn
  <2>2. Untried(t) = {IF unfailed = {} THEN 1 ELSE Min(unfailed)}
    BY DEF Untried
  <2> QED BY <1>6, <2>1, <2>2
<1>9. Samples(t) \subseteq RateInd
  BY <1>7 DEF Samples
<1>10. Fastest(t) \subseteq RateInd
  <2> DEFINE avgs == {t.rate[i].avg : i \in RateInd}
             least == Min(avgs)
             at == {i \in RateInd : t.rate[i].avg = least}
  <2>1. avgs \subseteq Nat /\ avgs # {}
    BY <1>6, <1>7
  <2>2. least \in avgs
    <3> HIDE DEF avgs
    <3> QED BY <2>1, MinIn
  <2>3. Fastest(t) = {IF least >= Infinite THEN t.pos ELSE Min(at)}
    BY DEF Fastest
  <2> HIDE DEF least
  <2>4. at # {} /\ at \subseteq RateInd
    BY <2>2
  <2> HIDE DEF at
  <2>5. Min(at) \in RateInd
    BY <1>6, <2>4, MinIn
  <2> QED BY <1>7, <2>3, <2>5
<1>11. p \in RateInd
  <2> HIDE DEF next
  <2> QED BY <1>5, <1>8, <1>9, <1>10
<1> DEFINE number == next(t).count
<1>12. number \in Nat /\ new = [t EXCEPT !.pos = p, !.pkt_count = number]
  BY <1>2, <1>5
<1> HIDE DEF number
<1>13. new \in RateTable /\ new.rate = t.rate /\ new.num_acked = t.num_acked
  BY <1>3, <1>11, <1>12 DEF RateTable
<1> QED BY <1>3, <1>13 DEF SameCounts

LEMMA RobustUpdateTyped ==
  ASSUME NEW table \in RateTable,
         \A i \in RateInd : table.rate[i].sent \in Nat /\ table.rate[i].acked \in Nat
  PROVE  RobustUpdate(table) \in RateTable /\ SameCounts(RobustUpdate(table), table)
<1> DEFINE loss(i) == IF table.rate[i].sent > 0
                      THEN (Unit * (table.rate[i].sent - table.rate[i].acked)) \div table.rate[i].sent
                      ELSE Unit
           entry(i) == [table.rate[i] EXCEPT !.loss_ratio = loss(i)]
           rates == [i \in RateInd |-> entry(i)]
<1>1. RobustUpdate(table) = [table EXCEPT !.rate = rates, !.update = FALSE]
  BY DEF RobustUpdate
<1>2. \A i \in RateInd : table.rate[i] \in RateEntry
  BY DEF RateTable
<1>3. ASSUME NEW i \in RateInd PROVE loss(i) \in Int
  <2>1. CASE table.rate[i].sent > 0
    <3>1. table.rate[i].sent \in Nat \ {0} /\ Unit * (table.rate[i].sent - table.rate[i].acked) \in Int
      BY <2>1 DEF Unit
    <3> QED BY <2>1, <3>1, Quotient
  <2>2. CASE ~(table.rate[i].sent > 0)
    BY <2>2 DEF Unit
  <2> QED BY <2>1, <2>2
<1> HIDE DEF loss
<1>4. \A i \in RateInd : /\ entry(i) \in RateEntry
                         /\ entry(i).sent = table.rate[i].sent /\ entry(i).acked = table.rate[i].acked
  BY <1>2, <1>3 DEF RateEntry
<1> HIDE DEF entry
<1>5. rates \in [RateInd -> RateEntry] /\ \A i \in RateInd : rates[i] = entry(i)
  BY <1>4
<1> HIDE DEF rates
<1>6. /\ [table EXCEPT !.rate = rates, !.update = FALSE] \in RateTable
      /\ [table EXCEPT !.rate = rates, !.update = FALSE].rate = rates
      /\ [table EXCEPT !.rate = rates, !.update = FALSE].num_acked = table.num_acked
  BY <1>5 DEF RateTable
<1> QED BY <1>1, <1>4, <1>5, <1>6 DEF SameCounts

LEMMA RobustApplyTyped ==
  ASSUME NEW table \in RateTable,
         \A i \in RateInd : table.rate[i].sent \in Nat /\ table.rate[i].acked \in Nat,
         NEW new \in RobustApply(table)
  PROVE  new \in RateTable /\ SameCounts(new, table)
<1> DEFINE fresh == IF table.update THEN RobustUpdate(table) ELSE table
           at == fresh.rate[table.pos]
           to == IF at.sent > 0 /\ at.loss_ratio > p_mtl(table.pos) THEN TheLarger(1, table.pos - 1)
                 ELSE IF at.sent > 0 /\ at.loss_ratio < p_ori(table.pos)
                 THEN TheSmaller(Len(Rates), table.pos + 1)
                 ELSE table.pos
<1>1. new = IF table.wnd_counter = 1 THEN [fresh EXCEPT !.pos = to, !.wnd_counter = WndSize[to]]
            ELSE [fresh EXCEPT !.wnd_counter = @ - 1]
  BY DEF RobustApply
<1>2. fresh \in RateTable /\ SameCounts(fresh, table) /\ fresh.wnd_counter = table.wnd_counter
  <2>1. CASE fresh = table
    BY <2>1 DEF SameCounts
  <2>2. CASE fresh # table
    <3>1. fresh = RobustUpdate(table)
      BY <2>2
    <3>2. RobustUpdate(table).wnd_counter = table.wnd_counter
      BY DEF RobustUpdate, RateTable
    <3> QED BY <3>1, <3>2, RobustUpdateTyped
  <2> QED BY <2>1, <2>2
<1>3. table.pos \in 1 .. Len(Rates) /\ RateInd = 1 .. Len(Rates) /\ Len(Rates) \in Nat \ {0}
  BY ConstantsTyped DEF RateTable
<1>4. to \in {TheLarger(1, table.pos - 1), TheSmaller(Len(Rates), table.pos + 1), table.pos}
  OBVIOUS
<1> HIDE DEF to, at, fresh
<1>5. to \in RateInd
  BY <1>3, <1>4 DEF TheLarger, TheSmaller
<1>6. WndSize[to] \in Nat \ {0}
  BY <1>5, BaselineAssumption
<1>7. CASE table.wnd_counter = 1
  <2>1. new \in RateTable /\ new.rate = fresh.rate /\ new.num_acked = fresh.num_acked
    BY <1>1, <1>2, <1>5, <1>6, <1>7 DEF RateTable
  <2> QED BY <1>2, <2>1 DEF SameCounts
<1>8. CASE table.wnd_counter # 1
  <2>1. fresh.wnd_counter - 1 \in Nat \ {0}
    BY <1>2, <1>8 DEF RateTable
  <2>2. new \in RateTable /\ new.rate = fresh.rate /\ new.num_acked = fresh.num_acked
    BY <1>1, <1>2, <1>8, <2>1 DEF RateTable
  <2> QED BY <1>2, <2>2 DEF SameCounts
<1> QED BY <1>7, <1>8

LEMMA BaselineApplyTyped ==
  ASSUME NEW version, NEW table \in RateTable, NEW history \in Seq(Record), MatchesFrom(table, history, 0),
         NEW new \in BaselineApply(version, table)
  PROVE  new \in RateTable /\ MatchesFrom(new, history, 0)
<1>1. \A i \in RateInd : table.rate[i].sent \in Nat /\ table.rate[i].acked \in Nat
  <2>1. 0 \in Nat
    OBVIOUS
  <2> QED BY <2>1, CountTyped DEF MatchesFrom
<1>2. new \in RateTable /\ SameCounts(new, table)
  BY <1>1, SampleApplyTyped, RobustApplyTyped DEF BaselineApply
<1> QED BY <1>2 DEF SameCounts, MatchesFrom

-----------------------------------------------------------------------------
(* The invariant of the client's adaptation and the threads that share it. *)

Maps == {"front", "back", "scout", "combine"}
Pkt == [timer : SendTimes, rate : RateSet]
HighLossCalls == Len(HighLossMaps) * Len(Rates)

ThreadState == [pc : {"idle", "high", "clear", "insert", "record", "lookup", "update"}, batch : Seq(Record),
                ind : Nat, loss_arr : [RateSet -> LossRate]]
SenderState == [pc : {"ready", "scout", "feasible", "combine", "front", "back", "rate", "rate asked", "fec",
                      "rates", "rates asked", "batch", "stopped"},
                mode : {"Data", "TimeOut", "Retrans"}, k : 0 .. kMaxK, n : 0 .. kGFSize, ind : RateInd,
                scout : LossRate, front : LossRate, rate_arr : Seq(RateSet), dup : BOOLEAN]
BaselineState == [table : RateTable, history : Seq(Record), inside : SUBSET (Threads \cup {"sender"}),
                  raced : BOOLEAN]

PacketsInv ==
  /\ cfg \in Configs /\ sent \in 0 .. cfg.pkts /\ timeouts \in 0 .. cfg.timeouts
  /\ records \in Seq(Record)
  /\ flight \in Seq(Pkt) /\ Len(flight) <= sent

MapsInv == loss_map \in [Maps -> [RateSet -> LossRate]]

\* What a thread goes on with is there.
Resumable(st) ==
  /\ st.pc = "high" => st.ind \in 1 .. HighLossCalls
  /\ st.pc \in {"insert", "record"} => st.ind \in 1 .. Len(st.batch)
  /\ st.pc = "lookup" => st.batch # <<>>
  /\ st.pc = "update" => st.ind \in RateInd
ThreadInv == thr \in [Threads -> ThreadState] /\ \A t \in Threads : Resumable(thr[t])

\* A code is chosen before the rates, and there are never more of those.
Codable(st) ==
  /\ st.mode = "TimeOut" => st.k \in 1 .. kMaxK
  /\ st.mode = "Retrans" => st.k = 1
  /\ st.pc \in {"rates", "rates asked"} =>
       st.k \in 1 .. kMaxK /\ st.n \in st.k .. kGFSize /\ Len(st.rate_arr) \in 1 .. st.n
  /\ st.pc = "rates asked" => Len(st.rate_arr) < st.n

SenderInv == rate \in RateSet /\ feasible \subseteq RateSet /\ snd \in SenderState /\ Codable(snd)

DecisionInv ==
  snd.pc = "batch" =>
    /\ decision.k \in 1 .. kMaxK /\ decision.n \in decision.k .. gf_size
    /\ decision.rate_arr \in Seq(RateSet) /\ Len(decision.rate_arr) = decision.n
    /\ decision.mode = "Retrans" => decision.k = 1

BaselineInv == base \in BaselineState /\ MatchesFrom(base.table, base.history, 0)

\* A bounded version chose the rate under the losses it still sees.
BoundInv ==
  cfg.version \in BoundLoss =>
    /\ snd.pc # "rate asked"
    /\ snd.pc \in {"fec", "rates", "rates asked", "batch"} /\ loss_map.combine[rate] > loss_bound => rate = Rates[1]

LostInv == lost \in {"no", "setting", "yes", "deciding"}

\* Only the FEC of a retransmission stops the program.
StopInv == ~Running => snd.mode = "Retrans" /\ cfg.use_fec /\ NearOne(loss_map.combine[rate])

Inv == /\ PacketsInv /\ MapsInv /\ ThreadInv /\ SenderInv /\ DecisionInv /\ BaselineInv
       /\ BoundInv /\ LostInv

-----------------------------------------------------------------------------
(* What a step leaves alone.                                               *)

LEMMA PacketsUnchanged ==
  ASSUME PacketsInv, UNCHANGED <<cfg, sent, timeouts, records, flight>>
  PROVE  PacketsInv'
BY DEF PacketsInv

LEMMA MapsUnchanged ==
  ASSUME MapsInv, UNCHANGED loss_map
  PROVE  MapsInv'
BY DEF MapsInv

LEMMA ThreadUnchanged ==
  ASSUME ThreadInv, UNCHANGED thr
  PROVE  ThreadInv'
BY DEF ThreadInv

LEMMA SenderUnchanged ==
  ASSUME SenderInv, UNCHANGED <<rate, feasible, snd>>
  PROVE  SenderInv'
BY DEF SenderInv

LEMMA DecisionUnchanged ==
  ASSUME DecisionInv, UNCHANGED <<snd, decision>>
  PROVE  DecisionInv'
BY DEF DecisionInv

LEMMA BaselineUnchanged ==
  ASSUME BaselineInv, UNCHANGED base
  PROVE  BaselineInv'
BY DEF BaselineInv

LEMMA BoundUnchanged ==
  ASSUME BoundInv, UNCHANGED <<cfg, snd, rate>>, loss_map'.combine = loss_map.combine
  PROVE  BoundInv'
BY DEF BoundInv

LEMMA LostUnchanged ==
  ASSUME LostInv, UNCHANGED lost
  PROVE  LostInv'
BY DEF LostInv

LEMMA RestingTyped ==
  /\ Resting \in SenderState
  /\ Idle \in ThreadState /\ Unknown \in [RateSet -> LossRate]
<1>1. INVALID_LOSS_RATE \in LossRate /\ 0 \in 0 .. kMaxK /\ 0 \in 0 .. kGFSize /\ 1 \in RateInd
  BY ConstantsTyped DEF LossRate
<1>2. <<>> \in Seq(RateSet) /\ <<>> \in Seq(Record)
  OBVIOUS
<1>3. Unknown \in [RateSet -> LossRate]
  BY <1>1 DEF Unknown
<1>4. FALSE \in BOOLEAN
  OBVIOUS
<1>5. Resting \in SenderState
  BY <1>1, <1>2, <1>4 DEF Resting, SenderState
<1>6. Idle \in ThreadState
  BY <1>2, <1>3 DEF Idle, ThreadState
<1> QED BY <1>3, <1>5, <1>6

LEMMA InitInv == Init => Inv
<1> SUFFICES ASSUME Init PROVE Inv
  OBVIOUS
<1> USE DEF Init
<1>1. PacketsInv
  <2>1. cfg \in Configs /\ cfg.pkts \in Nat /\ cfg.timeouts \in Nat
    BY ControlAssumption
  <2>2. records \in Seq(Record) /\ flight \in Seq(Pkt) /\ Len(flight) = 0
    OBVIOUS
  <2> QED BY <2>1, <2>2 DEF PacketsInv
<1>2. MapsInv
  BY RestingTyped DEF MapsInv, Maps
<1>3. ThreadInv
  <2>1. thr \in [Threads -> ThreadState] /\ \A t \in Threads : thr[t].pc = "idle"
    BY RestingTyped DEF Idle
  <2> QED BY <2>1 DEF ThreadInv, Resumable
<1>4. SenderInv
  <2>1. rate \in RateSet /\ feasible \subseteq RateSet
    BY ConstantsTyped
  <2>2. Codable(snd)
    BY DEF Codable, Resting
  <2> QED BY <2>1, <2>2, RestingTyped DEF SenderInv
<1>5. DecisionInv
  BY DEF DecisionInv, Resting
<1>6. BaselineInv
  <2>1. PICK update \in BOOLEAN :
          base = [table |-> InitRateTable(cfg.version, update), history |-> <<>>, inside |-> {}, raced |-> FALSE]
    OBVIOUS
  <2>2. <<>> \in Seq(Record) /\ FALSE \in BOOLEAN
    OBVIOUS
  <2>3. InitRateTable(cfg.version, update) \in RateTable /\ MatchesFrom(InitRateTable(cfg.version, update), <<>>, 0)
    BY InitTableMatches
  <2>4. base \in BaselineState
    BY <2>1, <2>2, <2>3 DEF BaselineState
  <2> QED BY <2>1, <2>3, <2>4 DEF BaselineInv
<1>7. BoundInv
  BY DEF BoundInv, Resting
<1>8. LostInv
  BY DEF LostInv
<1> QED BY <1>1, <1>2, <1>3, <1>4, <1>5, <1>6, <1>7, <1>8 DEF Inv

-----------------------------------------------------------------------------
(* Every step of the other threads.                                        *)

\* The sender does not notice, as long as they leave the combined losses alone.
LEMMA FeedbackLeaves ==
  ASSUME Inv, UNCHANGED <<cfg, sendVars>>, loss_map'.combine = loss_map.combine
  PROVE  SenderInv' /\ DecisionInv' /\ BoundInv'
<1>1. SenderInv'
  BY SenderUnchanged DEF Inv, sendVars
<1>2. DecisionInv'
  BY DecisionUnchanged DEF Inv, sendVars
<1>3. BoundInv'
  BY BoundUnchanged DEF Inv, sendVars
<1> QED BY <1>1, <1>2, <1>3

LEMMA ThreadMoves ==
  ASSUME ThreadInv, NEW t \in Threads, NEW st \in ThreadState, Resumable(st), thr' = [thr EXCEPT ![t] = st]
  PROVE  ThreadInv'
<1>1. thr' \in [Threads -> ThreadState] /\ \A u \in Threads : thr'[u] = IF u = t THEN st ELSE thr[u]
  BY DEF ThreadInv
<1>2. \A u \in Threads : Resumable(thr[u])
  BY DEF ThreadInv
<1>3. \A u \in Threads : Resumable(thr'[u])
  BY <1>1, <1>2
<1> QED BY <1>1, <1>3 DEF ThreadInv

LEMMA GoTyped ==
  ASSUME ThreadInv, NEW t \in Threads, NEW pc \in {"idle", "high", "clear", "insert"}, NEW batch \in Seq(Record),
         pc = "insert" => batch # <<>>, Go(t, pc, batch)
  PROVE  ThreadInv'
<1> DEFINE st == [Idle EXCEPT !.pc = pc, !.batch = batch]
<1>1. st \in ThreadState /\ st.pc = pc /\ st.batch = batch /\ st.ind = 1
  BY RestingTyped DEF Idle, ThreadState
<1>2. 1 \in 1 .. HighLossCalls
  <2>1. HighLossCalls = 3 * Len(Rates)
    BY DEF HighLossCalls, HighLossMaps
  <2> QED BY <2>1, ConstantsTyped
<1>3. pc = "insert" => 1 \in 1 .. Len(batch)
  BY EmptySeq, LenProperties
<1>4. Resumable(st)
  <2> HIDE DEF st
  <2> QED BY <1>1, <1>2, <1>3 DEF Resumable
<1>5. thr' = [thr EXCEPT ![t] = st]
  BY DEF Go
<1> HIDE DEF st
<1> QED BY <1>1, <1>4, <1>5, ThreadMoves

LEMMA StepTyped ==
  ASSUME ThreadInv, NEW t \in Threads, NEW ind \in Nat,
         NEW pc \in {"idle", "high", "clear", "insert", "record", "lookup", "update"},
         Resumable([thr[t] EXCEPT !.pc = pc, !.ind = ind]), Step(t, pc, ind)
  PROVE  ThreadInv'
<1> DEFINE st == [thr[t] EXCEPT !.pc = pc, !.ind = ind]
<1>1. thr \in [Threads -> ThreadState]
  BY DEF ThreadInv
<1>2. st \in ThreadState
  BY <1>1 DEF ThreadState
<1>3. thr' = [thr EXCEPT ![t] = st]
  BY <1>1 DEF Step
<1>4. Resumable(st)
  OBVIOUS
<1> HIDE DEF st
<1> QED BY <1>2, <1>3, <1>4, ThreadMoves

LEMMA AckedTyped ==
  ASSUME NEW pkt \in Pkt, NEW acked \in BOOLEAN
  PROVE  Acked(pkt, acked) \in Record
BY Zenon DEF Acked, Pkt, Record

\* Packets whose fate becomes known.
LEMMA FatesTyped ==
  ASSUME flight \in Seq(Pkt), NEW num \in 0 .. Len(flight), NEW good
  PROVE  LET batch == [i \in 1 .. num |-> Acked(flight[i], i \in good)]
         IN  batch \in Seq(Record) /\ Len(batch) = num
<1> DEFINE batch == [i \in 1 .. num |-> Acked(flight[i], i \in good)]
<1>1. \A i \in 1 .. num : Acked(flight[i], i \in good) \in Record
  <2> SUFFICES ASSUME NEW i \in 1 .. num PROVE Acked(flight[i], i \in good) \in Record
    OBVIOUS
  <2>1. flight[i] \in Pkt
    BY ElementOfSeq, LenProperties
  <2>2. (i \in good) \in BOOLEAN
    <3>1. CASE i \in good
      <4>1. (i \in good) = TRUE
        BY <3>1
      <4> QED BY <4>1
    <3>2. CASE i \notin good
      <4>1. (i \in good) = FALSE
        BY <3>2
      <4> QED BY <4>1
    <3> QED BY <3>1, <3>2
  <2> QED BY <2>1, <2>2, AckedTyped, Zenon
<1>2. num \in Nat
  BY LenProperties
<1>3. batch \in [1 .. num -> Record]
  BY <1>1
<1>4. batch \in Seq(Record)
  BY <1>2, <1>3, SeqDef
<1>5. DOMAIN batch = 1 .. num
  OBVIOUS
<1>6. Len(batch) = num
  <2> HIDE DEF batch
  <2> QED BY <1>2, <1>4, <1>5, LenProperties
<1> QED BY <1>4, <1>6

LEMMA TakeKnownInv ==
  ASSUME Inv, NEW num \in 1 .. Len(flight), TakeKnown(num)
  PROVE  Inv'
<1>1. PacketsInv /\ ThreadInv /\ flight \in Seq(Pkt) /\ Len(flight) \in Nat /\ num \in Nat /\ num \in 0 .. Len(flight)
  BY LenProperties DEF Inv, PacketsInv
<1>2. PacketsInv'
  <2>1. flight' \in Seq(Pkt) /\ Len(flight') = Len(flight) - num
    BY <1>1, SubSeqProperties DEF TakeKnown
  <2>2. UNCHANGED <<cfg, sent, timeouts, records>>
    BY DEF TakeKnown, mapVars, sendVars
  <2>3. sent \in 0 .. cfg.pkts /\ Len(flight) <= sent /\ cfg.pkts \in Nat
    BY <1>1, ControlAssumption DEF PacketsInv
  <2>4. Len(flight') <= sent
    BY <1>1, <2>1, <2>3
  <2> QED BY <1>1, <2>1, <2>2, <2>4 DEF PacketsInv
<1>3. ThreadInv'
  <2>1. PICK good \in SUBSET (1 .. num) :
          Go("raw_ack", "insert", [i \in 1 .. num |-> Acked(flight[i], i \in good)])
    BY DEF TakeKnown
  <2> DEFINE batch == [i \in 1 .. num |-> Acked(flight[i], i \in good)]
  <2>2. batch \in Seq(Record) /\ Len(batch) = num
    BY <1>1, FatesTyped
  <2>3. batch # <<>>
    <3> HIDE DEF batch
    <3> QED BY <1>1, <2>2, EmptySeq
  <2>4. "raw_ack" \in Threads
    BY DEF Threads
  <2> HIDE DEF batch
  <2>5. Go("raw_ack", "insert", batch)
    BY <2>1 DEF batch
  <2> QED BY <1>1, <2>2, <2>3, <2>4, <2>5, GoTyped
<1>4. SenderInv' /\ DecisionInv' /\ BoundInv'
  BY FeedbackLeaves DEF TakeKnown, mapVars
<1>5. MapsInv' /\ BaselineInv'
  BY MapsUnchanged, BaselineUnchanged DEF Inv, TakeKnown, mapVars
<1>6. LostInv'
  BY DEF LostInv, TakeKnown
<1> QED BY <1>2, <1>3, <1>4, <1>5, <1>6 DEF Inv

LEMMA TimeOutLimitInv ==
  ASSUME Inv, TimeOutLimit
  PROVE  Inv'
<1>1. PacketsInv'
  <2>1. PacketsInv /\ UNCHANGED <<cfg, sent, records, flight>>
    BY DEF Inv, TimeOutLimit, sendVars
  <2>2. timeouts' \in 0 .. cfg.timeouts
    <3>1. cfg.timeouts \in Nat /\ timeouts \in 0 .. cfg.timeouts
      BY <2>1, ControlAssumption DEF PacketsInv
    <3> QED BY <3>1 DEF TimeOutLimit
  <2> QED BY <2>1, <2>2 DEF PacketsInv
<1>2. ThreadInv'
  <2>1. ThreadInv /\ Go("time_out", "high", <<>>) /\ "time_out" \in Threads /\ <<>> \in Seq(Record)
    BY DEF Inv, TimeOutLimit, Threads
  <2> QED BY <2>1, GoTyped
<1>3. SenderInv' /\ DecisionInv' /\ BoundInv'
  BY FeedbackLeaves DEF TimeOutLimit
<1>4. MapsInv' /\ BaselineInv'
  BY MapsUnchanged, BaselineUnchanged DEF Inv, TimeOutLimit
<1>5. LostInv'
  BY DEF Inv, LostInv, TimeOutLimit
<1> QED BY <1>1, <1>2, <1>3, <1>4, <1>5 DEF Inv

\* The calls of SetLossRates go over three maps.
LEMMA HighLossTyped ==
  ASSUME NEW i \in 1 .. HighLossCalls
  PROVE  HighLossMap(i) \in {"front", "back", "scout"} /\ HighLossRate(i) \in RateSet
<1> DEFINE n == Len(Rates)
<1>1. n \in Nat \ {0} /\ HighLossCalls = 3 * n /\ i \in Int /\ 0 <= i - 1 /\ i - 1 < 3 * n
  BY ConstantsTyped DEF HighLossCalls, HighLossMaps
<1> HIDE DEF n
<1> DEFINE q == (i - 1) \div n
           m == (i - 1) % n
<1>2. q \in Int /\ m \in 0 .. n - 1 /\ i - 1 = n * q + m
  <2>1. i - 1 \in Int
    BY <1>1
  <2> QED BY <1>1, <2>1, Quotient
<1> HIDE DEF q, m
<1>3. q \in 0 .. 2
  <2>1. q >= 0
    <3> SUFFICES ASSUME q + 1 <= 0 PROVE FALSE
      BY <1>2
    <3>1. (q + 1) * n <= 0 * n /\ (q + 1) * n = n * q + n /\ 0 * n = 0 /\ n * q \in Int
      BY <1>1, <1>2, ProductOrder
    <3> QED BY <1>1, <1>2, <3>1
  <2>2. q <= 2
    <3> SUFFICES ASSUME 3 <= q PROVE FALSE
      BY <1>2
    <3>1. 3 * n <= q * n /\ q * n = n * q /\ n * q \in Int
      BY <1>1, <1>2, ProductOrder
    <3> QED BY <1>1, <1>2, <3>1
  <2> QED BY <1>2, <2>1, <2>2
<1>4. HighLossMaps[1 + q] \in {"front", "back", "scout"}
  <2>1. 1 + q \in {1, 2, 3}
    BY <1>3
  <2> QED BY <2>1 DEF HighLossMaps
<1>5. Rates[1 + m] \in RateSet
  <2>1. 1 + m \in 1 .. n
    BY <1>1, <1>2
  <2> QED BY <2>1, ConstantsTyped DEF n
<1> QED BY <1>4, <1>5 DEF HighLossMap, HighLossRate, q, m, n

\* One loss of one map replaced.
LEMMA LossReplaced ==
  ASSUME MapsInv, NEW map \in Maps, NEW r \in RateSet, NEW loss \in LossRate,
         loss_map' = [loss_map EXCEPT ![map][r] = loss]
  PROVE  MapsInv' /\ \A other \in Maps : other # map => loss_map'[other] = loss_map[other]
BY DEF MapsInv

LEMMA SetHighLossInv ==
  ASSUME Inv, SetHighLoss
  PROVE  Inv'
<1> DEFINE i == thr["time_out"].ind
           last == i = Len(HighLossMaps) * Len(Rates)
           map == HighLossMap(i)
           r == HighLossRate(i)
<1>1. i \in 1 .. HighLossCalls /\ HighLossCalls \in Nat /\ "time_out" \in Threads
  BY ConstantsTyped DEF Inv, ThreadInv, Resumable, Threads, SetHighLoss, HighLossCalls, HighLossMaps
<1>2. map \in {"front", "back", "scout"} /\ r \in RateSet
  BY <1>1, HighLossTyped
<1>3. loss_map' = [loss_map EXCEPT ![map][r] = UpdateLoss(@, Unit, NoHistory)]
  BY DEF SetHighLoss
<1>4. Step("time_out", IF last THEN "clear" ELSE "high", i + 1)
  BY DEF SetHighLoss
<1>5. UNCHANGED <<cfg, records, timeouts, sendVars, flight, base>>
  BY DEF SetHighLoss
<1>6. MapsInv /\ ThreadInv
  BY DEF Inv
<1>7. last <=> i = HighLossCalls
  BY DEF HighLossCalls
<1>8. LostInv'
  BY DEF Inv, LostInv, SetHighLoss
<1> HIDE DEF i, map, r, last
<1>9. MapsInv' /\ loss_map'.combine = loss_map.combine
  <2>1. map \in Maps /\ "combine" \in Maps /\ map # "combine"
    BY <1>2 DEF Maps
  <2>2. loss_map[map][r] \in LossRate /\ Unit \in LossRate
    BY <1>2, <1>6, <2>1 DEF MapsInv, LossRate, Unit
  <2>3. UpdateLoss(loss_map[map][r], Unit, NoHistory) \in LossRate
    BY <2>2, UpdateLossTyped
  <2>4. loss_map' = [loss_map EXCEPT ![map][r] = UpdateLoss(loss_map[map][r], Unit, NoHistory)]
    BY <1>2, <1>3, <1>6, <2>1 DEF MapsInv
  <2> QED BY <1>2, <1>6, <2>1, <2>3, <2>4, LossReplaced
<1>10. ThreadInv'
  <2> DEFINE pc == IF last THEN "clear" ELSE "high"
  <2>1. pc \in {"clear", "high"} /\ (pc = "high" => ~last)
    OBVIOUS
  <2>2. Step("time_out", pc, i + 1)
    BY <1>4
  <2> HIDE DEF pc
  <2>3. thr["time_out"] \in ThreadState
    BY <1>1, <1>6 DEF ThreadInv
  <2>4. [thr["time_out"] EXCEPT !.pc = pc, !.ind = i + 1].pc = pc
        /\ [thr["time_out"] EXCEPT !.pc = pc, !.ind = i + 1].ind = i + 1
    BY <2>3 DEF ThreadState
  <2>5. Resumable([thr["time_out"] EXCEPT !.pc = pc, !.ind = i + 1])
    BY <1>1, <1>7, <2>1, <2>4 DEF Resumable
  <2>6. i + 1 \in Nat
    BY <1>1
  <2> QED BY <1>1, <1>6, <2>1, <2>2, <2>5, <2>6, StepTyped
<1>11. SenderInv' /\ DecisionInv' /\ BoundInv'
  BY <1>5, <1>9, FeedbackLeaves
<1>12. PacketsInv' /\ BaselineInv'
  BY <1>5, PacketsUnchanged, BaselineUnchanged DEF Inv, sendVars
<1> QED BY <1>8, <1>9, <1>10, <1>11, <1>12 DEF Inv

LEMMA TakeRestInv ==
  ASSUME Inv, TakeRest
  PROVE  Inv'
<1>1. PacketsInv /\ ThreadInv /\ flight \in Seq(Pkt) /\ Len(flight) \in Nat /\ Len(flight) \in 0 .. Len(flight)
  BY LenProperties DEF Inv, PacketsInv
<1>2. UNCHANGED <<cfg, mapVars, sendVars, base, lost>> /\ flight' = <<>>
  BY DEF TakeRest
<1>3. PacketsInv'
  <2>1. flight' \in Seq(Pkt) /\ Len(flight') = 0
    BY <1>2
  <2>2. sent \in 0 .. cfg.pkts
    BY <1>1 DEF PacketsInv
  <2> QED BY <1>1, <1>2, <2>1, <2>2 DEF PacketsInv, mapVars, sendVars
<1>4. ThreadInv'
  <2>1. "time_out" \in Threads /\ <<>> \in Seq(Record)
    BY DEF Threads
  <2>2. CASE flight = <<>>
    BY <1>1, <2>1, <2>2, GoTyped DEF TakeRest
  <2>3. CASE flight # <<>>
    <3> DEFINE batch == [i \in 1 .. Len(flight) |-> Acked(flight[i], i \in {})]
    <3>1. batch \in Seq(Record) /\ Len(batch) = Len(flight)
      BY <1>1, FatesTyped
    <3>2. batch # <<>>
      <4> HIDE DEF batch
      <4> QED BY <1>1, <2>3, <3>1, EmptySeq
    <3>3. [i \in DOMAIN flight |-> Acked(flight[i], FALSE)] = batch
      <4>1. DOMAIN flight = 1 .. Len(flight)
        BY <1>1, LenProperties
      <4>2. \A i : (i \in {}) = FALSE
        OBVIOUS
      <4> QED BY <4>1, <4>2, Zenon
    <3>4. Go("time_out", "insert", batch)
      BY <2>3, <3>3 DEF TakeRest
    <3> HIDE DEF batch
    <3> QED BY <1>1, <2>1, <3>1, <3>2, <3>4, GoTyped
  <2> QED BY <2>2, <2>3
<1>5. SenderInv' /\ DecisionInv' /\ BoundInv'
  BY <1>2, FeedbackLeaves DEF mapVars
<1>6. MapsInv' /\ BaselineInv' /\ LostInv'
  BY <1>2, MapsUnchanged, BaselineUnchanged, LostUnchanged DEF Inv, mapVars
<1> QED BY <1>3, <1>4, <1>5, <1>6 DEF Inv

LEMMA InsertedTyped ==
  ASSUME ThreadInv, NEW t \in Threads, thr[t].pc \in {"insert", "record"}, Inserted(t)
  PROVE  ThreadInv'
<1> DEFINE n == Len(thr[t].batch)
           i == thr[t].ind
           pc == IF i < n THEN "insert" ELSE "lookup"
           st == [thr[t] EXCEPT !.pc = pc, !.ind = i + 1]
<1>1. thr[t] \in ThreadState /\ i \in 1 .. n
  BY DEF ThreadInv, Resumable
<1>2. thr[t].batch \in Seq(Record) /\ n \in Nat
  BY <1>1, LenProperties DEF ThreadState
<1>3. st.pc = pc /\ st.ind = i + 1 /\ st.batch = thr[t].batch
  BY <1>1 DEF ThreadState
<1>4. pc \in {"insert", "lookup"} /\ (pc = "insert" => i + 1 \in 1 .. n) /\ i + 1 \in Nat
  BY <1>1, <1>2
<1>5. thr[t].batch # <<>>
  BY <1>1, <1>2
<1>6. Step(t, pc, i + 1)
  BY DEF Inserted
<1>7. Resumable(st)
  <2> HIDE DEF st, pc
  <2> QED BY <1>3, <1>4, <1>5 DEF Resumable
<1> HIDE DEF pc, i, n
<1> QED BY <1>4, <1>6, <1>7, StepTyped

LEMMA EnterTyped ==
  ASSUME BaselineInv, NEW who \in Threads \cup {"sender"}, Enter(who)
  PROVE  BaselineInv'
<1>1. base \in BaselineState /\ MatchesFrom(base.table, base.history, 0)
  BY DEF BaselineInv
<1>2. CASE base.inside = {}
  <2>1. base' = [base EXCEPT !.inside = {who}]
    BY <1>2 DEF Enter
  <2>2. base' \in BaselineState /\ base'.table = base.table /\ base'.history = base.history
    BY <1>1, <2>1 DEF BaselineState
  <2> QED BY <1>1, <2>2 DEF BaselineInv
<1>3. CASE base.inside # {}
  <2> DEFINE table == InitRateTable(cfg.version, TRUE)
  <2>1. base' = [base EXCEPT !.inside = @ \cup {who}, !.raced = TRUE, !.table = table, !.history = <<>>]
    BY <1>3 DEF Enter
  <2>2. TRUE \in BOOLEAN /\ <<>> \in Seq(Record)
    OBVIOUS
  <2>3. table \in RateTable /\ MatchesFrom(table, <<>>, 0)
    BY <2>2, InitTableMatches
  <2> HIDE DEF table
  <2>4. base' \in BaselineState /\ base'.table = table /\ base'.history = <<>>
    BY <1>1, <2>1, <2>2, <2>3 DEF BaselineState
  <2> QED BY <2>3, <2>4 DEF BaselineInv
<1> QED BY <1>2, <1>3

LEMMA LeftTyped ==
  ASSUME NEW b \in BaselineState, MatchesFrom(b.table, b.history, 0), NEW who, base' = Left(who, b)
  PROVE  BaselineInv'
<1>1. base' \in BaselineState /\ base'.table = b.table /\ base'.history = b.history
  BY DEF BaselineState, Left
<1> QED BY <1>1 DEF BaselineInv

LEMMA InsertFeedbackInv ==
  ASSUME Inv, NEW t \in Threads, InsertFeedback(t)
  PROVE  Inv'
<1> DEFINE i == thr[t].ind
           batch == thr[t].batch
<1>1. ThreadInv /\ thr[t] \in ThreadState /\ thr[t].pc = "insert" /\ i \in 1 .. Len(batch)
  BY DEF Inv, ThreadInv, Resumable, InsertFeedback
<1>2. batch \in Seq(Record) /\ Len(batch) \in Nat /\ batch[i] \in Record /\ i \in Nat
  <2>1. batch \in Seq(Record) /\ Len(batch) \in Nat
    BY <1>1, LenProperties DEF ThreadState
  <2> HIDE DEF batch, i
  <2> QED BY <1>1, <2>1, ElementOfSeq
<1>3. UNCHANGED <<cfg, loss_map, timeouts, sendVars, flight, lost>>
  BY DEF InsertFeedback
<1>4. PacketsInv'
  <2>1. records \in Seq(Record)
    BY DEF Inv, PacketsInv
  <2>2. records' \in Seq(Record)
    BY <1>2, <2>1, InsertPacketTyped DEF InsertFeedback
  <2> QED BY <1>3, <2>2 DEF Inv, PacketsInv, sendVars
<1>5. ThreadInv'
  <2>1. CASE cfg.version \in Baselines
    <3>1. Step(t, "record", i)
      BY <2>1 DEF InsertFeedback
    <3>2. LET st == [thr[t] EXCEPT !.pc = "record", !.ind = i]
          IN  st.pc = "record" /\ st.ind = i /\ st.batch = batch
      BY <1>1 DEF ThreadState
    <3>3. Resumable([thr[t] EXCEPT !.pc = "record", !.ind = i])
      BY <1>1, <3>2 DEF Resumable
    <3> HIDE DEF i
    <3> QED BY <1>1, <1>2, <3>1, <3>3, StepTyped
  <2>2. CASE cfg.version \notin Baselines
    BY <1>1, <2>2, InsertedTyped DEF InsertFeedback
  <2> QED BY <2>1, <2>2
<1>6. BaselineInv'
  <2>1. CASE cfg.version \in Baselines
    BY <2>1, EnterTyped DEF Inv, InsertFeedback
  <2>2. CASE cfg.version \notin Baselines
    BY <2>2, BaselineUnchanged DEF Inv, InsertFeedback
  <2> QED BY <2>1, <2>2
<1>7. SenderInv' /\ DecisionInv' /\ BoundInv'
  BY <1>3, FeedbackLeaves
<1>8. MapsInv' /\ LostInv'
  BY <1>3, MapsUnchanged, LostUnchanged DEF Inv
<1> QED BY <1>4, <1>5, <1>6, <1>7, <1>8 DEF Inv

LEMMA BaselineRecordedInv ==
  ASSUME Inv, NEW t \in Threads, BaselineRecorded(t)
  PROVE  Inv'
<1> DEFINE pkt == thr[t].batch[thr[t].ind]
<1>1. ThreadInv /\ thr[t] \in ThreadState /\ thr[t].pc = "record" /\ thr[t].ind \in 1 .. Len(thr[t].batch)
  BY DEF Inv, ThreadInv, Resumable, BaselineRecorded
<1>2. pkt \in Record
  <2>1. thr[t].batch \in Seq(Record)
    BY <1>1 DEF ThreadState
  <2> QED BY <1>1, <2>1, ElementOfSeq
<1>3. UNCHANGED <<cfg, mapVars, sendVars, flight, lost>> /\ Inserted(t)
  BY DEF BaselineRecorded
<1>4. ThreadInv'
  BY <1>1, <1>3, InsertedTyped
<1>5. BaselineInv'
  <2>1. PICK old \in 0 .. Len(base.history) :
          base' = Left(t, IF base.raced THEN base ELSE InsertRecord(cfg.version, base, pkt, old))
    BY DEF BaselineRecorded
  <2>2. base \in BaselineState /\ MatchesFrom(base.table, base.history, 0)
    BY DEF Inv, BaselineInv
  <2> HIDE DEF pkt
  <2>3. CASE base.raced
    BY <2>1, <2>2, <2>3, LeftTyped
  <2>4. CASE ~base.raced
    <3>1. base.table \in RateTable /\ base.history \in Seq(Record)
      BY <2>2 DEF BaselineState
    <3>2. PICK table \in RateTable, history \in Seq(Record) :
            /\ InsertRecord(cfg.version, base, pkt, old) = [base EXCEPT !.table = table, !.history = history]
            /\ MatchesFrom(table, history, 0)
      <4>1. Recounted(base, InsertRecord(cfg.version, base, pkt, old))
        BY <1>2, <2>2, <3>1, InsertRecordMatches
      <4> QED BY <4>1 DEF Recounted
    <3> DEFINE b == [base EXCEPT !.table = table, !.history = history]
    <3>3. b \in BaselineState /\ b.table = table /\ b.history = history
      BY <2>2 DEF BaselineState
    <3>4. base' = Left(t, b)
      BY <2>1, <2>4, <3>2
    <3> HIDE DEF b
    <3> QED BY <3>2, <3>3, <3>4, LeftTyped
  <2> QED BY <2>3, <2>4
<1>6. SenderInv' /\ DecisionInv' /\ BoundInv'
  BY <1>3, FeedbackLeaves DEF mapVars
<1>7. PacketsInv' /\ MapsInv' /\ LostInv'
  BY <1>3, PacketsUnchanged, MapsUnchanged, LostUnchanged DEF Inv, mapVars, sendVars
<1> QED BY <1>4, <1>5, <1>6, <1>7 DEF Inv

LEMMA LookUpInv ==
  ASSUME Inv, NEW t \in Threads, LookUp(t)
  PROVE  Inv'
<1> DEFINE batch == thr[t].batch
           start == Minus(batch[1].timer, Nanoseconds(1))
           end == Plus(batch[Len(batch)].timer, Nanoseconds(1))
           loss_arr == CalcLossRates(records, start, end, RateSet)
           st == [thr[t] EXCEPT !.pc = "update", !.ind = 1, !.loss_arr = loss_arr]
<1>1. ThreadInv /\ thr \in [Threads -> ThreadState] /\ thr[t] \in ThreadState
  BY DEF Inv, ThreadInv
<1>2. UNCHANGED <<cfg, mapVars, sendVars, flight, base, lost>>
  BY DEF LookUp
<1>3. loss_arr \in [RateSet -> LossRate]
  BY LookupTyped DEF Inv, PacketsInv
<1>4. thr' = [thr EXCEPT ![t].pc = "update", ![t].ind = 1, ![t].loss_arr = loss_arr]
  BY DEF LookUp
<1> HIDE DEF loss_arr, batch, start, end
<1>5. st \in ThreadState /\ st.pc = "update" /\ st.ind = 1
  BY <1>1, <1>3 DEF ThreadState
<1>6. thr' = [thr EXCEPT ![t] = st]
  BY <1>1, <1>4
<1> HIDE DEF st
<1>7. Resumable(st)
  BY <1>5, ConstantsTyped DEF Resumable
<1>8. ThreadInv'
  BY <1>1, <1>5, <1>6, <1>7, ThreadMoves
<1>9. SenderInv' /\ DecisionInv' /\ BoundInv'
  BY <1>2, FeedbackLeaves DEF mapVars
<1>10. PacketsInv' /\ MapsInv' /\ BaselineInv' /\ LostInv'
  BY <1>2, PacketsUnchanged, MapsUnchanged, BaselineUnchanged, LostUnchanged DEF Inv, mapVars, sendVars
<1> QED BY <1>8, <1>9, <1>10 DEF Inv

LEMMA UpdateBackInv ==
  ASSUME Inv, NEW t \in Threads, UpdateBack(t)
  PROVE  Inv'
<1> DEFINE i == thr[t].ind
           r == Rates[i]
           loss == thr[t].loss_arr[r]
<1>1. ThreadInv /\ thr[t] \in ThreadState /\ i \in RateInd /\ MapsInv
  BY DEF Inv, ThreadInv, Resumable, UpdateBack
<1>2. r \in RateSet
  BY <1>1, ConstantsTyped
<1>3. loss \in LossRate
  BY <1>1, <1>2 DEF ThreadState
<1>4. UNCHANGED <<cfg, records, timeouts, sendVars, flight, base, lost>>
  BY DEF UpdateBack
<1>5. loss_map' = [loss_map EXCEPT !.back[r] = UpdateLoss(@, loss, kPrevWeight)]
  BY DEF UpdateBack
<1>6. IF i < Len(Rates) THEN Step(t, "update", i + 1) ELSE Go(t, "idle", <<>>)
  BY DEF UpdateBack
<1> HIDE DEF r, loss
<1>7. MapsInv' /\ loss_map'.combine = loss_map.combine
  <2>1. "back" \in Maps /\ "combine" \in Maps
    BY DEF Maps
  <2>2. loss_map["back"][r] \in LossRate
    BY <1>1, <1>2, <2>1 DEF MapsInv
  <2>3. UpdateLoss(loss_map["back"][r], loss, kPrevWeight) \in LossRate
    BY <1>3, <2>2, UpdateLossTyped
  <2>4. loss_map' = [loss_map EXCEPT !["back"][r] = UpdateLoss(loss_map["back"][r], loss, kPrevWeight)]
    BY <1>1, <1>2, <1>5, <2>1 DEF MapsInv
  <2> QED BY <1>1, <1>2, <2>1, <2>3, <2>4, LossReplaced
<1>8. ThreadInv'
  <2>1. CASE i < Len(Rates)
    <3> DEFINE st == [thr[t] EXCEPT !.pc = "update", !.ind = i + 1]
    <3>1. st.pc = "update" /\ st.ind = i + 1
      BY <1>1 DEF ThreadState
    <3>2. i + 1 \in RateInd /\ i + 1 \in Nat
      <4>1. i \in 1 .. Len(Rates) /\ Len(Rates) \in Nat
        BY <1>1, ConstantsTyped
      <4> HIDE DEF i
      <4> QED BY <2>1, <4>1, ConstantsTyped
    <3>3. Resumable(st)
      <4> HIDE DEF st
      <4> QED BY <3>1, <3>2 DEF Resumable
    <3>4. Step(t, "update", i + 1)
      BY <1>6, <2>1
    <3> HIDE DEF i
    <3> QED BY <1>1, <3>2, <3>3, <3>4, StepTyped
  <2>2. CASE ~(i < Len(Rates))
    <3>1. Go(t, "idle", <<>>) /\ <<>> \in Seq(Record)
      BY <1>6, <2>2
    <3> QED BY <1>1, <3>1, GoTyped
  <2> QED BY <2>1, <2>2
<1>9. SenderInv' /\ DecisionInv' /\ BoundInv'
  BY <1>4, <1>7, FeedbackLeaves
<1>10. PacketsInv' /\ BaselineInv' /\ LostInv'
  BY <1>4, PacketsUnchanged, BaselineUnchanged, LostUnchanged DEF Inv, sendVars
<1> QED BY <1>7, <1>8, <1>9, <1>10 DEF Inv

LEMMA FeedbackInv ==
  ASSUME Inv, Feedback
  PROVE  Inv'
<1>1. ASSUME NEW num \in 1 .. TheSmaller(cfg.known, Len(flight)), TakeKnown(num)
      PROVE  Inv'
  <2>1. Len(flight) \in Nat /\ cfg.known \in Nat
    BY LenProperties, ControlAssumption DEF Inv, PacketsInv
  <2>2. num \in 1 .. Len(flight)
    BY <2>1 DEF TheSmaller
  <2> QED BY <1>1, <2>2, TakeKnownInv
<1> QED BY <1>1, TimeOutLimitInv, SetHighLossInv, TakeRestInv, InsertFeedbackInv, BaselineRecordedInv,
           LookUpInv, UpdateBackInv DEF Feedback

-----------------------------------------------------------------------------
(* Every step of the sender.                                               *)

LEMMA SenderMoves ==
  ASSUME Inv, NEW st \in SenderState, Codable(st), st.pc # "batch", SendStep(st),
         sent' = sent, rate' \in RateSet, feasible' \subseteq RateSet
  PROVE  PacketsInv' /\ ThreadInv' /\ SenderInv' /\ DecisionInv'
<1>1. UNCHANGED <<cfg, records, flight, timeouts, thr>> /\ snd' = st
  BY DEF SendStep
<1>2. PacketsInv' /\ ThreadInv'
  BY <1>1, PacketsUnchanged, ThreadUnchanged DEF Inv
<1>3. SenderInv'
  BY <1>1 DEF SenderInv
<1>4. DecisionInv'
  BY <1>1 DEF DecisionInv
<1> QED BY <1>2, <1>3, <1>4

LEMMA StartDecisionInv ==
  ASSUME Inv, StartDecision
  PROVE  Inv'
<1>1. UNCHANGED <<loss_map, rate, feasible, decision, sent, base>> /\ SenderInv /\ DecisionInv /\ BoundInv
  BY DEF Inv, StartDecision
<1>2. rate' \in RateSet /\ feasible' \subseteq RateSet
  BY <1>1 DEF SenderInv
<1>3. MapsInv' /\ BaselineInv'
  BY <1>1, MapsUnchanged, BaselineUnchanged DEF Inv
<1>4. LostInv'
  BY DEF Inv, LostInv, StartDecision
<1>5. CASE snd.pc = "ready"
  <2>1. PICK mode \in {"Data", "Retrans"} :
          SendStep([Resting EXCEPT !.pc = IF cfg.version \in ScoutCombine THEN "scout" ELSE "combine",
                                   !.mode = mode, !.k = IF mode = "Retrans" THEN 1 ELSE 0])
    BY <1>5 DEF StartDecision
  <2> DEFINE pc == IF cfg.version \in ScoutCombine THEN "scout" ELSE "combine"
             k == IF mode = "Retrans" THEN 1 ELSE 0
             st == [Resting EXCEPT !.pc = pc, !.mode = mode, !.k = k]
  <2>2. pc \in {"scout", "combine"} /\ k \in 0 .. kMaxK /\ (mode = "Retrans" => k = 1)
    BY ConstantsTyped
  <2> HIDE DEF pc, k
  <2>3. st \in SenderState /\ st.pc = pc /\ st.mode = mode /\ st.k = k
    BY <2>2, RestingTyped DEF SenderState
  <2>4. SendStep(st)
    BY <2>1 DEF pc, k
  <2> HIDE DEF st
  <2>5. Codable(st)
    BY <2>2, <2>3 DEF Codable
  <2>6. PacketsInv' /\ ThreadInv' /\ SenderInv' /\ DecisionInv'
    BY <1>1, <1>2, <2>2, <2>3, <2>4, <2>5, SenderMoves
  <2>7. BoundInv'
    BY <2>2, <2>3, <2>4 DEF BoundInv, SendStep
  <2> QED BY <1>3, <1>4, <2>6, <2>7 DEF Inv
<1>6. CASE snd.pc = "batch"
  <2>1. PICK k \in 1 .. decision.k - 1 : SendStep([Resting EXCEPT !.pc = "fec", !.mode = "TimeOut", !.k = k])
    BY <1>6 DEF StartDecision
  <2> DEFINE st == [Resting EXCEPT !.pc = "fec", !.mode = "TimeOut", !.k = k]
  <2>2. k \in 1 .. kMaxK /\ k \in 0 .. kMaxK
    BY <1>1, <1>6, ConstantsTyped DEF DecisionInv
  <2>3. st \in SenderState /\ st.pc = "fec" /\ st.mode = "TimeOut" /\ st.k = k
    BY <2>2, RestingTyped DEF SenderState
  <2>4. SendStep(st)
    BY <2>1
  <2> HIDE DEF st
  <2>5. Codable(st)
    BY <2>2, <2>3 DEF Codable
  <2>6. PacketsInv' /\ ThreadInv' /\ SenderInv' /\ DecisionInv'
    BY <1>1, <1>2, <2>3, <2>4, <2>5, SenderMoves
  <2>7. BoundInv'
    BY <1>1, <1>6, <2>3, <2>4 DEF BoundInv, SendStep
  <2> QED BY <1>3, <1>4, <2>6, <2>7 DEF Inv
<1> QED BY <1>5, <1>6 DEF StartDecision

LEMMA ForgetScoutInv ==
  ASSUME Inv, ForgetScout
  PROVE  Inv'
<1> DEFINE r == Rates[snd.ind]
           st == IF snd.ind < Len(Rates) THEN [snd EXCEPT !.ind = @ + 1]
                 ELSE [snd EXCEPT !.pc = "feasible", !.ind = 1]
<1>1. UNCHANGED <<rate, feasible, decision, sent, base, lost>> /\ SenderInv /\ snd.pc = "scout" /\ SendStep(st)
  BY DEF Inv, ForgetScout
<1>2. rate' \in RateSet /\ feasible' \subseteq RateSet /\ snd \in SenderState /\ Codable(snd)
  BY <1>1 DEF SenderInv
<1>3. snd.ind \in RateInd /\ snd.ind \in 1 .. Len(Rates) /\ r \in RateSet /\ Len(Rates) \in Nat
  BY <1>2, ConstantsTyped DEF SenderState
<1>4. MapsInv'
  <2>1. MapsInv /\ "scout" \in Maps
    BY DEF Inv, Maps
  <2>2. loss_map["scout"][r] \in LossRate /\ INVALID_LOSS_RATE \in LossRate
    BY <1>3, <2>1 DEF MapsInv, LossRate
  <2>3. UpdateLoss(loss_map["scout"][r], INVALID_LOSS_RATE, NoHistory) \in LossRate
    BY <2>2, UpdateLossTyped
  <2>4. loss_map' = [loss_map EXCEPT !["scout"][r] = UpdateLoss(loss_map["scout"][r], INVALID_LOSS_RATE, NoHistory)]
    BY <1>3, <2>1 DEF MapsInv, ForgetScout
  <2> HIDE DEF r
  <2> QED BY <1>3, <2>1, <2>3, <2>4, LossReplaced
<1>5. st \in SenderState /\ st.pc \in {"scout", "feasible"} /\ st.mode = snd.mode /\ st.k = snd.k
  <2>1. CASE snd.ind < Len(Rates)
    <3>1. snd.ind + 1 \in RateInd
      BY <1>3, <2>1, ConstantsTyped
    <3> QED BY <1>1, <1>2, <2>1, <3>1 DEF SenderState
  <2>2. CASE ~(snd.ind < Len(Rates))
    <3>1. 1 \in RateInd
      BY ConstantsTyped
    <3> QED BY <1>2, <2>2, <3>1 DEF SenderState
  <2> QED BY <2>1, <2>2
<1> HIDE DEF st
<1>6. Codable(st)
  BY <1>2, <1>5 DEF Codable
<1>7. PacketsInv' /\ ThreadInv' /\ SenderInv' /\ DecisionInv'
  BY <1>1, <1>2, <1>5, <1>6, SenderMoves
<1>8. BoundInv'
  BY <1>1, <1>5 DEF BoundInv, SendStep
<1>9. BaselineInv' /\ LostInv'
  BY <1>1, BaselineUnchanged, LostUnchanged DEF Inv
<1> QED BY <1>4, <1>7, <1>8, <1>9 DEF Inv

LEMMA FindFeasibleInv ==
  ASSUME Inv, FindFeasible
  PROVE  Inv'
<1> DEFINE st == [snd EXCEPT !.pc = "combine"]
<1>1. UNCHANGED <<loss_map, rate, decision, sent, base, lost>> /\ SenderInv /\ SendStep(st)
  BY DEF Inv, FindFeasible
<1>2. rate' \in RateSet /\ snd \in SenderState /\ Codable(snd)
  BY <1>1 DEF SenderInv
<1>3. feasible' \subseteq RateSet
  <2> DEFINE start == Minus(Now, Nanoseconds(BackWindow))
  <2>1. FindSuccessRates(records, start, Now, RateSet) \subseteq RateSet
    BY DEF FindSuccessRates
  <2> QED BY <2>1 DEF FindFeasible
<1>4. st \in SenderState /\ st.pc = "combine" /\ st.mode = snd.mode /\ st.k = snd.k
  BY <1>2 DEF SenderState
<1> HIDE DEF st
<1>5. Codable(st)
  BY <1>2, <1>4 DEF Codable
<1>6. PacketsInv' /\ ThreadInv' /\ SenderInv' /\ DecisionInv'
  BY <1>1, <1>2, <1>3, <1>4, <1>5, SenderMoves
<1>7. BoundInv'
  BY <1>1, <1>4 DEF BoundInv, SendStep
<1>8. MapsInv' /\ BaselineInv' /\ LostInv'
  BY <1>1, MapsUnchanged, BaselineUnchanged, LostUnchanged DEF Inv
<1> QED BY <1>6, <1>7, <1>8 DEF Inv

LEMMA ReadScoutInv ==
  ASSUME Inv, ReadScout
  PROVE  Inv'
<1> DEFINE r == Rates[snd.ind]
           st == [snd EXCEPT !.pc = "front", !.scout = loss_map.scout[r]]
<1>1. UNCHANGED <<loss_map, rate, feasible, decision, sent, base, lost>> /\ SenderInv /\ MapsInv /\ SendStep(st)
  BY DEF Inv, ReadScout
<1>2. rate' \in RateSet /\ feasible' \subseteq RateSet /\ snd \in SenderState /\ Codable(snd)
  BY <1>1 DEF SenderInv
<1>3. loss_map.scout[r] \in LossRate
  <2>1. r \in RateSet
    BY <1>2, ConstantsTyped DEF SenderState
  <2>2. "scout" \in Maps
    BY DEF Maps
  <2> HIDE DEF r
  <2> QED BY <1>1, <2>1, <2>2 DEF MapsInv
<1> HIDE DEF r
<1>4. st \in SenderState /\ st.pc = "front" /\ st.mode = snd.mode /\ st.k = snd.k
  BY <1>2, <1>3 DEF SenderState
<1> HIDE DEF st
<1>5. Codable(st)
  BY <1>2, <1>4 DEF Codable
<1>6. PacketsInv' /\ ThreadInv' /\ SenderInv' /\ DecisionInv'
  BY <1>1, <1>2, <1>4, <1>5, SenderMoves
<1>7. BoundInv'
  BY <1>1, <1>4 DEF BoundInv, SendStep
<1>8. MapsInv' /\ BaselineInv' /\ LostInv'
  BY <1>1, MapsUnchanged, BaselineUnchanged, LostUnchanged DEF Inv
<1> QED BY <1>6, <1>7, <1>8 DEF Inv

LEMMA ReadFrontInv ==
  ASSUME Inv, ReadFront
  PROVE  Inv'
<1> DEFINE r == Rates[snd.ind]
           st == [snd EXCEPT !.pc = "back", !.front = loss_map.front[r]]
<1>1. UNCHANGED <<loss_map, rate, feasible, decision, sent, base, lost>> /\ SenderInv /\ MapsInv /\ SendStep(st)
  BY DEF Inv, ReadFront
<1>2. rate' \in RateSet /\ feasible' \subseteq RateSet /\ snd \in SenderState /\ Codable(snd)
  BY <1>1 DEF SenderInv
<1>3. loss_map.front[r] \in LossRate
  <2>1. r \in RateSet
    BY <1>2, ConstantsTyped DEF SenderState
  <2>2. "front" \in Maps
    BY DEF Maps
  <2> HIDE DEF r
  <2> QED BY <1>1, <2>1, <2>2 DEF MapsInv
<1> HIDE DEF r
<1>4. st \in SenderState /\ st.pc = "back" /\ st.mode = snd.mode /\ st.k = snd.k
  BY <1>2, <1>3 DEF SenderState
<1> HIDE DEF st
<1>5. Codable(st)
  BY <1>2, <1>4 DEF Codable
<1>6. PacketsInv' /\ ThreadInv' /\ SenderInv' /\ DecisionInv'
  BY <1>1, <1>2, <1>4, <1>5, SenderMoves
<1>7. BoundInv'
  BY <1>1, <1>4 DEF BoundInv, SendStep
<1>8. MapsInv' /\ BaselineInv' /\ LostInv'
  BY <1>1, MapsUnchanged, BaselineUnchanged, LostUnchanged DEF Inv
<1> QED BY <1>6, <1>7, <1>8 DEF Inv

LEMMA ReadBackInv ==
  ASSUME Inv, ReadBack
  PROVE  Inv'
<1> DEFINE r == Rates[snd.ind]
           back == loss_map.back[r]
           both == Combined(cfg.version, snd.scout, snd.front, back)
           pc == IF snd.ind < Len(Rates) THEN "combine" ELSE "rate"
           ind == IF snd.ind < Len(Rates) THEN snd.ind + 1 ELSE 1
           st == [snd EXCEPT !.scout = INVALID_LOSS_RATE, !.front = INVALID_LOSS_RATE, !.pc = pc, !.ind = ind]
<1>1. UNCHANGED <<rate, feasible, decision, sent, base, lost>> /\ SenderInv /\ MapsInv
  BY DEF Inv, ReadBack
<1>2. rate' \in RateSet /\ feasible' \subseteq RateSet /\ snd \in SenderState /\ Codable(snd)
  BY <1>1 DEF SenderInv
<1>3. snd.ind \in RateInd /\ snd.ind \in 1 .. Len(Rates) /\ r \in RateSet /\ Len(Rates) \in Nat
  BY <1>2, ConstantsTyped DEF SenderState
<1>4. pc \in {"combine", "rate"} /\ ind \in RateInd
  BY <1>3, ConstantsTyped
<1>5. SendStep(st)
  BY <1>2 DEF ReadBack, SenderState
<1>6. loss_map' = [loss_map EXCEPT !.combine[r] = UpdateLoss(@, both, NoHistory)]
  BY DEF ReadBack
<1> HIDE DEF pc, ind, r, both
<1>7. MapsInv'
  <2>1. "combine" \in Maps /\ "back" \in Maps
    BY DEF Maps
  <2>2. loss_map["combine"][r] \in LossRate /\ back \in LossRate
    BY <1>1, <1>3, <2>1 DEF MapsInv
  <2>3. both \in LossRate
    BY <1>2, <2>2, CombinedTyped DEF SenderState, both
  <2>4. UpdateLoss(loss_map["combine"][r], both, NoHistory) \in LossRate
    BY <2>2, <2>3, UpdateLossTyped
  <2>5. loss_map' = [loss_map EXCEPT !["combine"][r] = UpdateLoss(loss_map["combine"][r], both, NoHistory)]
    BY <1>1, <1>3, <1>6, <2>1 DEF MapsInv
  <2> QED BY <1>1, <1>3, <2>1, <2>4, <2>5, LossReplaced
<1>8. st \in SenderState /\ st.pc = pc /\ st.mode = snd.mode /\ st.k = snd.k
  <2>1. INVALID_LOSS_RATE \in LossRate
    BY DEF LossRate
  <2> QED BY <1>2, <1>4, <2>1 DEF SenderState
<1> HIDE DEF st
<1>9. Codable(st)
  BY <1>2, <1>4, <1>8 DEF Codable
<1>10. PacketsInv' /\ ThreadInv' /\ SenderInv' /\ DecisionInv'
  BY <1>1, <1>2, <1>4, <1>5, <1>8, <1>9, SenderMoves
<1>11. BoundInv'
  BY <1>4, <1>5, <1>8 DEF BoundInv, SendStep
<1>12. BaselineInv' /\ LostInv'
  BY <1>1, BaselineUnchanged, LostUnchanged DEF Inv
<1> QED BY <1>7, <1>10, <1>11, <1>12 DEF Inv

LEMMA ChooseRateInv ==
  ASSUME Inv, ChooseRate
  PROVE  Inv'
<1> DEFINE st == [snd EXCEPT !.pc = "fec"]
<1>1. UNCHANGED <<loss_map, feasible, decision, sent, base, lost>> /\ SenderInv /\ MapsInv /\ SendStep(st)
  BY DEF Inv, ChooseRate
<1>2. rate \in RateSet /\ feasible' \subseteq RateSet /\ snd \in SenderState /\ Codable(snd)
  BY <1>1 DEF SenderInv
<1>3. loss_map.combine \in [RateSet -> LossRate]
  BY <1>1 DEF MapsInv, Maps
<1>4. rate' = ApplyRate(cfg.version, loss_map.combine, feasible, rate)
  BY DEF ChooseRate
<1>5. rate' \in RateSet /\ (cfg.version \in BoundLoss /\ loss_map.combine[rate'] > loss_bound => rate' = Rates[1])
  BY <1>2, <1>3, <1>4, ApplyRateTyped
<1>6. st \in SenderState /\ st.pc = "fec" /\ st.mode = snd.mode /\ st.k = snd.k
  BY <1>2 DEF SenderState
<1> HIDE DEF st
<1>7. Codable(st)
  BY <1>2, <1>6 DEF Codable
<1>8. PacketsInv' /\ ThreadInv' /\ SenderInv' /\ DecisionInv'
  BY <1>1, <1>2, <1>5, <1>6, <1>7, SenderMoves
<1>9. BoundInv'
  BY <1>1, <1>5, <1>6 DEF BoundInv, SendStep
<1>10. MapsInv' /\ BaselineInv' /\ LostInv'
  BY <1>1, MapsUnchanged, BaselineUnchanged, LostUnchanged DEF Inv
<1> QED BY <1>8, <1>9, <1>10 DEF Inv

LEMMA AskBaselineInv ==
  ASSUME Inv, AskBaseline
  PROVE  Inv'
<1> DEFINE pc == IF snd.pc = "rate" THEN "rate asked" ELSE "rates asked"
           st == [snd EXCEPT !.pc = pc]
<1>1. UNCHANGED <<loss_map, rate, feasible, decision, sent, lost>> /\ SenderInv /\ SendStep(st)
  BY DEF Inv, AskBaseline
<1>2. rate' \in RateSet /\ feasible' \subseteq RateSet /\ snd \in SenderState /\ Codable(snd)
  BY <1>1 DEF SenderInv
<1>3. /\ pc \in {"rate asked", "rates asked"}
      /\ pc = "rates asked" => snd.pc = "rates" /\ Len(snd.rate_arr) < snd.n
  BY DEF AskBaseline
<1> HIDE DEF pc
<1>4. /\ st \in SenderState /\ st.pc = pc /\ st.mode = snd.mode /\ st.k = snd.k
      /\ st.n = snd.n /\ st.rate_arr = snd.rate_arr
  BY <1>2, <1>3 DEF SenderState
<1> HIDE DEF st
<1>5. Codable(st)
  BY <1>2, <1>3, <1>4 DEF Codable
<1>6. PacketsInv' /\ ThreadInv' /\ SenderInv' /\ DecisionInv'
  BY <1>1, <1>2, <1>3, <1>4, <1>5, SenderMoves
<1>7. BoundInv'
  <2>1. cfg.version \notin BoundLoss /\ cfg' = cfg
    BY <1>1 DEF AskBaseline, Baselines, BoundLoss, SendStep
  <2> QED BY <2>1 DEF BoundInv
<1>8. BaselineInv'
  BY EnterTyped DEF Inv, AskBaseline
<1>9. MapsInv' /\ LostInv'
  BY <1>1, MapsUnchanged, LostUnchanged DEF Inv
<1> QED BY <1>6, <1>7, <1>8, <1>9 DEF Inv

\* A baseline answers with one of the rates.
LEMMA BaselineRateTyped ==
  ASSUME BaselineInv, NEW answer \in BaselineRate("sender"), base' = answer.base
  PROVE  answer.rate \in RateSet /\ BaselineInv'
<1>1. base \in BaselineState /\ MatchesFrom(base.table, base.history, 0)
  BY DEF BaselineInv
<1>2. CASE base.raced
  <2>1. PICK r \in RateSet : answer = [rate |-> r, base |-> Left("sender", base)]
    BY <1>2 DEF BaselineRate
  <2>2. answer.rate = r /\ base' = Left("sender", base)
    BY <2>1
  <2> QED BY <1>1, <2>2, LeftTyped
<1>3. CASE ~base.raced
  <2>1. PICK t \in BaselineApply(cfg.version, base.table) :
          answer = [rate |-> Rates[t.pos], base |-> Left("sender", [base EXCEPT !.table = t])]
    BY <1>3 DEF BaselineRate
  <2>2. base.table \in RateTable /\ base.history \in Seq(Record)
    BY <1>1 DEF BaselineState
  <2>3. t \in RateTable /\ MatchesFrom(t, base.history, 0)
    BY <1>1, <2>2, BaselineApplyTyped
  <2>4. answer.rate \in RateSet
    <3>1. t.pos \in RateInd
      BY <2>3 DEF RateTable
    <3> QED BY <2>1, <3>1, ConstantsTyped
  <2> DEFINE b == [base EXCEPT !.table = t]
  <2>5. b \in BaselineState /\ b.table = t /\ b.history = base.history
    BY <1>1, <2>3 DEF BaselineState
  <2>6. base' = Left("sender", b)
    BY <2>1
  <2> HIDE DEF b
  <2> QED BY <2>3, <2>4, <2>5, <2>6, LeftTyped
<1> QED BY <1>2, <1>3

LEMMA BaselineAnswersInv ==
  ASSUME Inv, BaselineAnswers
  PROVE  Inv'
<1>1. PICK answer \in BaselineRate("sender") :
        /\ base' = answer.base
        /\ \/ /\ snd.pc = "rate asked"
              /\ rate' = answer.rate
              /\ SendStep([snd EXCEPT !.pc = "fec"])
           \/ /\ snd.pc = "rates asked"
              /\ SendStep([snd EXCEPT !.pc = "rates", !.rate_arr = Append(@, answer.rate)])
              /\ UNCHANGED rate
  BY DEF BaselineAnswers
<1>2. answer.rate \in RateSet /\ BaselineInv'
  BY <1>1, BaselineRateTyped DEF Inv
<1>3. UNCHANGED <<loss_map, feasible, decision, sent, lost>> /\ SenderInv /\ BoundInv
  BY DEF Inv, BaselineAnswers
<1>4. rate \in RateSet /\ feasible' \subseteq RateSet /\ snd \in SenderState /\ Codable(snd)
  BY <1>3 DEF SenderInv
<1>5. MapsInv' /\ LostInv'
  BY <1>3, MapsUnchanged, LostUnchanged DEF Inv
<1>6. CASE snd.pc = "rate asked"
  <2> DEFINE st == [snd EXCEPT !.pc = "fec"]
  <2>1. st \in SenderState /\ st.pc = "fec" /\ st.mode = snd.mode /\ st.k = snd.k
    BY <1>4 DEF SenderState
  <2>2. SendStep(st) /\ rate' = answer.rate
    BY <1>1, <1>6
  <2> HIDE DEF st
  <2>3. Codable(st)
    BY <1>4, <2>1 DEF Codable
  <2>4. PacketsInv' /\ ThreadInv' /\ SenderInv' /\ DecisionInv'
    BY <1>2, <1>3, <1>4, <2>1, <2>2, <2>3, SenderMoves
  <2>5. BoundInv'
    <3>1. cfg.version \notin BoundLoss /\ cfg' = cfg
      BY <1>3, <1>6, <2>2 DEF BoundInv, SendStep
    <3> QED BY <3>1 DEF BoundInv
  <2> QED BY <1>2, <1>5, <2>4, <2>5 DEF Inv
<1>7. CASE snd.pc = "rates asked"
  <2> DEFINE rate_arr == Append(snd.rate_arr, answer.rate)
             st == [snd EXCEPT !.pc = "rates", !.rate_arr = rate_arr]
  <2>1. snd.rate_arr \in Seq(RateSet) /\ Len(snd.rate_arr) \in Nat
    BY <1>4, LenProperties DEF SenderState
  <2>2. rate_arr \in Seq(RateSet) /\ Len(rate_arr) = Len(snd.rate_arr) + 1
    BY <1>2, <2>1, AppendProperties
  <2>3. SendStep(st) /\ rate' = rate
    BY <1>1, <1>4, <1>7 DEF SenderState
  <2> HIDE DEF rate_arr
  <2>4. /\ st \in SenderState /\ st.pc = "rates" /\ st.mode = snd.mode /\ st.k = snd.k
        /\ st.n = snd.n /\ st.rate_arr = rate_arr
    BY <1>4, <2>2 DEF SenderState
  <2>5. snd.n \in Int
    <3>1. snd.n \in 0 .. kGFSize
      BY <1>4 DEF SenderState
    <3>2. kGFSize \in Nat
      BY ConstantsTyped
    <3> QED BY <3>1, <3>2
  <2>6. Len(rate_arr) \in 1 .. snd.n
    <3>1. Len(snd.rate_arr) < snd.n
      BY <1>4, <1>7 DEF Codable
    <3> QED BY <2>1, <2>2, <2>5, <3>1
  <2> HIDE DEF st
  <2>7. Codable(st)
    BY <1>4, <1>7, <2>4, <2>6 DEF Codable
  <2>8. PacketsInv' /\ ThreadInv' /\ SenderInv' /\ DecisionInv'
    BY <1>3, <1>4, <2>3, <2>4, <2>7, SenderMoves
  <2>9. BoundInv'
    BY <1>3, <1>7, <2>3, <2>4 DEF BoundInv, SendStep
  <2> QED BY <1>2, <1>5, <2>8, <2>9 DEF Inv
<1> QED BY <1>1, <1>6, <1>7

LEMMA ChooseFECInv ==
  ASSUME Inv, ChooseFEC
  PROVE  Inv' /\ StopInv'
<1> DEFINE dup == IsDuplicate(snd.mode)
           off == [snd EXCEPT !.pc = "stopped"]
<1>1. PICK kn \in ApplyFEC(snd.mode, cfg.use_fec, loss_map.combine[rate], rate, snd.k) :
        SendStep(IF kn[2] < kn[1] THEN off
                 ELSE [snd EXCEPT !.pc = "rates", !.k = kn[1], !.n = IF dup THEN kn[1] ELSE kn[2],
                                  !.dup = dup, !.rate_arr = <<rate>>])
  BY DEF ChooseFEC
<1>2. UNCHANGED <<loss_map, rate, feasible, decision, sent, base, lost>> /\ SenderInv /\ MapsInv /\ BoundInv
      /\ PacketsInv /\ snd.pc = "fec" /\ cfg' = cfg
  BY DEF Inv, ChooseFEC, SendStep
<1>3. rate' \in RateSet /\ rate \in RateSet /\ feasible' \subseteq RateSet /\ snd \in SenderState /\ Codable(snd)
  BY <1>2 DEF SenderInv
<1>4. /\ kn[1] \in 1 .. kMaxK /\ (snd.mode # "Data" => kn[1] = snd.k)
      /\ \/ kn[2] \in kn[1] .. kGFSize
         \/ snd.mode = "Retrans" /\ cfg.use_fec /\ NearOne(loss_map.combine[rate]) /\ kn[2] = 0
  <2>1. cfg.use_fec \in BOOLEAN
    BY <1>2, ControlAssumption DEF PacketsInv
  <2>2. loss_map.combine[rate] \in LossRate
    BY <1>2, <1>3 DEF MapsInv, Maps
  <2>3. snd.mode \in {"Data", "TimeOut", "Retrans"} /\ snd.k \in Nat
    <3>1. snd.mode \in {"Data", "TimeOut", "Retrans"} /\ snd.k \in 0 .. kMaxK
      BY <1>3 DEF SenderState
    <3>2. kMaxK \in Nat
      BY ConstantsTyped
    <3> QED BY <3>1, <3>2
  <2>4. (snd.mode = "TimeOut" => snd.k \in 1 .. kMaxK) /\ (snd.mode = "Retrans" => snd.k = 1)
    BY <1>3 DEF Codable
  <2> QED BY <1>1, <1>3, <2>1, <2>2, <2>3, <2>4, FECEncodable
<1>5. dup \in BOOLEAN
  BY Zenon DEF IsDuplicate
<1> HIDE DEF dup
<1>6. MapsInv' /\ BaselineInv' /\ LostInv'
  BY <1>2, MapsUnchanged, BaselineUnchanged, LostUnchanged DEF Inv
<1>7. ASSUME NEW st \in SenderState, SendStep(st), Codable(st), st.pc = "rates"
      PROVE  Inv' /\ StopInv'
  <2>1. PacketsInv' /\ ThreadInv' /\ SenderInv' /\ DecisionInv'
    BY <1>2, <1>3, <1>7, SenderMoves
  <2>2. BoundInv'
    BY <1>2, <1>7 DEF BoundInv, SendStep
  <2>3. StopInv'
    BY <1>7 DEF StopInv, Running, SendStep
  <2> QED BY <1>6, <2>1, <2>2, <2>3 DEF Inv
<1>8. CASE kn[2] < kn[1]
  <2>1. snd.mode = "Retrans" /\ cfg.use_fec /\ NearOne(loss_map.combine[rate])
    BY <1>4, <1>8, ConstantsTyped
  <2>2. off \in SenderState /\ off.pc = "stopped" /\ off.mode = snd.mode /\ off.k = snd.k /\ SendStep(off)
    BY <1>1, <1>3, <1>8 DEF SenderState
  <2> HIDE DEF off
  <2>3. snd'.pc = "stopped" /\ snd'.mode = snd.mode
    BY <2>2 DEF SendStep
  <2>4. StopInv'
    BY <1>2, <2>1, <2>3 DEF StopInv, NearOne
  <2>5. Codable(off)
    BY <1>3, <2>2 DEF Codable
  <2>6. PacketsInv' /\ ThreadInv' /\ SenderInv' /\ DecisionInv'
    BY <1>2, <1>3, <2>2, <2>5, SenderMoves
  <2>7. BoundInv'
    BY <1>2, <2>2 DEF BoundInv, SendStep
  <2> QED BY <1>6, <2>4, <2>6, <2>7 DEF Inv
<1>9. CASE ~(kn[2] < kn[1])
  <2>0. kn[1] \in 1 .. kMaxK /\ kn[2] \in kn[1] .. kGFSize
    BY <1>4, <1>9, ConstantsTyped
  <2> DEFINE n == IF dup THEN kn[1] ELSE kn[2]
             st == [snd EXCEPT !.pc = "rates", !.k = kn[1], !.n = n, !.dup = dup, !.rate_arr = <<rate>>]
  <2>1. n \in kn[1] .. kGFSize /\ kn[1] \in 0 .. kMaxK /\ n \in 0 .. kGFSize
    BY <2>0, ConstantsTyped
  <2>2. SendStep(st)
    BY <1>1, <1>9
  <2> HIDE DEF n
  <2>3. /\ st \in SenderState /\ st.pc = "rates" /\ st.mode = snd.mode /\ st.k = kn[1]
        /\ st.n = n /\ st.rate_arr = <<rate>>
    <3>1. <<rate>> \in Seq(RateSet)
      BY <1>3
    <3> QED BY <1>3, <1>5, <2>1, <3>1 DEF SenderState
  <2> HIDE DEF st
  <2>4. Codable(st)
    <3>1. Len(<<rate>>) = 1 /\ 1 \in 1 .. n
      BY <2>0, <2>1, ConstantsTyped
    <3>2. (snd.mode = "TimeOut" => kn[1] \in 1 .. kMaxK) /\ (snd.mode = "Retrans" => kn[1] = 1)
      BY <1>3, <1>4 DEF Codable
    <3> QED BY <2>0, <2>1, <2>3, <3>1, <3>2 DEF Codable
  <2> QED BY <1>7, <2>2, <2>3, <2>4
<1> QED BY <1>8, <1>9

LEMMA DecisionMadeInv ==
  ASSUME Inv, DecisionMade
  PROVE  Inv'
<1> DEFINE st == [Resting EXCEPT !.pc = "batch"]
<1>1. UNCHANGED <<loss_map, rate, feasible, sent, base>> /\ SenderInv /\ BoundInv /\ snd.pc = "rates" /\ SendStep(st)
  BY DEF Inv, DecisionMade
<1>2. rate \in RateSet /\ snd \in SenderState /\ Codable(snd)
  BY <1>1 DEF SenderInv
<1>3. /\ snd.k \in 1 .. kMaxK /\ snd.n \in snd.k .. kGFSize /\ Len(snd.rate_arr) \in 1 .. snd.n
      /\ snd.mode = "Retrans" => snd.k = 1
  BY <1>1, <1>2 DEF Codable
<1>4. kMaxK \in Nat /\ gf_size \in Nat /\ kGFSize = gf_size - 1
  BY ConstantsTyped
<1>5. snd.rate_arr \in Seq(RateSet) /\ snd.k \in Int /\ snd.n \in Nat
  <2>1. snd.rate_arr \in Seq(RateSet)
    BY <1>2 DEF SenderState
  <2> QED BY <1>3, <1>4, <2>1
<1>6. /\ decision'.k = snd.k /\ decision'.mode = snd.mode /\ decision'.n = Len(decision'.rate_arr)
      /\ decision'.rate_arr \in Seq(RateSet) /\ Len(decision'.rate_arr) \in snd.n .. snd.n + 1
  <2>1. CASE cfg.version \in Baselines
    <3>1. Len(snd.rate_arr) >= snd.n
      BY <2>1 DEF DecisionMade
    <3>2. Len(snd.rate_arr) \in snd.n .. snd.n + 1
      BY <1>3, <1>5, <3>1
    <3>3. decision' = [mode |-> snd.mode, k |-> snd.k, n |-> Len(snd.rate_arr),
                       rate_arr |-> snd.rate_arr, dup |-> snd.dup, lost |-> lost = "deciding"]
      BY <2>1 DEF DecisionMade
    <3>4. decision'.k = snd.k /\ decision'.mode = snd.mode /\ decision'.n = Len(snd.rate_arr)
          /\ decision'.rate_arr = snd.rate_arr
      BY <3>3
    <3> QED BY <1>5, <3>2, <3>4
  <2>2. CASE cfg.version \notin Baselines
    <3>1. PICK sample \in SampleRates(cfg.version, feasible, rate) :
            LET rate_arr == FindRatesForBatch(cfg.version, snd.n, rate, sample)
            IN  decision' = [mode |-> snd.mode, k |-> snd.k, n |-> Len(rate_arr),
                             rate_arr |-> rate_arr, dup |-> snd.dup, lost |-> lost = "deciding"]
      BY <2>2 DEF DecisionMade
    <3> DEFINE rate_arr == FindRatesForBatch(cfg.version, snd.n, rate, sample)
    <3>2. sample \in RateSet
      BY <1>2, SampleRatesTyped
    <3>3. rate_arr \in Seq(RateSet) /\ Len(rate_arr) \in snd.n .. snd.n + 1
      BY <1>2, <1>5, <3>2, RatesForBatchTyped
    <3>4. decision'.k = snd.k /\ decision'.mode = snd.mode /\ decision'.n = Len(rate_arr)
          /\ decision'.rate_arr = rate_arr
      BY <3>1
    <3> HIDE DEF rate_arr
    <3> QED BY <3>3, <3>4
  <2> QED BY <2>1, <2>2
<1>7. st \in SenderState /\ st.pc = "batch" /\ st.mode = "Data"
  BY RestingTyped DEF SenderState, Resting
<1> HIDE DEF st
<1>8. UNCHANGED <<cfg, records, flight, timeouts, thr>> /\ snd' = st
  BY <1>1 DEF SendStep
<1>9. PacketsInv' /\ ThreadInv' /\ MapsInv' /\ BaselineInv'
  BY <1>1, <1>8, PacketsUnchanged, ThreadUnchanged, MapsUnchanged, BaselineUnchanged DEF Inv
<1>10. SenderInv'
  BY <1>1, <1>7, <1>8 DEF SenderInv, Codable
<1>11. DecisionInv'
  <2>1. decision'.n \in snd.n .. snd.n + 1 /\ decision'.n \in Int
    BY <1>5, <1>6
  <2>2. decision'.k \in 1 .. kMaxK /\ decision'.n \in decision'.k .. gf_size
    BY <1>3, <1>4, <1>5, <1>6, <2>1
  <2> QED BY <1>3, <1>6, <2>2 DEF DecisionInv
<1>12. BoundInv'
  BY <1>1, <1>7, <1>8 DEF BoundInv
<1>13. LostInv'
  BY DEF Inv, LostInv, DecisionMade
<1> QED BY <1>9, <1>10, <1>11, <1>12, <1>13 DEF Inv

LEMMA SendCodedBatchInv ==
  ASSUME Inv, SendCodedBatch
  PROVE  Inv'
<1> DEFINE most == TheSmaller(TheSmaller(MaxFollowed, cfg.pkts - sent), decision.n)
           pkt(followed, i) ==
             [timer |-> SentAt(sent + i), rate |-> decision.rate_arr[decision.n - followed + i]]
<1>1. UNCHANGED <<cfg, mapVars, rate, feasible, thr, base, lost>> /\ snd' = Resting /\ snd.pc = "batch"
  BY DEF SendCodedBatch
<1>2. PICK followed \in TheSmaller(1, most) .. most :
        /\ flight' = flight \o [i \in 1 .. followed |-> pkt(followed, i)]
        /\ sent' = sent + followed
  BY DEF SendCodedBatch
<1>3. PacketsInv /\ SenderInv /\ DecisionInv
  BY DEF Inv
<1>4. sent \in Nat /\ cfg.pkts \in Nat /\ sent <= cfg.pkts /\ flight \in Seq(Pkt) /\ Len(flight) <= sent
      /\ Len(flight) \in Nat
  BY <1>3, ControlAssumption, LenProperties DEF PacketsInv
<1>5. decision.n \in Nat \ {0} /\ decision.rate_arr \in Seq(RateSet) /\ Len(decision.rate_arr) = decision.n
  <2>1. /\ decision.k \in 1 .. kMaxK /\ decision.n \in decision.k .. gf_size
        /\ decision.rate_arr \in Seq(RateSet) /\ Len(decision.rate_arr) = decision.n
    BY <1>1, <1>3 DEF DecisionInv
  <2>2. kMaxK \in Nat /\ gf_size \in Nat
    BY ConstantsTyped
  <2> QED BY <2>1, <2>2
<1>6. followed \in Nat /\ followed <= decision.n /\ followed <= cfg.pkts - sent
  <2>1. MaxFollowed \in Nat /\ cfg.pkts - sent \in Nat
    BY <1>4, ControlAssumption
  <2> QED BY <1>2, <1>5, <2>1 DEF TheSmaller
<1>7. \A i \in 1 .. followed : pkt(followed, i) \in Pkt
  <2> SUFFICES ASSUME NEW i \in 1 .. followed PROVE pkt(followed, i) \in Pkt
    OBVIOUS
  <2>1. sent + i \in Nat /\ decision.n - followed + i \in 1 .. Len(decision.rate_arr)
    BY <1>4, <1>5, <1>6
  <2>2. SentAt(sent + i) \in SendTimes
    BY <2>1 DEF SendTimes
  <2>3. decision.rate_arr[decision.n - followed + i] \in RateSet
    BY <1>5, <2>1, ElementOfSeq
  <2> QED BY <2>2, <2>3 DEF Pkt
<1> DEFINE pkts == [i \in 1 .. followed |-> pkt(followed, i)]
<1>8. pkts \in Seq(Pkt) /\ DOMAIN pkts = 1 .. followed
  <2>1. pkts \in [1 .. followed -> Pkt]
    BY <1>7
  <2> QED BY <1>6, <2>1, SeqDef
<1>9. flight' = flight \o pkts
  BY <1>2
<1> HIDE DEF pkts, pkt
<1>10. Len(pkts) = followed
  BY <1>6, <1>8, LenProperties
<1>11. flight' \in Seq(Pkt) /\ Len(flight') = Len(flight) + followed
  BY <1>4, <1>8, <1>9, <1>10, ConcatProperties
<1>12. PacketsInv'
  <2>1. sent' \in 0 .. cfg.pkts /\ Len(flight') <= sent'
    BY <1>2, <1>4, <1>6, <1>11
  <2> QED BY <1>1, <1>3, <1>11, <2>1 DEF PacketsInv, mapVars
<1>13. SenderInv'
  <2>1. Codable(Resting)
    BY DEF Codable, Resting
  <2> QED BY <1>1, <1>3, <2>1, RestingTyped DEF SenderInv
<1>14. DecisionInv' /\ BoundInv'
  BY <1>1 DEF DecisionInv, BoundInv, Resting
<1>15. ThreadInv' /\ MapsInv' /\ BaselineInv' /\ LostInv'
  BY <1>1, ThreadUnchanged, MapsUnchanged, BaselineUnchanged, LostUnchanged DEF Inv, mapVars
<1> QED BY <1>12, <1>13, <1>14, <1>15 DEF Inv

LEMMA SenderStepInv ==
  ASSUME Inv, Sender
  PROVE  Inv'
BY StartDecisionInv, ForgetScoutInv, FindFeasibleInv, ReadScoutInv, ReadFrontInv, ReadBackInv, ChooseRateInv,
   AskBaselineInv, BaselineAnswersInv, ChooseFECInv, DecisionMadeInv, SendCodedBatchInv DEF Sender

LEMMA StutterInv ==
  ASSUME Inv, UNCHANGED vars
  PROVE  Inv'
BY PacketsUnchanged, MapsUnchanged, ThreadUnchanged, SenderUnchanged, DecisionUnchanged, BaselineUnchanged,
   BoundUnchanged, LostUnchanged DEF Inv, vars

\* The invariant holds, for every number of rates and every set of options.
LEMMA InvHolds == Spec => []Inv
<1>1. Inv /\ [Next]_vars => Inv'
  BY FeedbackInv, SenderStepInv, StutterInv DEF Next, Stopped
<1> QED BY <1>1, InitInv, PTL DEF Spec

-----------------------------------------------------------------------------
(* What follows of it.                                                     *)

\* No other step of the sender stops the program.
LEMMA OthersGoOn ==
  ASSUME Inv, Sender, ~ChooseFEC
  PROVE  Running'
<1>1. snd \in SenderState
  BY DEF Inv, SenderInv
<1>2. CASE StartDecision
  BY <1>2 DEF StartDecision, SendStep, Resting, Running
<1>3. CASE ForgetScout \/ FindFeasible
  BY <1>1, <1>3 DEF ForgetScout, FindFeasible, SendStep, SenderState, Running
<1>4. CASE ReadScout \/ ReadFront \/ ReadBack
  BY <1>1, <1>4 DEF ReadScout, ReadFront, ReadBack, SendStep, SenderState, Running
<1>5. CASE ChooseRate \/ AskBaseline
  BY <1>1, <1>5 DEF ChooseRate, AskBaseline, SendStep, SenderState, Running
<1>6. CASE BaselineAnswers
  <2>1. PICK answer \in BaselineRate("sender") :
          \/ snd' = [snd EXCEPT !.pc = "fec"]
          \/ snd' = [snd EXCEPT !.pc = "rates", !.rate_arr = Append(@, answer.rate)]
    BY <1>6 DEF BaselineAnswers, SendStep
  <2> QED BY <1>1, <2>1 DEF SenderState, Running
<1>7. CASE DecisionMade \/ SendCodedBatch
  <2>1. snd' = [Resting EXCEPT !.pc = "batch"] \/ snd' = Resting
    BY <1>7 DEF DecisionMade, SendCodedBatch, SendStep
  <2> QED BY <2>1 DEF Resting, Running
<1> QED BY <1>2, <1>3, <1>4, <1>5, <1>6, <1>7 DEF Sender

\* The thread that stops the program is the sender, in a retransmission.
LEMMA StopHolds == Spec => []StopInv
<1>1. ASSUME Inv, StopInv, [Next]_vars PROVE StopInv'
  <2>1. CASE Feedback
    <3>1. snd' = snd /\ Running
      BY <2>1 DEF Feedback, TakeKnown, TimeOutLimit, SetHighLoss, TakeRest, InsertFeedback, BaselineRecorded,
                  LookUp, UpdateBack, sendVars
    <3> QED BY <3>1 DEF StopInv, Running
  <2>2. CASE ChooseFEC
    BY <1>1, <2>2, ChooseFECInv
  <2>3. CASE Sender /\ ~ChooseFEC
    BY <1>1, <2>3, OthersGoOn DEF StopInv
  <2>4. CASE Stopped \/ UNCHANGED vars
    BY <1>1, <2>4 DEF StopInv, NearOne, Stopped, Running, vars
  <2> QED BY <1>1, <2>1, <2>2, <2>3, <2>4 DEF Next
<1>2. Init => StopInv
  BY DEF Init, StopInv, Running, Resting
<1> QED BY <1>1, <1>2, InvHolds, PTL DEF Spec

\* Every variable has its type, whatever the other threads and the sender
\* interleave: the losses, counters and positions stay in their ranges.
THEOREM RateTypesHold == Spec => []TypeOK
<1>1. Inv => TypeOK
  <2> SUFFICES ASSUME Inv PROVE TypeOK
    OBVIOUS
  <2>1. PacketsInv /\ MapsInv /\ ThreadInv /\ SenderInv /\ BaselineInv /\ LostInv
    BY DEF Inv
  <2>2. \A i \in DOMAIN records : records[i] \in [timer : Timer, rate : RateSet, acked : BOOLEAN]
    <3> SUFFICES ASSUME NEW i \in DOMAIN records
                 PROVE  records[i] \in [timer : Timer, rate : RateSet, acked : BOOLEAN]
      OBVIOUS
    <3>1. records[i] \in Record
      BY <2>1, LenProperties, ElementOfSeq DEF PacketsInv
    <3>2. SendTimes \subseteq Timer
      BY SendTimesApart
    <3> QED BY <3>1, <3>2, Zenon DEF Record
  <2>3. snd.k \in 0 .. kMaxK /\ snd.n \in 0 .. kGFSize /\ snd.ind \in RateInd
    BY <2>1 DEF SenderInv, SenderState
  <2>4. \A t \in Threads : thr[t].loss_arr \in [RateSet -> LossRate]
    BY <2>1 DEF ThreadInv, ThreadState
  <2>5. base.table \in RateTable /\ base.inside \subseteq Threads \cup {"sender"}
    BY <2>1 DEF BaselineInv, BaselineState
  <2>6. base.table.pos \in RateInd /\ base.table.wnd_counter > 0
    BY <2>5 DEF RateTable
  <2> QED BY <2>1, <2>2, <2>3, <2>4, <2>5, <2>6 DEF TypeOK, PacketsInv, MapsInv, Maps, SenderInv, LostInv
<1> QED BY <1>1, InvHolds, PTL

\* What MakeDecision returns can be encoded and sent, for every number of rates,
\* every kMaxK and field size, up to the rounding of the quotients and however the
\* losses change while it reads them, and an assertion it fails is that of a
\* retransmission whose redundancy is within a thousandth of 1.
THEOREM DecisionsSound == Spec => []DecisionSound
<1>1. Inv /\ StopInv => DecisionSound
  <2> SUFFICES ASSUME Inv, StopInv PROVE DecisionSound
    OBVIOUS
  <2>1. ASSUME snd.pc = "batch"
        PROVE  /\ decision.k \in 1 .. kMaxK /\ decision.n \in decision.k .. gf_size
               /\ Len(decision.rate_arr) = decision.n
               /\ \A i \in 1 .. decision.n : decision.rate_arr[i] \in RateSet
               /\ decision.mode = "Retrans" => decision.k = 1
    <3>1. /\ decision.k \in 1 .. kMaxK /\ decision.n \in decision.k .. gf_size
          /\ decision.rate_arr \in Seq(RateSet) /\ Len(decision.rate_arr) = decision.n
          /\ decision.mode = "Retrans" => decision.k = 1
      BY <2>1 DEF Inv, DecisionInv
    <3>2. \A i \in 1 .. decision.n : decision.rate_arr[i] \in RateSet
      BY <3>1, ElementOfSeq
    <3> QED BY <3>1, <3>2
  <2>2. ~Running => snd.mode = "Retrans" /\ cfg.use_fec /\ Redundancy(loss_map.combine[rate], 800) \in {Unit - 1, Unit}
    BY DEF StopInv, NearOne
  <2> QED BY <2>1, <2>2 DEF DecisionSound
<1> QED BY <1>1, InvHolds, StopHolds, PTL

\* The versions that bound the loss send at a rate whose loss is high only if it
\* is the lowest, also while a batch is cut or its losses are raised meanwhile.
THEOREM HighLossAtLowest == Spec => []HighLossOnlyAtLowest
<1>1. Inv => HighLossOnlyAtLowest
  <2> SUFFICES ASSUME Inv, snd.pc = "batch", cfg.version \in BoundLoss, IsHighLoss(loss_map.combine, rate)
               PROVE  rate = Rates[1]
    BY DEF HighLossOnlyAtLowest
  <2>1. loss_map.combine[rate] \in Int
    <3>1. loss_map.combine[rate] \in LossRate
      BY DEF Inv, MapsInv, Maps, SenderInv
    <3>2. LossRate \subseteq Int
      BY DEF LossRate, INVALID_LOSS_RATE, Unit
    <3> QED BY <3>1, <3>2
  <2>2. loss_map.combine[rate] > loss_bound
    BY <2>1 DEF IsHighLoss, duplicate_thresh, loss_bound
  <2> QED BY <2>2 DEF Inv, BoundInv
<1> QED BY <1>1, InvHolds, PTL

\* The counters of a baseline are those of its history as long as no two threads
\* were in it at once, for every number of rates and packets.
THEOREM BaselineCountersMatch == Spec => []BaselineTablesMatch
<1>1. Inv => BaselineTablesMatch
  <2> SUFFICES ASSUME Inv PROVE BaselineTablesMatch
    OBVIOUS
  <2> DEFINE history == base.history
             at(i) == {h \in DOMAIN history : history[h].rate = Rates[i]}
             acked == {h \in DOMAIN history : history[h].acked}
  <2>1. base \in BaselineState /\ MatchesFrom(base.table, history, 0)
    BY DEF Inv, BaselineInv
  <2>2. history \in Seq(Record)
    BY <2>1 DEF BaselineState
  <2>3. DOMAIN history = 0 + 1 .. Len(history) /\ \A h \in DOMAIN history : history[h] \in Record
    <3>1. DOMAIN history = 1 .. Len(history) /\ 0 + 1 = 1
      BY <2>2, LenProperties
    <3> QED BY <2>2, <3>1, ElementOfSeq
  <2> HIDE DEF history
  <2>4. CountFrom(history, 0, AckedPkts) = Cardinality(acked)
    <3>1. {h \in 0 + 1 .. Len(history) : history[h] \in AckedPkts} = acked
      BY <2>3 DEF AckedPkts
    <3> QED BY <3>1 DEF CountFrom
  <2>5. ASSUME NEW i \in RateInd
        PROVE  /\ CountFrom(history, 0, SentAtRate(i)) = Cardinality(at(i))
               /\ CountFrom(history, 0, SentAtRate(i) \cap AckedPkts) = Cardinality(at(i) \cap acked)
    <3>1. {h \in 0 + 1 .. Len(history) : history[h] \in SentAtRate(i)} = at(i)
      BY <2>3 DEF SentAtRate
    <3>2. {h \in 0 + 1 .. Len(history) : history[h] \in SentAtRate(i) \cap AckedPkts} = at(i) \cap acked
      BY <2>3 DEF SentAtRate, AckedPkts
    <3> QED BY <3>1, <3>2 DEF CountFrom
  <2>6. base.table.num_acked = Cardinality(acked)
    BY <2>1, <2>4 DEF MatchesFrom
  <2>7. \A i \in RateInd : /\ base.table.rate[i].sent = Cardinality(at(i))
                           /\ base.table.rate[i].acked = Cardinality(at(i) \cap acked)
    BY <2>1, <2>5 DEF MatchesFrom
  <2> QED BY <2>6, <2>7 DEF BaselineTablesMatch, history
<1> QED BY <1>1, InvHolds, PTL

\* Only a lookup takes a thread from "lookup" to "update".
LEMMA OnlyLookUp ==
  ASSUME Inv, Next, NEW t \in Threads, thr[t].pc = "lookup", thr'[t].pc = "update"
  PROVE  LookUp(t)
<1>1. thr \in [Threads -> ThreadState]
  BY DEF Inv, ThreadInv
<1>2. ASSUME NEW u \in Threads, NEW pc, NEW batch, Go(u, pc, batch) PROVE thr[u].pc = "lookup"
  BY <1>1, <1>2 DEF Go
<1>3. ASSUME NEW u \in Threads, NEW pc, NEW ind, Step(u, pc, ind) PROVE thr[u].pc = "lookup"
  BY <1>1, <1>3 DEF Step
<1>4. "raw_ack" \in Threads /\ "time_out" \in Threads
  BY DEF Threads
<1>5. ASSUME NEW num, TakeKnown(num) PROVE FALSE
  <2>1. PICK batch : Go("raw_ack", "insert", batch)
    BY <1>5 DEF TakeKnown
  <2> QED BY <1>2, <1>4, <1>5, <2>1 DEF TakeKnown
<1>6. ASSUME TimeOutLimit PROVE FALSE
  BY <1>2, <1>4, <1>6 DEF TimeOutLimit
<1>7. ASSUME SetHighLoss PROVE FALSE
  BY <1>3, <1>4, <1>7 DEF SetHighLoss
<1>8. ASSUME TakeRest PROVE FALSE
  <2>1. PICK pc, batch : Go("time_out", pc, batch)
    BY <1>8 DEF TakeRest
  <2> QED BY <1>2, <1>4, <1>8, <2>1 DEF TakeRest
<1>9. ASSUME NEW u \in Threads, Inserted(u) PROVE thr[u].pc = "lookup"
  BY <1>3, <1>9 DEF Inserted
<1>10. ASSUME NEW u \in Threads, InsertFeedback(u) PROVE FALSE
  BY <1>3, <1>9, <1>10 DEF InsertFeedback
<1>11. ASSUME NEW u \in Threads, BaselineRecorded(u) PROVE FALSE
  BY <1>9, <1>11 DEF BaselineRecorded
<1>12. ASSUME NEW u \in Threads, LookUp(u) PROVE u = t
  BY <1>1, <1>12 DEF LookUp
<1>13. ASSUME NEW u \in Threads, UpdateBack(u) PROVE FALSE
  BY <1>2, <1>3, <1>13 DEF UpdateBack
<1>14. ASSUME Sender PROVE FALSE
  <2>1. thr' = thr
    BY <1>14 DEF Sender, StartDecision, ForgetScout, FindFeasible, ReadScout, ReadFront, ReadBack, ChooseRate,
                 AskBaseline, BaselineAnswers, ChooseFEC, DecisionMade, SendCodedBatch, SendStep
  <2> QED BY <2>1
<1>15. ~Stopped
  BY DEF Stopped, vars
<1> QED BY <1>5, <1>6, <1>7, <1>8, <1>10, <1>11, <1>12, <1>13, <1>14, <1>15 DEF Next, Feedback

\* While the records are in order, a lookup counts the packets sent from the
\* first to the last of its batch and no others: the one ns by which its window
\* is wider on each side takes none in, since packets are sent further apart.
THEOREM LookupsCountWindow == Spec => WindowCounted
<1> DEFINE Counts(t) ==
             thr[t].pc = "lookup" /\ thr'[t].pc = "update" /\ InOrder(records) =>
               LET batch == thr[t].batch
                   window == SentBetween(batch[1].timer, batch[Len(batch)].timer)
               IN  \A r \in RateSet : thr'[t].loss_arr[r] = LossIn(window, r)
<1>1. ASSUME Inv, Next, NEW t \in Threads, thr[t].pc = "lookup", thr'[t].pc = "update", InOrder(records)
      PROVE  LET batch == thr[t].batch
                 window == SentBetween(batch[1].timer, batch[Len(batch)].timer)
             IN  \A r \in RateSet : thr'[t].loss_arr[r] = LossIn(window, r)
  <2> DEFINE batch == thr[t].batch
             first == batch[1].timer
             last == batch[Len(batch)].timer
  <2>1. LookUp(t)
    BY <1>1, OnlyLookUp
  <2>2. thr[t] \in ThreadState /\ batch # <<>> /\ thr \in [Threads -> ThreadState] /\ records \in Seq(Record)
    BY <1>1 DEF Inv, ThreadInv, Resumable, PacketsInv
  <2>3. batch \in Seq(Record)
    BY <2>2 DEF ThreadState
  <2> HIDE DEF batch
  <2>4. first \in SendTimes /\ last \in SendTimes
    <3>1. 1 \in 1 .. Len(batch) /\ Len(batch) \in 1 .. Len(batch)
      BY <2>2, <2>3, EmptySeq, LenProperties
    <3>2. batch[1] \in Record /\ batch[Len(batch)] \in Record
      BY <2>3, <3>1, ElementOfSeq
    <3> QED BY <3>2 DEF Record
  <2> HIDE DEF first, last
  <2>5. thr'[t].loss_arr = CalcLossRates(records, Minus(first, Nanoseconds(1)), Plus(last, Nanoseconds(1)), RateSet)
    BY <2>1, <2>2 DEF LookUp, ThreadState, first, last, batch
  <2>6. \A r \in RateSet : thr'[t].loss_arr[r] = LossIn(SentBetween(first, last), r)
    BY <1>1, <2>2, <2>4, <2>5, LookupExact
  <2> QED BY <2>6 DEF first, last, batch
<1>2. Inv /\ [Next]_vars => [\A t \in Threads : Counts(t)]_vars
  BY <1>1
<1> QED BY <1>2, InvHolds, PTL DEF Spec, WindowCounted

-----------------------------------------------------------------------------
(* While no raw ack comes, the losses set to 1 stay.                       *)

\* Of the packets sent, those at the end are in flight, and the rest are known.
Taken == sent - Len(flight)
Known(rec, taken) == \E k \in 1 .. taken : rec.timer = SentAt(k)
OrderInv ==
  /\ \A i \in DOMAIN flight : flight[i].timer = SentAt(Taken + i)
  /\ \A i \in DOMAIN records : Known(records[i], Taken)
  /\ \A t \in Threads : \A i \in DOMAIN thr[t].batch : Known(thr[t].batch[i], Taken)

\* Since all losses were set to 1 only the timeout handler has gone on.
AllLost == lost \in {"yes", "deciding"}
QuietInv == /\ lost # "no" => thr["raw_ack"].pc = "idle"
            /\ lost = "setting" => thr["time_out"].pc = "high"

\* What it inserts and will find is lost: records from the first packet of its
\* batch on, behind all older ones.
Late(rec, batch) == ~Less(rec.timer, batch[1].timer)
OnlyLost(recs, batch) ==
  /\ \A i \in DOMAIN batch : Late(batch[i], batch) /\ ~batch[i].acked
  /\ \A i \in DOMAIN recs : Late(recs[i], batch) => ~recs[i].acked
  /\ \A i, j \in DOMAIN recs : i < j /\ Late(recs[i], batch) => Late(recs[j], batch)
TimeOutInv ==
  AllLost => /\ thr["time_out"].pc \in {"insert", "record", "lookup"} => OnlyLost(records, thr["time_out"].batch)
             /\ thr["time_out"].pc = "update" =>
                  \A r \in RateSet : thr["time_out"].loss_arr[r] \in {Unit, INVALID_LOSS_RATE}

\* The losses of both antennas stay what SetHighLoss made them.
HighLossInv ==
  /\ AllLost => \A r \in RateSet : loss_map.front[r] = Unit /\ loss_map.back[r] = Unit
  /\ lost = "setting" =>
       \A i \in 1 .. thr["time_out"].ind - 1 :
         HighLossMap(i) \in {"front", "back"} => loss_map[HighLossMap(i)][HighLossRate(i)] = Unit

\* A decision begun since then sees nothing else.
DecidingInv ==
  lost = "deciding" /\ cfg.version \notin BackOnly =>
    /\ snd.pc \in {"scout", "feasible", "combine", "front", "back", "rate", "fec", "rates", "stopped"}
    /\ snd.pc = "feasible" => snd.ind = 1
    /\ snd.pc \in {"combine", "front", "back"} => \A i \in 1 .. snd.ind - 1 : loss_map.combine[Rates[i]] = Unit
    /\ snd.pc = "back" => snd.front = Unit
    /\ snd.pc = "rate" => \A r \in RateSet : loss_map.combine[r] = Unit
    /\ snd.pc \in {"fec", "rates"} => rate = Rates[1]
    /\ snd.pc = "rates" => snd.dup = cfg.enable_duplicate

SafeInv == OrderInv /\ QuietInv /\ TimeOutInv /\ HighLossInv /\ DecidingInv /\ HighLossSafe

-----------------------------------------------------------------------------
(* What the operators make of losses of 1.                                 *)

LEMMA SentAtOrder ==
  ASSUME NEW i \in Nat, NEW j \in Nat
  PROVE  SentAt(i) \in SendTimes /\ SentAt(i) \in Timer /\ (Less(SentAt(i), SentAt(j)) <=> i < j)
<1>1. Gap \in Nat /\ 1 < Gap /\ StartTime \in Nat /\ Gap * i \in Int /\ Gap * j \in Int
  BY ControlAssumption
<1>2. /\ SentAt(i) \in Timer /\ GetNSec(SentAt(i)) = StartTime + Gap * i
      /\ SentAt(j) \in Timer /\ GetNSec(SentAt(j)) = StartTime + Gap * j
  BY <1>1, NanosecondsTyped DEF SentAt
<1>3. Gap * i < Gap * j <=> i < j
  <2>1. CASE i < j
    <3>1. (i + 1) * Gap <= j * Gap /\ (i + 1) * Gap = Gap * i + Gap /\ j * Gap = Gap * j
      BY <1>1, <2>1, ProductOrder
    <3> QED BY <1>1, <2>1, <3>1
  <2>2. CASE j <= i
    <3>1. j * Gap <= i * Gap /\ i * Gap = Gap * i /\ j * Gap = Gap * j
      BY <1>1, <2>2, ProductOrder
    <3> QED BY <1>1, <2>2, <3>1
  <2> QED BY <2>1, <2>2
<1>4. Less(SentAt(i), SentAt(j)) <=> GetNSec(SentAt(i)) < GetNSec(SentAt(j))
  BY <1>2, LessIsEarlier
<1>5. SentAt(i) \in SendTimes
  BY DEF SendTimes
<1> QED BY <1>1, <1>2, <1>3, <1>4, <1>5

\* Old losses of 1 stay under further ones, and combine to 1.
LEMMA UnitStays ==
  /\ \A loss \in {Unit, INVALID_LOSS_RATE} : UpdateLoss(Unit, loss, kPrevWeight) = Unit
  /\ \A old, loss : UpdateLoss(old, loss, NoHistory) = loss
  /\ \A version, scout : version \notin BackOnly /\ scout \in LossRate => Combined(version, scout, Unit, Unit) = Unit
<1>1. \A loss \in {Unit, INVALID_LOSS_RATE} : UpdateLoss(Unit, loss, kPrevWeight) = Unit
  BY DEF UpdateLoss, Unit, INVALID_LOSS_RATE, kPrevWeight
<1>2. \A old, loss : UpdateLoss(old, loss, NoHistory) = loss
  BY DEF UpdateLoss, NoHistory, Unit
<1>3. ASSUME NEW version, NEW scout \in LossRate, version \notin BackOnly
      PROVE  Combined(version, scout, Unit, Unit) = Unit
  <2>1. TheLarger(scout, Unit) = Unit
    BY DEF TheLarger, LossRate, Unit, INVALID_LOSS_RATE
  <2>2. CalcLossRatesFrontBack(Unit, Unit) = Unit
    BY DEF CalcLossRatesFrontBack, Unit, INVALID_LOSS_RATE
  <2> QED BY <1>3, <2>1, <2>2 DEF Combined
<1> QED BY <1>1, <1>2, <1>3

\* Without any throughput the lowest rate is chosen.
LEMMA LowestChosen ==
  ASSUME NEW version, version \notin BackOnly, NEW loss \in [RateSet -> LossRate], NEW feasible_rates, NEW current,
         \A r \in RateSet : loss[r] = Unit
  PROVE  ApplyRate(version, loss, feasible_rates, current) = Rates[1]
<1> DEFINE thresh == IF version \in BoundLoss THEN loss_bound ELSE NoBound
           arr == [i \in RateInd |-> Throughput(loss, feasible_rates, current, thresh, Rates[i])]
           ind == FindMaxInd(arr)
<1>1. Len(Rates) \in Nat \ {0} /\ RateInd = 1 .. Len(Rates) /\ \A i \in RateInd : Rates[i] \in RateSet
  BY ConstantsTyped
<1> HIDE DEF thresh
<1>2. \A i \in RateInd : arr[i] = 0
  <2> SUFFICES ASSUME NEW i \in RateInd PROVE Throughput(loss, feasible_rates, current, thresh, Rates[i]) = 0
    OBVIOUS
  <2>1. Rates[i] \in Nat /\ loss[Rates[i]] = Unit /\ Unit # INVALID_LOSS_RATE
    BY <1>1, ConstantsTyped DEF Unit, INVALID_LOSS_RATE
  <2>2. Rates[i] * (Unit - Unit) = 0
    <3>1. Unit - Unit = 0
      BY DEF Unit
    <3> QED BY <2>1, <3>1
  <2> QED BY <2>1, <2>2 DEF Throughput
<1>3. arr \in [1 .. Len(Rates) -> Nat]
  BY <1>1, <1>2
<1>4. ind \in 1 .. Len(Rates) /\ \A j \in 1 .. Len(Rates) : j < ind => arr[j] < arr[ind]
  <2> HIDE DEF arr
  <2> QED BY <1>1, <1>3, MaxIndExists
<1>5. ApplyRate(version, loss, feasible_rates, current) = Rates[ind]
  BY DEF ApplyRate, ApplyRateScout, thresh, BackOnly
<1> HIDE DEF ind, arr
<1>6. ind = 1
  <2> SUFFICES ASSUME ind # 1 PROVE FALSE
    OBVIOUS
  <2>1. 1 \in 1 .. Len(Rates) /\ 1 < ind
    BY <1>1, <1>4
  <2>2. arr[1] = 0 /\ arr[ind] = 0 /\ arr[1] < arr[ind]
    BY <1>1, <1>2, <1>4, <2>1
  <2> QED BY <2>2
<1> QED BY <1>5, <1>6

LEMMA QuotientIs ==
  ASSUME NEW n \in Nat \ {0}, NEW q \in Int, NEW m \in 0 .. n - 1
  PROVE  (q * n + m) \div n = q /\ (q * n + m) % n = m
<1> DEFINE a == q * n + m
           p == a \div n
<1>1. a \in Int /\ q * n \in Int /\ n * q = q * n
  OBVIOUS
<1>2. a = q * n + m
  OBVIOUS
<1> HIDE DEF a
<1>3. p \in Int /\ n * p <= a /\ a < n * p + n /\ a = n * p + (a % n) /\ n * p \in Int /\ n * p = p * n
  BY <1>1, Quotient
<1> HIDE DEF p
<1>4. p <= q
  <2> SUFFICES ASSUME q + 1 <= p PROVE FALSE
    BY <1>3
  <2>1. (q + 1) * n <= p * n /\ (q + 1) * n = q * n + n
    BY <1>3, ProductOrder
  <2> QED BY <1>1, <1>2, <1>3, <2>1
<1>5. q <= p
  <2> SUFFICES ASSUME p + 1 <= q PROVE FALSE
    BY <1>3
  <2>1. (p + 1) * n <= q * n /\ (p + 1) * n = p * n + n
    BY <1>3, ProductOrder
  <2> QED BY <1>1, <1>2, <1>3, <2>1
<1>6. p = q
  BY <1>3, <1>4, <1>5
<1>7. a % n \in Int
  BY <1>1, Quotient
<1>8. a % n = m
  BY <1>1, <1>2, <1>3, <1>6, <1>7
<1> QED BY <1>6, <1>8 DEF a, p

\* SetLossRates leaves no rate of an antenna out.
LEMMA HighLossCovers ==
  ASSUME NEW map \in {"front", "back"}, NEW r \in RateSet
  PROVE  \E i \in 1 .. HighLossCalls : HighLossMap(i) = map /\ HighLossRate(i) = r
<1> DEFINE n == Len(Rates)
           q == IF map = "front" THEN 0 ELSE 1
<1>1. n \in Nat \ {0} /\ HighLossCalls = 3 * n /\ RateInd = 1 .. n
  BY ConstantsTyped DEF HighLossCalls, HighLossMaps
<1>2. PICK j \in RateInd : Rates[j] = r
  BY DEF RateSet
<1>3. HighLossMaps[1 + q] = map /\ q \in {0, 1}
  BY DEF HighLossMaps
<1> HIDE DEF n, q
<1>4. q * n \in {0, n} /\ q \in Int /\ j - 1 \in 0 .. n - 1 /\ j \in Int
  BY <1>1, <1>2, <1>3
<1> DEFINE i == q * n + j
<1>5. i \in 1 .. HighLossCalls /\ i - 1 = q * n + (j - 1)
  BY <1>1, <1>2, <1>4
<1> HIDE DEF i
<1>6. (i - 1) \div n = q /\ (i - 1) % n = j - 1
  <2> DEFINE m == j - 1
  <2>1. m \in 0 .. n - 1 /\ i - 1 = q * n + m
    BY <1>4, <1>5
  <2> HIDE DEF m
  <2>2. (q * n + m) \div n = q /\ (q * n + m) % n = m
    BY <1>1, <1>4, <2>1, QuotientIs
  <2> QED BY <2>1, <2>2 DEF m
<1>7. 1 + (j - 1) = j
  BY <1>4
<1>8. HighLossMap(i) = map /\ HighLossRate(i) = r
  BY <1>2, <1>3, <1>6, <1>7 DEF HighLossMap, HighLossRate, n
<1> QED BY <1>5, <1>8
-----------------------------------------------------------------------------
(* Every step again.                                                       *)

LEMMA SenderLeaves ==
  ASSUME SafeInv, UNCHANGED <<sent, flight, records, thr>>,
         loss_map'.front = loss_map.front, loss_map'.back = loss_map.back,
         lost' = lost \/ (AllLost /\ lost' \in {"yes", "deciding"})
  PROVE  OrderInv' /\ QuietInv' /\ TimeOutInv' /\ HighLossInv'
<1>1. OrderInv'
  BY DEF SafeInv, OrderInv, Taken
<1>2. QuietInv' /\ (AllLost' <=> AllLost) /\ (lost' = "setting" <=> lost = "setting")
  BY DEF SafeInv, QuietInv, AllLost
<1>3. TimeOutInv'
  BY <1>2 DEF SafeInv, TimeOutInv
<1>4. HighLossInv'
  <2>1. \A map \in {"front", "back"} : loss_map'[map] = loss_map[map]
    OBVIOUS
  <2> QED BY <1>2, <2>1 DEF SafeInv, HighLossInv
<1> QED BY <1>1, <1>2, <1>3, <1>4

LEMMA FeedbackKeeps ==
  ASSUME SafeInv, UNCHANGED <<cfg, sendVars>>, loss_map'.combine = loss_map.combine,
         lost' = "deciding" => lost = "deciding"
  PROVE  DecidingInv' /\ HighLossSafe'
<1>1. DecidingInv'
  BY DEF SafeInv, DecidingInv, sendVars
<1>2. HighLossSafe'
  BY DEF SafeInv, HighLossSafe, sendVars
<1> QED BY <1>1, <1>2

LEMMA GoDoes ==
  ASSUME ThreadInv, NEW t \in Threads, NEW pc, NEW batch, Go(t, pc, batch)
  PROVE  /\ thr'[t].pc = pc /\ thr'[t].batch = batch /\ thr'[t].ind = 1
         /\ \A u \in Threads : u # t => thr'[u] = thr[u]
BY DEF ThreadInv, Go, Idle

LEMMA StepDoes ==
  ASSUME ThreadInv, NEW t \in Threads, NEW pc, NEW ind, Step(t, pc, ind)
  PROVE  /\ thr'[t].pc = pc /\ thr'[t].ind = ind
         /\ thr'[t].batch = thr[t].batch /\ thr'[t].loss_arr = thr[t].loss_arr
         /\ \A u \in Threads : u # t => thr'[u] = thr[u]
<1>1. thr \in [Threads -> ThreadState] /\ thr[t] \in ThreadState
  BY DEF ThreadInv
<1> QED BY <1>1 DEF ThreadState, Step

LEMMA KnownStays ==
  ASSUME NEW rec, NEW m \in Int, NEW n \in Int, m <= n, Known(rec, m)
  PROVE  Known(rec, n)
BY DEF Known

LEMMA TakenTyped ==
  ASSUME PacketsInv
  PROVE  sent \in Nat /\ Len(flight) \in Nat /\ Taken \in Nat /\ DOMAIN flight = 1 .. Len(flight)
<1>1. sent \in Nat /\ flight \in Seq(Pkt) /\ Len(flight) <= sent
  BY ControlAssumption DEF PacketsInv
<1>2. Len(flight) \in Nat /\ DOMAIN flight = 1 .. Len(flight)
  BY <1>1, LenProperties
<1> QED BY <1>1, <1>2 DEF Taken

LEMMA TakeKnownSafe ==
  ASSUME Inv, SafeInv, NEW num \in 1 .. Len(flight), TakeKnown(num)
  PROVE  SafeInv'
<1>1. PacketsInv /\ ThreadInv /\ sent \in Nat /\ Len(flight) \in Nat /\ Taken \in Nat /\ flight \in Seq(Pkt)
      /\ DOMAIN flight = 1 .. Len(flight)
  BY TakenTyped DEF Inv, PacketsInv
<1>2. PICK good \in SUBSET (1 .. num) :
        Go("raw_ack", "insert", [i \in 1 .. num |-> Acked(flight[i], i \in good)])
  BY DEF TakeKnown
<1> DEFINE batch == [i \in 1 .. num |-> Acked(flight[i], i \in good)]
<1>3. thr'["raw_ack"].batch = batch /\ thr'["time_out"] = thr["time_out"]
  BY <1>1, <1>2, GoDoes DEF Threads
<1>4. DOMAIN batch = 1 .. num /\ \A i \in 1 .. num : batch[i].timer = flight[i].timer
  BY DEF Acked
<1> HIDE DEF batch
<1>5. UNCHANGED <<cfg, mapVars, sendVars, base>> /\ lost' = "no" /\ flight' = SubSeq(flight, num + 1, Len(flight))
  BY DEF TakeKnown
<1>6. /\ Len(flight') = Len(flight) - num /\ DOMAIN flight' = 1 .. Len(flight) - num
      /\ \A i \in 1 .. Len(flight) - num : flight'[i] = flight[num + i]
  <2> DEFINE rest == SubSeq(flight, num + 1, Len(flight))
  <2>1. rest \in Seq(Pkt) /\ Len(rest) = Len(flight) - num
        /\ \A i \in 1 .. Len(flight) - num : rest[i] = flight[num + i]
    <3>1. num + 1 \in Int /\ Len(flight) \in Int /\ \A i \in num + 1 .. Len(flight) : flight[i] \in Pkt
      BY <1>1, ElementOfSeq
    <3>2. /\ rest \in Seq(Pkt) /\ Len(rest) = IF num + 1 <= Len(flight) THEN Len(flight) - (num + 1) + 1 ELSE 0
          /\ \A i \in 1 .. Len(flight) - (num + 1) + 1 : rest[i] = flight[num + 1 + i - 1]
      BY <3>1, SubSeqProperties
    <3> HIDE DEF rest
    <3>3. Len(flight) - (num + 1) + 1 = Len(flight) - num
          /\ (IF num + 1 <= Len(flight) THEN Len(flight) - (num + 1) + 1 ELSE 0) = Len(flight) - num
      <4> DEFINE len == Len(flight)
      <4>1. num \in 1 .. len /\ len \in Nat
        BY <1>1
      <4> HIDE DEF len
      <4>2. len - (num + 1) + 1 = len - num /\ (num + 1 <= len \/ len - num = 0)
        BY <4>1
      <4> QED BY <4>2 DEF len
    <3>4. \A i \in 1 .. Len(flight) - num : num + 1 + i - 1 = num + i
      BY <1>1
    <3> QED BY <3>2, <3>3, <3>4
  <2> HIDE DEF rest
  <2>2. DOMAIN rest = 1 .. Len(flight) - num
    BY <2>1, LenProperties
  <2> QED BY <1>5, <2>1, <2>2 DEF rest
<1>7. Taken' = Taken + num /\ sent' = sent
  <2>1. sent' = sent /\ Taken' = sent' - Len(flight')
    BY <1>5 DEF Taken, sendVars
  <2> QED BY <1>1, <1>6, <2>1 DEF Taken
<1>8. OrderInv'
  <2>1. \A i \in DOMAIN flight' : flight'[i].timer = SentAt(Taken' + i)
    <3> SUFFICES ASSUME NEW i \in 1 .. Len(flight) - num PROVE flight'[i].timer = SentAt(Taken + num + i)
      BY <1>6, <1>7
    <3>1. num + i \in DOMAIN flight /\ Taken + (num + i) = Taken + num + i
      BY <1>1
    <3> QED BY <1>6, <3>1 DEF SafeInv, OrderInv
  <2>2. \A i \in DOMAIN records' : Known(records'[i], Taken')
    BY <1>1, <1>5, <1>7, KnownStays DEF SafeInv, OrderInv, mapVars
  <2>3. \A i \in DOMAIN thr'["time_out"].batch : Known(thr'["time_out"].batch[i], Taken')
    BY <1>1, <1>3, <1>7, KnownStays DEF SafeInv, OrderInv, Threads
  <2>4. \A i \in 1 .. num : Known(batch[i], Taken')
    <3> SUFFICES ASSUME NEW i \in 1 .. num PROVE \E k \in 1 .. Taken + num : batch[i].timer = SentAt(k)
      BY <1>7 DEF Known
    <3>1. i \in DOMAIN flight /\ Taken + i \in 1 .. Taken + num
      BY <1>1
    <3> QED BY <1>4, <3>1 DEF SafeInv, OrderInv
  <2> QED BY <1>3, <1>4, <2>1, <2>2, <2>3, <2>4 DEF OrderInv, Threads
<1>9. QuietInv' /\ TimeOutInv' /\ HighLossInv'
  BY <1>5 DEF QuietInv, TimeOutInv, HighLossInv, AllLost
<1>10. DecidingInv' /\ HighLossSafe'
  BY <1>5, FeedbackKeeps DEF mapVars
<1> QED BY <1>8, <1>9, <1>10 DEF SafeInv

LEMMA TimeOutLimitSafe ==
  ASSUME Inv, SafeInv, TimeOutLimit
  PROVE  SafeInv'
<1>1. PacketsInv /\ ThreadInv /\ thr["time_out"].pc = "idle" /\ Go("time_out", "high", <<>>)
  BY DEF Inv, TimeOutLimit
<1>2. UNCHANGED <<cfg, records, loss_map, sendVars, flight, base>>
  BY DEF TimeOutLimit
<1>3. lost' = IF thr["raw_ack"].pc # "idle" THEN "no" ELSE IF lost = "no" THEN "setting" ELSE lost
  BY DEF TimeOutLimit
<1>4. /\ thr'["time_out"].pc = "high" /\ thr'["time_out"].batch = <<>> /\ thr'["time_out"].ind = 1
      /\ thr'["raw_ack"] = thr["raw_ack"]
  BY <1>1, GoDoes DEF Threads
<1>5. OrderInv'
  BY <1>2, <1>4 DEF SafeInv, OrderInv, Taken, Threads, sendVars
<1>6. lost # "setting"
  BY <1>1 DEF SafeInv, QuietInv
<1>7. QuietInv' /\ TimeOutInv'
  BY <1>3, <1>4, <1>6 DEF QuietInv, TimeOutInv
<1>8. HighLossInv'
  <2>1. AllLost' => AllLost
    BY <1>3 DEF AllLost
  <2> QED BY <1>2, <1>4, <2>1 DEF SafeInv, HighLossInv
<1>9. DecidingInv' /\ HighLossSafe'
  BY <1>2, <1>3, FeedbackKeeps
<1> QED BY <1>5, <1>7, <1>8, <1>9 DEF SafeInv

LEMMA SetHighLossSafe ==
  ASSUME Inv, SafeInv, SetHighLoss
  PROVE  SafeInv'
<1> DEFINE i == thr["time_out"].ind
           last == i = Len(HighLossMaps) * Len(Rates)
           map == HighLossMap(i)
           r == HighLossRate(i)
<1>1. MapsInv /\ ThreadInv /\ thr["time_out"].pc = "high" /\ i \in 1 .. HighLossCalls /\ HighLossCalls \in Nat
  BY ConstantsTyped DEF Inv, ThreadInv, Resumable, Threads, SetHighLoss, HighLossCalls, HighLossMaps
<1>2. map \in {"front", "back", "scout"} /\ r \in RateSet
  BY <1>1, HighLossTyped
<1>3. loss_map' = [loss_map EXCEPT ![map][r] = Unit]
  <2>1. loss_map' = [loss_map EXCEPT ![map][r] = UpdateLoss(@, Unit, NoHistory)]
    BY DEF SetHighLoss
  <2> HIDE DEF map, r
  <2>2. loss_map' = [loss_map EXCEPT ![map][r] = UpdateLoss(loss_map[map][r], Unit, NoHistory)]
    BY <1>1, <1>2, <2>1 DEF MapsInv, Maps
  <2> QED BY <2>2, UnitStays
<1>4. UNCHANGED <<cfg, records, timeouts, sendVars, flight, base>>
  BY DEF SetHighLoss
<1>5. Step("time_out", IF last THEN "clear" ELSE "high", i + 1)
  BY DEF SetHighLoss
<1>6. lost' = (IF last /\ lost = "setting" THEN "yes" ELSE lost) /\ (last <=> i = HighLossCalls)
  BY DEF SetHighLoss, HighLossCalls
<1> HIDE DEF i, last, map, r
<1>7. /\ thr'["time_out"].pc = (IF last THEN "clear" ELSE "high") /\ thr'["time_out"].ind = i + 1
      /\ thr'["time_out"].batch = thr["time_out"].batch /\ thr'["raw_ack"] = thr["raw_ack"]
  BY <1>1, <1>5, StepDoes DEF Threads
<1>8. OrderInv'
  BY <1>4, <1>7 DEF SafeInv, OrderInv, Taken, Threads, sendVars
<1>9. QuietInv' /\ TimeOutInv'
  BY <1>6, <1>7 DEF SafeInv, QuietInv, TimeOutInv, Threads
<1>10. /\ \A m \in {"front", "back"}, q \in RateSet : loss_map[m][q] = Unit => loss_map'[m][q] = Unit
       /\ loss_map'[map][r] = Unit /\ loss_map'.combine = loss_map.combine
  BY <1>1, <1>2, <1>3 DEF MapsInv, Maps
<1>11. ASSUME lost = "setting", NEW j \in 1 .. i, HighLossMap(j) \in {"front", "back"}
       PROVE  loss_map'[HighLossMap(j)][HighLossRate(j)] = Unit
  <2>1. CASE j = i
    BY <1>10, <2>1 DEF map, r
  <2>2. CASE j # i
    <3>1. j \in 1 .. i - 1 /\ j \in 1 .. HighLossCalls
      BY <1>1, <2>2
    <3>2. loss_map[HighLossMap(j)][HighLossRate(j)] = Unit
      BY <1>11, <3>1 DEF SafeInv, HighLossInv, i
    <3> QED BY <1>10, <1>11, <3>1, <3>2, HighLossTyped
  <2> QED BY <2>1, <2>2
<1>12. HighLossInv'
  <2>1. CASE lost = "setting" /\ last
    <3>1. \A m \in {"front", "back"}, q \in RateSet : loss_map'[m][q] = Unit
      <4> SUFFICES ASSUME NEW m \in {"front", "back"}, NEW q \in RateSet PROVE loss_map'[m][q] = Unit
        OBVIOUS
      <4>1. PICK j \in 1 .. HighLossCalls : HighLossMap(j) = m /\ HighLossRate(j) = q
        BY HighLossCovers
      <4> QED BY <1>6, <1>11, <2>1, <4>1
    <3> QED BY <1>6, <2>1, <3>1 DEF HighLossInv
  <2>2. CASE lost = "setting" /\ ~last
    <3>1. lost' = "setting" /\ \A j \in 1 .. thr'["time_out"].ind - 1 : j \in 1 .. i
      BY <1>1, <1>6, <1>7, <2>2
    <3> QED BY <1>11, <2>2, <3>1 DEF HighLossInv, AllLost
  <2>3. CASE lost # "setting"
    BY <1>6, <1>10, <2>3 DEF SafeInv, HighLossInv, AllLost
  <2> QED BY <2>1, <2>2, <2>3
<1>13. DecidingInv' /\ HighLossSafe'
  BY <1>4, <1>6, <1>10, FeedbackKeeps
<1> QED BY <1>8, <1>9, <1>12, <1>13 DEF SafeInv

LEMMA OnlyTimeOut ==
  ASSUME SafeInv, NEW t \in Threads, thr[t].pc \notin {"idle", "high"}
  PROVE  lost # "setting" /\ (AllLost => t = "time_out")
BY DEF SafeInv, QuietInv, AllLost, Threads

LEMMA TakeRestSafe ==
  ASSUME Inv, SafeInv, TakeRest
  PROVE  SafeInv'
<1> DEFINE batch == [i \in DOMAIN flight |-> Acked(flight[i], FALSE)]
<1>1. PacketsInv /\ ThreadInv /\ sent \in Nat /\ Len(flight) \in Nat /\ Taken \in Nat
      /\ DOMAIN flight = 1 .. Len(flight) /\ Taken = sent - Len(flight)
  BY TakenTyped DEF Inv, Taken
<1>2. UNCHANGED <<cfg, mapVars, sendVars, base, lost>> /\ flight' = <<>> /\ thr["time_out"].pc = "clear"
  BY DEF TakeRest
<1>3. lost' # "setting"
  BY <1>2, OnlyTimeOut DEF Threads
<1>4. /\ DOMAIN batch = DOMAIN flight
      /\ \A i \in DOMAIN flight : batch[i].timer = SentAt(Taken + i) /\ ~batch[i].acked
  <2>1. \A i \in DOMAIN flight : batch[i].timer = flight[i].timer /\ batch[i].acked = FALSE
    BY DEF Acked
  <2> HIDE DEF batch
  <2>2. DOMAIN batch = DOMAIN flight
    BY DEF batch
  <2> QED BY <2>1, <2>2 DEF SafeInv, OrderInv
<1>5. \/ flight = <<>> /\ Go("time_out", "idle", <<>>)
      \/ flight # <<>> /\ Go("time_out", "insert", batch)
  BY DEF TakeRest
<1> HIDE DEF batch
<1>6. thr'["raw_ack"] = thr["raw_ack"]
  BY <1>1, <1>5, GoDoes DEF Threads
<1>7. \/ flight = <<>> /\ thr'["time_out"].pc = "idle" /\ thr'["time_out"].batch = <<>>
      \/ flight # <<>> /\ thr'["time_out"].pc = "insert" /\ thr'["time_out"].batch = batch
  BY <1>1, <1>5, GoDoes DEF Threads
<1>8. Taken' = sent /\ Taken <= sent
  BY <1>1, <1>2 DEF Taken, sendVars
<1>9. OrderInv'
  <2>1. \A i \in DOMAIN records' : Known(records'[i], Taken')
    BY <1>1, <1>2, <1>8, KnownStays DEF SafeInv, OrderInv, mapVars
  <2>2. \A i \in DOMAIN thr'["raw_ack"].batch : Known(thr'["raw_ack"].batch[i], Taken')
    BY <1>1, <1>6, <1>8, KnownStays DEF SafeInv, OrderInv, Threads
  <2>3. \A i \in DOMAIN batch : Known(batch[i], Taken')
    <3> SUFFICES ASSUME NEW i \in DOMAIN flight PROVE \E k \in 1 .. sent : batch[i].timer = SentAt(k)
      BY <1>4, <1>8 DEF Known
    <3>1. Taken + i \in 1 .. sent
      BY <1>1
    <3> QED BY <1>4, <3>1
  <2>4. \A i \in DOMAIN flight' : flight'[i].timer = SentAt(Taken' + i)
    BY <1>2
  <2>5. \A i \in DOMAIN thr'["time_out"].batch : Known(thr'["time_out"].batch[i], Taken')
    BY <1>7, <2>3
  <2> QED BY <2>1, <2>2, <2>4, <2>5 DEF OrderInv, Threads
<1>10. flight # <<>> => OnlyLost(records, batch)
  <2> SUFFICES ASSUME flight # <<>> PROVE OnlyLost(records, batch)
    OBVIOUS
  <2>1. 1 \in DOMAIN flight
    BY <1>1, EmptySeq DEF PacketsInv
  <2>2. batch[1].timer = SentAt(Taken + 1)
    BY <1>4, <2>1
  <2>3. \A i \in DOMAIN batch : Late(batch[i], batch) /\ ~batch[i].acked
    <3> SUFFICES ASSUME NEW i \in DOMAIN flight PROVE ~Less(SentAt(Taken + i), SentAt(Taken + 1))
      BY <1>4, <2>2 DEF Late
    <3>1. Taken + i \in Nat /\ Taken + 1 \in Nat /\ ~(Taken + i < Taken + 1)
      BY <1>1
    <3> QED BY <3>1, SentAtOrder
  <2>4. \A i \in DOMAIN records : ~Late(records[i], batch)
    <3> SUFFICES ASSUME NEW i \in DOMAIN records PROVE Less(records[i].timer, SentAt(Taken + 1))
      BY <2>2 DEF Late
    <3>1. PICK k \in 1 .. Taken : records[i].timer = SentAt(k)
      BY DEF SafeInv, OrderInv, Known
    <3>2. k \in Nat /\ Taken + 1 \in Nat /\ k < Taken + 1
      BY <1>1
    <3> QED BY <3>1, <3>2, SentAtOrder
  <2> QED BY <2>3, <2>4 DEF OnlyLost
<1>11. TimeOutInv'
  BY <1>2, <1>7, <1>10 DEF TimeOutInv, mapVars
<1>12. QuietInv' /\ HighLossInv'
  BY <1>2, <1>3, <1>6 DEF SafeInv, QuietInv, HighLossInv, AllLost, mapVars
<1>13. DecidingInv' /\ HighLossSafe'
  BY <1>2, FeedbackKeeps DEF mapVars
<1> QED BY <1>9, <1>11, <1>12, <1>13 DEF SafeInv

\* A packet inserted is behind all others; some of the oldest go.
LEMMA InsertOnlyLost ==
  ASSUME NEW recs \in Seq(Record), NEW batch, NEW k \in DOMAIN batch, batch[k] \in Record, OnlyLost(recs, batch)
  PROVE  OnlyLost(InsertPacket(recs, batch[k], Nanoseconds(TotalWindow)), batch)
<1> DEFINE new == InsertPacket(recs, batch[k], Nanoseconds(TotalWindow))
           last == Len(recs) + 1
<1>1. PICK m \in Nat : \A i \in DOMAIN new :
        m + i \in 1 .. last /\ new[i] = IF m + i = last THEN batch[k] ELSE recs[m + i]
  BY InsertPacketKeeps
<1>2. new \in Seq(Record)
  BY InsertPacketKeeps
<1> HIDE DEF new
<1>3. /\ Len(recs) \in Nat /\ DOMAIN recs = 1 .. Len(recs) /\ DOMAIN new = 1 .. Len(new) /\ Len(new) \in Nat
  BY <1>2, LenProperties
<1>4. \A i \in DOMAIN new : m + i = last \/ m + i \in DOMAIN recs
  BY <1>1, <1>3
<1>5. Late(batch[k], batch) /\ ~batch[k].acked
  BY DEF OnlyLost
<1>6. ASSUME NEW i \in DOMAIN new, Late(new[i], batch) PROVE ~new[i].acked
  <2>1. CASE m + i = last
    BY <1>1, <1>5, <2>1
  <2>2. CASE m + i # last
    BY <1>1, <1>4, <1>6, <2>2 DEF OnlyLost
  <2> QED BY <2>1, <2>2
<1>7. ASSUME NEW i \in DOMAIN new, NEW j \in DOMAIN new, i < j, Late(new[i], batch) PROVE Late(new[j], batch)
  <2>1. CASE m + j = last
    BY <1>1, <1>5, <2>1
  <2>2. CASE m + j # last
    <3>1. m + i < m + j /\ m + i # last
      <4>1. m + j \in 1 .. last /\ i \in Int /\ j \in Int
        BY <1>1, <1>3
      <4> QED BY <1>3, <1>7, <4>1
    <3>2. new[i] = recs[m + i] /\ new[j] = recs[m + j] /\ m + i \in DOMAIN recs /\ m + j \in DOMAIN recs
      BY <1>1, <1>4, <2>2, <3>1
    <3> QED BY <1>7, <3>1, <3>2 DEF OnlyLost
  <2> QED BY <2>1, <2>2
<1>8. \A i \in DOMAIN batch : Late(batch[i], batch) /\ ~batch[i].acked
  BY DEF OnlyLost
<1>9. OnlyLost(new, batch)
  BY <1>6, <1>7, <1>8 DEF OnlyLost
<1> QED BY <1>9 DEF new

LEMMA InsertFeedbackSafe ==
  ASSUME Inv, SafeInv, NEW t \in Threads, InsertFeedback(t)
  PROVE  SafeInv'
<1> DEFINE k == thr[t].ind
           batch == thr[t].batch
           new == InsertPacket(records, batch[k], Nanoseconds(TotalWindow))
<1>1. PacketsInv /\ ThreadInv /\ thr[t] \in ThreadState /\ thr[t].pc = "insert" /\ k \in 1 .. Len(batch)
      /\ records \in Seq(Record)
  BY DEF Inv, PacketsInv, ThreadInv, Resumable, InsertFeedback
<1>2. batch \in Seq(Record) /\ Len(batch) \in Nat /\ batch[k] \in Record /\ k \in DOMAIN batch
  <2>1. batch \in Seq(Record) /\ Len(batch) \in Nat /\ DOMAIN batch = 1 .. Len(batch)
    BY <1>1, LenProperties DEF ThreadState
  <2> HIDE DEF batch, k
  <2> QED BY <1>1, <2>1, ElementOfSeq
<1>3. UNCHANGED <<cfg, loss_map, timeouts, sendVars, flight, lost>> /\ records' = new
  BY DEF InsertFeedback
<1>4. \/ Step(t, "record", k)
      \/ Step(t, "insert", k + 1)
      \/ Step(t, "lookup", k + 1)
  BY DEF InsertFeedback, Inserted
<1> HIDE DEF k
<1>5. /\ thr'[t].pc \in {"record", "insert", "lookup"} /\ thr'[t].batch = batch
      /\ \A u \in Threads : u # t => thr'[u] = thr[u]
  BY <1>1, <1>4, StepDoes
<1>6. lost # "setting" /\ (AllLost => t = "time_out")
  BY <1>1, OnlyTimeOut
<1> HIDE DEF batch, new
<1>7. OrderInv'
  <2>1. Taken' = Taken
    BY <1>3 DEF Taken, sendVars
  <2>2. \A i \in DOMAIN batch : Known(batch[i], Taken)
    BY DEF SafeInv, OrderInv, batch
  <2>3. \A i \in DOMAIN new : Known(new[i], Taken)
    <3> SUFFICES ASSUME NEW i \in DOMAIN new PROVE Known(new[i], Taken)
      OBVIOUS
    <3>1. PICK m \in Nat :
            m + i \in 1 .. Len(records) + 1 /\ new[i] = IF m + i = Len(records) + 1 THEN batch[k] ELSE records[m + i]
      BY <1>1, <1>2, InsertPacketKeeps DEF new
    <3>2. CASE m + i = Len(records) + 1
      BY <1>2, <2>2, <3>1, <3>2
    <3>3. CASE m + i # Len(records) + 1
      <4>1. m + i \in DOMAIN records
        BY <1>1, <3>1, <3>3, LenProperties
      <4> QED BY <3>1, <3>3, <4>1 DEF SafeInv, OrderInv
    <3> QED BY <3>2, <3>3
  <2>4. \A u \in Threads : \A i \in DOMAIN thr'[u].batch : Known(thr'[u].batch[i], Taken)
    BY <1>5, <2>2 DEF SafeInv, OrderInv
  <2> QED BY <1>3, <2>1, <2>3, <2>4 DEF SafeInv, OrderInv
<1>8. TimeOutInv'
  <2>1. CASE AllLost
    <3>1. OnlyLost(records, batch)
      BY <1>1, <1>6, <2>1 DEF SafeInv, TimeOutInv, batch
    <3>2. OnlyLost(new, batch)
      BY <1>1, <1>2, <3>1, InsertOnlyLost DEF new
    <3> QED BY <1>3, <1>5, <1>6, <2>1, <3>2 DEF TimeOutInv, batch
  <2>2. CASE ~AllLost
    BY <1>3, <2>2 DEF TimeOutInv, AllLost
  <2> QED BY <2>1, <2>2
<1>9. QuietInv' /\ HighLossInv'
  BY <1>1, <1>3, <1>5, <1>6 DEF SafeInv, QuietInv, HighLossInv, AllLost, Threads
<1>10. DecidingInv' /\ HighLossSafe'
  BY <1>3, FeedbackKeeps
<1> QED BY <1>7, <1>8, <1>9, <1>10 DEF SafeInv

LEMMA BaselineRecordedSafe ==
  ASSUME Inv, SafeInv, NEW t \in Threads, BaselineRecorded(t)
  PROVE  SafeInv'
<1>1. ThreadInv /\ thr[t].pc = "record" /\ UNCHANGED <<cfg, mapVars, sendVars, flight, lost>>
  BY DEF Inv, BaselineRecorded
<1>2. Step(t, "insert", thr[t].ind + 1) \/ Step(t, "lookup", thr[t].ind + 1)
  BY DEF BaselineRecorded, Inserted
<1>3. /\ thr'[t].pc \in {"insert", "lookup"} /\ thr'[t].batch = thr[t].batch
      /\ \A u \in Threads : u # t => thr'[u] = thr[u]
  BY <1>1, <1>2, StepDoes
<1>4. lost # "setting" /\ (AllLost => t = "time_out")
  BY <1>1, OnlyTimeOut
<1>5. OrderInv'
  <2>1. \A u \in Threads : thr'[u].batch = thr[u].batch
    BY <1>3
  <2> QED BY <1>1, <2>1 DEF SafeInv, OrderInv, Taken, mapVars, sendVars
<1>6. TimeOutInv'
  BY <1>1, <1>3, <1>4 DEF SafeInv, TimeOutInv, AllLost, mapVars
<1>7. QuietInv' /\ HighLossInv'
  BY <1>1, <1>3, <1>4 DEF SafeInv, QuietInv, HighLossInv, AllLost, Threads, mapVars
<1>8. DecidingInv' /\ HighLossSafe'
  BY <1>1, FeedbackKeeps DEF mapVars
<1> QED BY <1>5, <1>6, <1>7, <1>8 DEF SafeInv

LEMMA LookUpSafe ==
  ASSUME Inv, SafeInv, NEW t \in Threads, LookUp(t)
  PROVE  SafeInv'
<1> DEFINE batch == thr[t].batch
           start == Minus(batch[1].timer, Nanoseconds(1))
           end == Plus(batch[Len(batch)].timer, Nanoseconds(1))
           loss_arr == CalcLossRates(records, start, end, RateSet)
<1>1. thr[t].pc = "lookup" /\ UNCHANGED <<cfg, mapVars, sendVars, flight, base, lost>>
  BY DEF LookUp
<1>2. thr[t] \in ThreadState /\ batch # <<>> /\ records \in Seq(Record) /\ thr \in [Threads -> ThreadState]
  BY <1>1 DEF Inv, PacketsInv, ThreadInv, Resumable
<1>3. thr' = [thr EXCEPT ![t].pc = "update", ![t].ind = 1, ![t].loss_arr = loss_arr]
  BY DEF LookUp
<1> HIDE DEF loss_arr
<1>4. /\ thr'[t].pc = "update" /\ thr'[t].loss_arr = loss_arr /\ thr'[t].batch = batch
      /\ \A u \in Threads : u # t => thr'[u] = thr[u]
  BY <1>2, <1>3 DEF ThreadState
<1>5. lost # "setting" /\ (AllLost => t = "time_out")
  BY <1>1, OnlyTimeOut
<1>6. batch[1].timer \in SendTimes
  <2>1. batch \in Seq(Record)
    BY <1>2 DEF ThreadState
  <2> HIDE DEF batch
  <2>2. batch # <<>> => Len(batch) \in Nat \ {0}
    BY <2>1, EmptySeq, LenProperties
  <2>3. 1 \in 1 .. Len(batch)
    BY <1>2, <2>2 DEF batch
  <2>4. batch[1] \in Record
    BY <2>1, <2>3, ElementOfSeq
  <2> QED BY <2>4 DEF Record
<1>7. AllLost => \A r \in RateSet : loss_arr[r] \in {Unit, INVALID_LOSS_RATE}
  <2> SUFFICES ASSUME AllLost, NEW r \in RateSet PROVE loss_arr[r] \in {Unit, INVALID_LOSS_RATE}
    OBVIOUS
  <2>1. OnlyLost(records, batch)
    BY <1>1, <1>5 DEF SafeInv, TimeOutInv
  <2> HIDE DEF batch
  <2>2. /\ \A i \in DOMAIN records : ~Less(records[i].timer, batch[1].timer) => ~records[i].acked
        /\ \A i, j \in DOMAIN records :
             i < j /\ ~Less(records[i].timer, batch[1].timer) => ~Less(records[j].timer, batch[1].timer)
    BY <2>1 DEF OnlyLost, Late
  <2> QED BY <1>2, <1>6, <2>2, LookupLost DEF loss_arr
<1>8. OrderInv'
  <2>1. \A u \in Threads : thr'[u].batch = thr[u].batch
    BY <1>4
  <2> QED BY <1>1, <2>1 DEF SafeInv, OrderInv, Taken, mapVars, sendVars
<1>9. TimeOutInv'
  BY <1>1, <1>4, <1>5, <1>7 DEF TimeOutInv, AllLost
<1>10. QuietInv' /\ HighLossInv'
  BY <1>1, <1>4, <1>5 DEF SafeInv, QuietInv, HighLossInv, AllLost, Threads, mapVars
<1>11. DecidingInv' /\ HighLossSafe'
  BY <1>1, FeedbackKeeps DEF mapVars
<1> QED BY <1>8, <1>9, <1>10, <1>11 DEF SafeInv

LEMMA UpdateBackSafe ==
  ASSUME Inv, SafeInv, NEW t \in Threads, UpdateBack(t)
  PROVE  SafeInv'
<1> DEFINE i == thr[t].ind
           r == Rates[i]
           loss == thr[t].loss_arr[r]
<1>1. ThreadInv /\ MapsInv /\ thr[t].pc = "update" /\ i \in RateInd
      /\ UNCHANGED <<cfg, records, timeouts, sendVars, flight, base, lost>>
  BY DEF Inv, ThreadInv, Resumable, UpdateBack
<1>2. r \in RateSet
  BY <1>1, ConstantsTyped
<1>3. loss_map' = [loss_map EXCEPT !.back[r] = UpdateLoss(@, loss, kPrevWeight)]
  BY DEF UpdateBack
<1>4. Step(t, "update", i + 1) \/ Go(t, "idle", <<>>)
  BY DEF UpdateBack
<1>5. lost # "setting" /\ (AllLost => t = "time_out")
  BY <1>1, OnlyTimeOut
<1> HIDE DEF i, r, loss
<1>6. /\ \A u \in Threads : u # t => thr'[u] = thr[u]
      /\ \/ thr'[t].pc = "update" /\ thr'[t].batch = thr[t].batch /\ thr'[t].loss_arr = thr[t].loss_arr
         \/ thr'[t].pc = "idle" /\ thr'[t].batch = <<>>
  <2>1. CASE Step(t, "update", i + 1)
    BY <1>1, <2>1, StepDoes
  <2>2. CASE Go(t, "idle", <<>>)
    BY <1>1, <2>2, GoDoes
  <2> QED BY <1>4, <2>1, <2>2
<1>7. /\ loss_map'.combine = loss_map.combine /\ loss_map'.front = loss_map.front
      /\ \A q \in RateSet : loss_map'.back[q] = IF q = r THEN UpdateLoss(loss_map.back[r], loss, kPrevWeight)
                                                ELSE loss_map.back[q]
  BY <1>1, <1>2, <1>3 DEF MapsInv, Maps
<1>8. OrderInv'
  <2>1. \A u \in Threads : thr'[u].batch = thr[u].batch \/ thr'[u].batch = <<>>
    BY <1>6
  <2>2. \A u \in Threads : \A j \in DOMAIN thr'[u].batch : Known(thr'[u].batch[j], Taken)
    BY <2>1 DEF SafeInv, OrderInv
  <2>3. Taken' = Taken
    BY <1>1 DEF Taken, sendVars
  <2> QED BY <1>1, <2>2, <2>3 DEF SafeInv, OrderInv
<1>9. TimeOutInv'
  BY <1>1, <1>5, <1>6 DEF SafeInv, TimeOutInv, AllLost
<1>10. QuietInv'
  BY <1>1, <1>5, <1>6 DEF SafeInv, QuietInv, AllLost, Threads
<1>11. HighLossInv'
  <2> SUFFICES ASSUME AllLost PROVE \A q \in RateSet : loss_map'.front[q] = Unit /\ loss_map'.back[q] = Unit
    BY <1>1, <1>5 DEF HighLossInv, AllLost
  <2>1. loss \in {Unit, INVALID_LOSS_RATE}
    BY <1>1, <1>2, <1>5 DEF SafeInv, TimeOutInv, loss
  <2>2. \A q \in RateSet : loss_map.front[q] = Unit /\ loss_map.back[q] = Unit
    BY DEF SafeInv, HighLossInv
  <2> QED BY <1>2, <1>7, <2>1, <2>2, UnitStays
<1>12. DecidingInv' /\ HighLossSafe'
  BY <1>1, <1>7, FeedbackKeeps
<1> QED BY <1>8, <1>9, <1>10, <1>11, <1>12 DEF SafeInv

LEMMA FeedbackSafe ==
  ASSUME Inv, SafeInv, Feedback
  PROVE  SafeInv'
<1>1. ASSUME NEW num \in 1 .. TheSmaller(cfg.known, Len(flight)), TakeKnown(num)
      PROVE  SafeInv'
  <2>1. Len(flight) \in Nat /\ cfg.known \in Nat
    BY LenProperties, ControlAssumption DEF Inv, PacketsInv
  <2>2. num \in 1 .. Len(flight)
    BY <2>1 DEF TheSmaller
  <2> QED BY <1>1, <2>2, TakeKnownSafe
<1> QED BY <1>1, TimeOutLimitSafe, SetHighLossSafe, TakeRestSafe, InsertFeedbackSafe, BaselineRecordedSafe,
           LookUpSafe, UpdateBackSafe DEF Feedback

-----------------------------------------------------------------------------
(* The sender: what it begins while the losses are 1, it ends with them.   *)

LEMMA StartDecisionSafe ==
  ASSUME Inv, SafeInv, StartDecision
  PROVE  SafeInv'
<1>1. UNCHANGED <<cfg, records, flight, timeouts, thr, loss_map, rate, feasible, decision, sent, base>>
  BY DEF StartDecision, SendStep
<1>2. \/ /\ snd.pc = "ready" /\ snd'.pc \in {"scout", "combine"} /\ snd'.ind = 1
         /\ lost' = IF lost = "yes" THEN "deciding" ELSE lost
      \/ snd.pc = "batch" /\ snd'.pc = "fec" /\ lost' = lost
  BY DEF StartDecision, SendStep, Resting
<1>3. OrderInv' /\ QuietInv' /\ TimeOutInv' /\ HighLossInv'
  BY <1>1, <1>2, SenderLeaves DEF AllLost
<1>4. DecidingInv'
  BY <1>1, <1>2 DEF SafeInv, DecidingInv
<1>5. HighLossSafe'
  BY <1>2 DEF HighLossSafe
<1> QED BY <1>3, <1>4, <1>5 DEF SafeInv

LEMMA ForgetScoutSafe ==
  ASSUME Inv, SafeInv, ForgetScout
  PROVE  SafeInv'
<1>1. UNCHANGED <<cfg, records, flight, timeouts, thr, rate, feasible, decision, sent, base, lost>>
      /\ MapsInv /\ snd \in SenderState /\ snd.pc = "scout"
  BY DEF Inv, SenderInv, ForgetScout, SendStep
<1>2. snd'.pc = "scout" \/ (snd'.pc = "feasible" /\ snd'.ind = 1)
  BY <1>1 DEF ForgetScout, SendStep, SenderState
<1>3. loss_map'.front = loss_map.front /\ loss_map'.back = loss_map.back
  BY <1>1 DEF MapsInv, Maps, ForgetScout
<1>4. OrderInv' /\ QuietInv' /\ TimeOutInv' /\ HighLossInv'
  BY <1>1, <1>3, SenderLeaves
<1>5. DecidingInv' /\ HighLossSafe'
  BY <1>1, <1>2 DEF DecidingInv, HighLossSafe
<1> QED BY <1>4, <1>5 DEF SafeInv

LEMMA FindFeasibleSafe ==
  ASSUME Inv, SafeInv, FindFeasible
  PROVE  SafeInv'
<1>1. UNCHANGED <<cfg, records, flight, timeouts, thr, loss_map, rate, decision, sent, base, lost>>
      /\ snd \in SenderState /\ snd.pc = "feasible"
  BY DEF Inv, SenderInv, FindFeasible, SendStep
<1>2. snd'.pc = "combine" /\ snd'.ind = snd.ind
  BY <1>1 DEF FindFeasible, SendStep, SenderState
<1>3. OrderInv' /\ QuietInv' /\ TimeOutInv' /\ HighLossInv'
  BY <1>1, SenderLeaves
<1>4. DecidingInv' /\ HighLossSafe'
  BY <1>1, <1>2 DEF SafeInv, DecidingInv, HighLossSafe
<1> QED BY <1>3, <1>4 DEF SafeInv

LEMMA ReadScoutSafe ==
  ASSUME Inv, SafeInv, ReadScout
  PROVE  SafeInv'
<1>1. UNCHANGED <<cfg, records, flight, timeouts, thr, loss_map, rate, feasible, decision, sent, base, lost>>
      /\ snd \in SenderState /\ snd.pc = "combine"
  BY DEF Inv, SenderInv, ReadScout, SendStep
<1>2. snd'.pc = "front" /\ snd'.ind = snd.ind
  BY <1>1 DEF ReadScout, SendStep, SenderState
<1>3. OrderInv' /\ QuietInv' /\ TimeOutInv' /\ HighLossInv'
  BY <1>1, SenderLeaves
<1>4. DecidingInv' /\ HighLossSafe'
  BY <1>1, <1>2 DEF SafeInv, DecidingInv, HighLossSafe
<1> QED BY <1>3, <1>4 DEF SafeInv

LEMMA ReadFrontSafe ==
  ASSUME Inv, SafeInv, ReadFront
  PROVE  SafeInv'
<1>1. UNCHANGED <<cfg, records, flight, timeouts, thr, loss_map, rate, feasible, decision, sent, base, lost>>
      /\ snd \in SenderState /\ snd.pc \in {"combine", "front"}
  BY DEF Inv, SenderInv, ReadFront, SendStep
<1>2. snd'.pc = "back" /\ snd'.ind = snd.ind /\ snd'.front = loss_map.front[Rates[snd.ind]]
  BY <1>1 DEF ReadFront, SendStep, SenderState
<1>3. OrderInv' /\ QuietInv' /\ TimeOutInv' /\ HighLossInv'
  BY <1>1, SenderLeaves
<1>4. AllLost => snd'.front = Unit
  BY <1>1, <1>2, ConstantsTyped DEF SafeInv, HighLossInv, SenderState
<1>5. DecidingInv' /\ HighLossSafe'
  BY <1>1, <1>2, <1>4 DEF SafeInv, DecidingInv, HighLossSafe, AllLost
<1> QED BY <1>3, <1>5 DEF SafeInv

LEMMA ReadBackSafe ==
  ASSUME Inv, SafeInv, ReadBack
  PROVE  SafeInv'
<1> DEFINE r == Rates[snd.ind]
           both == Combined(cfg.version, snd.scout, snd.front, loss_map.back[r])
<1>1. UNCHANGED <<cfg, records, flight, timeouts, thr, rate, feasible, decision, sent, base, lost>>
      /\ MapsInv /\ snd \in SenderState /\ (snd.pc = "back" \/ cfg.version \in BackOnly)
  BY DEF Inv, SenderInv, ReadBack, SendStep
<1>2. snd.ind \in 1 .. Len(Rates) /\ Len(Rates) \in Nat /\ r \in RateSet
  BY <1>1, ConstantsTyped DEF SenderState
<1>3. \/ snd.ind < Len(Rates) /\ snd'.pc = "combine" /\ snd'.ind = snd.ind + 1
      \/ ~(snd.ind < Len(Rates)) /\ snd'.pc = "rate"
  BY <1>1 DEF ReadBack, SendStep, SenderState
<1>4. loss_map' = [loss_map EXCEPT !.combine[r] = UpdateLoss(@, both, NoHistory)]
  BY DEF ReadBack
<1> HIDE DEF r, both
<1>5. /\ loss_map'.front = loss_map.front /\ loss_map'.back = loss_map.back
      /\ \A q \in RateSet : loss_map'.combine[q] = IF q = r THEN both ELSE loss_map.combine[q]
  BY <1>1, <1>2, <1>4, UnitStays DEF MapsInv, Maps
<1>6. OrderInv' /\ QuietInv' /\ TimeOutInv' /\ HighLossInv'
  BY <1>1, <1>5, SenderLeaves
<1>7. ASSUME lost = "deciding", cfg.version \notin BackOnly
      PROVE  \A i \in 1 .. snd.ind : loss_map'.combine[Rates[i]] = Unit
  <2>1. both = Unit
    <3>1. snd.front = Unit /\ loss_map.back[r] = Unit
      BY <1>1, <1>2, <1>7 DEF SafeInv, DecidingInv, HighLossInv, AllLost
    <3>2. snd.scout \in LossRate
      BY <1>1 DEF SenderState
    <3> QED BY <1>7, <3>1, <3>2, UnitStays DEF both
  <2>2. \A i \in 1 .. snd.ind - 1 : loss_map.combine[Rates[i]] = Unit
    BY <1>1, <1>7 DEF SafeInv, DecidingInv
  <2>3. ASSUME NEW i \in 1 .. snd.ind PROVE loss_map'.combine[Rates[i]] = Unit
    <3>1. i \in RateInd /\ Rates[i] \in RateSet
      BY <1>2, ConstantsTyped
    <3>2. CASE i = snd.ind
      BY <1>5, <2>1, <3>1, <3>2 DEF r
    <3>3. CASE i # snd.ind
      <4>1. i \in 1 .. snd.ind - 1
        BY <1>2, <3>3
      <4> QED BY <1>5, <2>1, <2>2, <3>1, <4>1
    <3> QED BY <3>2, <3>3
  <2> QED BY <2>3
<1>8. DecidingInv'
  <2> SUFFICES ASSUME lost = "deciding", cfg.version \notin BackOnly
               PROVE  /\ snd'.pc = "combine" => \A i \in 1 .. snd'.ind - 1 : loss_map'.combine[Rates[i]] = Unit
                      /\ snd'.pc = "rate" => \A q \in RateSet : loss_map'.combine[q] = Unit
    BY <1>1, <1>3 DEF DecidingInv
  <2>1. CASE snd.ind < Len(Rates)
    <3>1. snd'.pc = "combine" /\ snd'.ind - 1 = snd.ind
      BY <1>2, <1>3, <2>1
    <3> QED BY <1>7, <3>1
  <2>2. CASE ~(snd.ind < Len(Rates))
    <3>1. snd'.pc = "rate" /\ RateInd = 1 .. snd.ind
      BY <1>2, <1>3, <2>2, ConstantsTyped
    <3> QED BY <1>7, <3>1 DEF RateSet
  <2> QED BY <2>1, <2>2
<1>9. HighLossSafe'
  BY <1>3 DEF HighLossSafe
<1> QED BY <1>6, <1>8, <1>9 DEF SafeInv

LEMMA ChooseRateSafe ==
  ASSUME Inv, SafeInv, ChooseRate
  PROVE  SafeInv'
<1>1. UNCHANGED <<cfg, records, flight, timeouts, thr, loss_map, feasible, decision, sent, base, lost>>
      /\ MapsInv /\ snd \in SenderState /\ snd.pc = "rate"
  BY DEF Inv, SenderInv, ChooseRate, SendStep
<1>2. snd'.pc = "fec" /\ rate' = ApplyRate(cfg.version, loss_map.combine, feasible, rate)
  BY <1>1 DEF ChooseRate, SendStep, SenderState
<1>3. OrderInv' /\ QuietInv' /\ TimeOutInv' /\ HighLossInv'
  BY <1>1, SenderLeaves
<1>4. lost = "deciding" /\ cfg.version \notin BackOnly => rate' = Rates[1]
  <2> SUFFICES ASSUME lost = "deciding", cfg.version \notin BackOnly PROVE rate' = Rates[1]
    OBVIOUS
  <2>1. \A r \in RateSet : loss_map.combine[r] = Unit
    BY <1>1 DEF SafeInv, DecidingInv
  <2>2. loss_map.combine \in [RateSet -> LossRate]
    BY <1>1 DEF MapsInv, Maps
  <2> QED BY <1>2, <2>1, <2>2, LowestChosen
<1>5. DecidingInv' /\ HighLossSafe'
  BY <1>1, <1>2, <1>4 DEF DecidingInv, HighLossSafe
<1> QED BY <1>3, <1>5 DEF SafeInv

LEMMA AskBaselineSafe ==
  ASSUME Inv, SafeInv, AskBaseline
  PROVE  SafeInv'
<1>1. UNCHANGED <<cfg, records, flight, timeouts, thr, loss_map, rate, feasible, decision, sent, lost>>
      /\ snd \in SenderState /\ cfg.version \in BackOnly
  BY DEF Inv, SenderInv, AskBaseline, SendStep, BackOnly
<1>2. OrderInv' /\ QuietInv' /\ TimeOutInv' /\ HighLossInv'
  BY <1>1, SenderLeaves
<1>3. DecidingInv' /\ HighLossSafe'
  BY <1>1 DEF DecidingInv, HighLossSafe
<1> QED BY <1>2, <1>3 DEF SafeInv

LEMMA BaselineAnswersSafe ==
  ASSUME Inv, SafeInv, BaselineAnswers
  PROVE  SafeInv'
<1>1. UNCHANGED <<cfg, records, flight, timeouts, thr, loss_map, feasible, decision, sent, lost>>
      /\ snd.pc \in {"rate asked", "rates asked"}
  BY DEF BaselineAnswers, SendStep
<1>2. snd'.pc # "batch"
  BY DEF Inv, SenderInv, SenderState, BaselineAnswers, SendStep
<1>3. OrderInv' /\ QuietInv' /\ TimeOutInv' /\ HighLossInv'
  BY <1>1, SenderLeaves
<1>4. DecidingInv' /\ HighLossSafe'
  BY <1>1, <1>2 DEF SafeInv, DecidingInv, HighLossSafe
<1> QED BY <1>3, <1>4 DEF SafeInv

LEMMA ChooseFECSafe ==
  ASSUME Inv, SafeInv, ChooseFEC
  PROVE  SafeInv'
<1>1. UNCHANGED <<cfg, records, flight, timeouts, thr, loss_map, rate, feasible, decision, sent, base, lost>>
      /\ snd \in SenderState /\ snd.pc = "fec" /\ cfg \in Configs
  BY DEF Inv, PacketsInv, SenderInv, ChooseFEC, SendStep
<1>2. snd'.pc = "stopped" \/ (snd'.pc = "rates" /\ snd'.dup = IsDuplicate(snd.mode))
  <2> DEFINE dup == IsDuplicate(snd.mode)
  <2>1. PICK kn \in ApplyFEC(snd.mode, cfg.use_fec, loss_map.combine[rate], rate, snd.k) :
          snd' = IF kn[2] < kn[1] THEN [snd EXCEPT !.pc = "stopped"]
                 ELSE [snd EXCEPT !.pc = "rates", !.k = kn[1], !.n = IF dup THEN kn[1] ELSE kn[2],
                                  !.dup = dup, !.rate_arr = <<rate>>]
    BY DEF ChooseFEC, SendStep
  <2> HIDE DEF dup
  <2>2. snd'.pc = "stopped" \/ (snd'.pc = "rates" /\ snd'.dup = dup)
    BY <1>1, <2>1 DEF SenderState
  <2> QED BY <2>2 DEF dup
<1>3. rate = Rates[1] => IsDuplicate(snd.mode) = cfg.enable_duplicate
  <2>1. cfg.enable_duplicate \in BOOLEAN
    BY <1>1, ControlAssumption
  <2> QED BY <2>1, Zenon DEF IsDuplicate, IsBootstrapping
<1>4. OrderInv' /\ QuietInv' /\ TimeOutInv' /\ HighLossInv'
  BY <1>1, SenderLeaves
<1>5. DecidingInv'
  <2> SUFFICES ASSUME lost = "deciding", cfg.version \notin BackOnly
               PROVE  rate = Rates[1] /\ (snd'.pc = "rates" => snd'.dup = cfg.enable_duplicate)
    BY <1>1, <1>2 DEF DecidingInv
  <2>1. rate = Rates[1]
    BY <1>1 DEF SafeInv, DecidingInv
  <2> QED BY <1>2, <1>3, <2>1
<1>6. HighLossSafe'
  BY <1>2 DEF HighLossSafe
<1> QED BY <1>4, <1>5, <1>6 DEF SafeInv

LEMMA DecisionMadeSafe ==
  ASSUME Inv, SafeInv, DecisionMade
  PROVE  SafeInv'
<1>1. UNCHANGED <<cfg, records, flight, timeouts, thr, loss_map, rate, feasible, sent, base>>
      /\ snd.pc = "rates" /\ lost' = IF lost = "deciding" THEN "yes" ELSE lost
  BY DEF DecisionMade, SendStep
<1>2. decision'.dup = snd.dup /\ decision'.lost = (lost = "deciding")
  <2>1. \E k, n, rate_arr : decision' = [mode |-> snd.mode, k |-> k, n |-> n, rate_arr |-> rate_arr,
                                         dup |-> snd.dup, lost |-> lost = "deciding"]
    BY Zenon DEF DecisionMade
  <2> QED BY <2>1
<1>3. OrderInv' /\ QuietInv' /\ TimeOutInv' /\ HighLossInv'
  BY <1>1, SenderLeaves DEF AllLost
<1>4. DecidingInv'
  BY <1>1 DEF DecidingInv
<1>5. HighLossSafe'
  BY <1>1, <1>2 DEF SafeInv, DecidingInv, HighLossSafe
<1> QED BY <1>3, <1>4, <1>5 DEF SafeInv

LEMMA SendCodedBatchSafe ==
  ASSUME Inv, SafeInv, SendCodedBatch
  PROVE  SafeInv'
<1> DEFINE most == TheSmaller(TheSmaller(MaxFollowed, cfg.pkts - sent), decision.n)
           pkt(followed, i) ==
             [timer |-> SentAt(sent + i), rate |-> decision.rate_arr[decision.n - followed + i]]
<1>1. UNCHANGED <<cfg, mapVars, rate, feasible, thr, base, lost>> /\ snd' = Resting /\ snd.pc = "batch"
  BY DEF SendCodedBatch
<1>2. PICK followed \in TheSmaller(1, most) .. most :
        /\ flight' = flight \o [i \in 1 .. followed |-> pkt(followed, i)]
        /\ sent' = sent + followed
  BY DEF SendCodedBatch
<1>3. PacketsInv /\ sent \in Nat /\ Len(flight) \in Nat /\ Taken \in Nat /\ Taken = sent - Len(flight)
      /\ DOMAIN flight = 1 .. Len(flight)
  BY TakenTyped DEF Inv, Taken
<1> DEFINE pkts == [i \in 1 .. followed |-> pkt(followed, i)]
<1>4. followed \in Nat
  <2>1. decision.n \in Nat
    <3>1. decision.k \in 1 .. kMaxK /\ decision.n \in decision.k .. gf_size
      BY <1>1 DEF Inv, DecisionInv
    <3> QED BY <3>1, ConstantsTyped
  <2>2. MaxFollowed \in Nat /\ cfg.pkts - sent \in Nat
    BY <1>3, ControlAssumption DEF PacketsInv
  <2> QED BY <1>2, <2>1, <2>2 DEF TheSmaller
<1>5. DOMAIN pkts = 1 .. followed /\ \A i \in 1 .. followed : pkts[i].timer = SentAt(sent + i)
  OBVIOUS
<1>6. flight' = flight \o pkts
  BY <1>2
<1> HIDE DEF pkts, pkt, most
<1>7. Len(pkts) = followed
  BY <1>4, <1>5
<1>8. /\ Len(flight') = Len(flight) + followed /\ DOMAIN flight' = 1 .. Len(flight) + followed
      /\ \A i \in 1 .. Len(flight) + followed :
           flight'[i] = IF i <= Len(flight) THEN flight[i] ELSE pkts[i - Len(flight)]
  BY <1>3, <1>4, <1>6, <1>7
<1>9. Taken' = Taken
  <2>1. Taken' = sent' - Len(flight')
    BY DEF Taken
  <2> QED BY <1>2, <1>3, <1>4, <1>8, <2>1
<1>10. OrderInv'
  <2>1. ASSUME NEW i \in DOMAIN flight' PROVE flight'[i].timer = SentAt(Taken + i)
    <3>1. i \in 1 .. Len(flight) + followed
      BY <1>8
    <3>2. CASE i <= Len(flight)
      <4>1. i \in DOMAIN flight /\ flight'[i] = flight[i]
        BY <1>3, <1>8, <3>1, <3>2
      <4> QED BY <4>1 DEF SafeInv, OrderInv
    <3>3. CASE ~(i <= Len(flight))
      <4>1. i - Len(flight) \in 1 .. followed /\ sent + (i - Len(flight)) = Taken + i
        BY <1>3, <1>4, <3>1, <3>3
      <4>2. flight'[i] = pkts[i - Len(flight)]
        BY <1>8, <3>1, <3>3
      <4> QED BY <1>5, <4>1, <4>2
    <3> QED BY <3>2, <3>3
  <2>2. UNCHANGED <<records, thr>>
    BY <1>1 DEF mapVars
  <2> QED BY <1>9, <2>1, <2>2 DEF SafeInv, OrderInv
<1>11. QuietInv' /\ TimeOutInv' /\ HighLossInv'
  BY <1>1 DEF SafeInv, QuietInv, TimeOutInv, HighLossInv, AllLost, mapVars
<1>12. DecidingInv'
  BY <1>1 DEF SafeInv, DecidingInv
<1>13. HighLossSafe'
  BY <1>1 DEF HighLossSafe, Resting
<1> QED BY <1>10, <1>11, <1>12, <1>13 DEF SafeInv

LEMMA SenderSafe ==
  ASSUME Inv, SafeInv, Sender
  PROVE  SafeInv'
BY StartDecisionSafe, ForgetScoutSafe, FindFeasibleSafe, ReadScoutSafe, ReadFrontSafe, ReadBackSafe, ChooseRateSafe,
   AskBaselineSafe, BaselineAnswersSafe, ChooseFECSafe, DecisionMadeSafe, SendCodedBatchSafe DEF Sender

LEMMA InitSafe == Init => SafeInv
<1> SUFFICES ASSUME Init PROVE SafeInv
  OBVIOUS
<1>1. records = <<>> /\ flight = <<>> /\ lost = "no" /\ snd = Resting
      /\ thr = [t \in Threads |-> Idle]
  BY DEF Init
<1>2. OrderInv
  BY <1>1 DEF OrderInv, Idle
<1> QED BY <1>1, <1>2 DEF SafeInv, QuietInv, TimeOutInv, HighLossInv, AllLost, DecidingInv, HighLossSafe, Resting

LEMMA SafeStutters ==
  ASSUME SafeInv, UNCHANGED vars
  PROVE  SafeInv'
<1>1. OrderInv' /\ QuietInv' /\ TimeOutInv' /\ HighLossInv'
  BY SenderLeaves DEF vars
<1>2. DecidingInv' /\ HighLossSafe'
  BY FeedbackKeeps DEF vars, sendVars
<1> QED BY <1>1, <1>2 DEF SafeInv

(***************************************************************************)
(* Once SetHighLoss has set all losses to 1, and until a raw ack comes,    *)
(* every decision of a version that combines the losses of both antennas   *)
(* goes to the lowest rate and duplicates the batch if that is enabled,    *)
(* whatever the timeout handler goes on to insert and in between which     *)
(* reads of the sender it updates the map of the back antenna              *)
(* (scout_rate.cc:211, 287).                                               *)
(***************************************************************************)
THEOREM HighLossIsSafe == Spec => []HighLossSafe
<1>1. Inv /\ SafeInv /\ [Next]_vars => SafeInv'
  BY FeedbackSafe, SenderSafe, SafeStutters DEF Next, Stopped
<1>2. SafeInv => HighLossSafe
  BY DEF SafeInv
<1> QED BY <1>1, <1>2, InitSafe, InvHolds, PTL DEF Spec

-----------------------------------------------------------------------------
(* SampleRate.                                                             *)

\* The average SampleUpdate gives a rate.
AverageOf(entry, i) ==
  IF entry.acked = 0 THEN Infinite ELSE (entry.sent * TxTime(i)) \div entry.acked

\* The averages are those of the counters, or ApplyRate will recompute them.
Averaged(table) == table.update \/ \A i \in RateInd : table.rate[i].avg = AverageOf(table.rate[i], i)
AverageInv == cfg.version = "SampleRate" /\ ~base.raced => Averaged(base.table)

\* A packet is in the air, with a thread that will insert it, or in the history.
Pending(st) == IF st.pc \in {"insert", "record"} THEN Len(st.batch) + 1 - st.ind ELSE 0
HistoryInv == Len(base.history) + Len(flight) + Pending(thr["raw_ack"]) + Pending(thr["time_out"]) <= sent

SampleInv == AverageInv /\ HistoryInv

-----------------------------------------------------------------------------
(* What ApplyRate makes of the counters.                                   *)

LEMMA CountBounded ==
  ASSUME NEW history \in Seq(Record), NEW pkts
  PROVE  /\ CountFrom(history, 0, pkts) \in Nat /\ CountFrom(history, 0, pkts) <= Len(history)
         /\ CountFrom(history, 0, pkts) # 0 <=> \E h \in DOMAIN history : history[h] \in pkts
<1> DEFINE at == {h \in 0 + 1 .. Len(history) : history[h] \in pkts}
<1>1. Len(history) \in Nat /\ DOMAIN history = 1 .. Len(history) /\ 0 + 1 = 1
  BY LenProperties
<1>2. IsFiniteSet(at) /\ CountFrom(history, 0, pkts) \in Nat
  BY CountTyped
<1>3. IsFiniteSet(1 .. Len(history)) /\ Cardinality(1 .. Len(history)) = Len(history)
  BY <1>1, FS_Interval
<1>4. at \subseteq 1 .. Len(history)
  BY <1>1
<1>5. CountFrom(history, 0, pkts) = Cardinality(at)
  BY DEF CountFrom
<1>6. Cardinality(at) <= Len(history)
  <2> HIDE DEF at
  <2> QED BY <1>3, <1>4, FS_Subset
<1>7. Cardinality(at) # 0 <=> at # {}
  <2> HIDE DEF at
  <2> QED BY <1>2, FS_EmptySet
<1>8. at # {} <=> \E h \in DOMAIN history : history[h] \in pkts
  BY <1>1
<1> QED BY <1>2, <1>5, <1>6, <1>7, <1>8

\* An average of packets that fit in the history is a real one.
LEMMA AverageFinite ==
  ASSUME NEW i \in RateInd, NEW sent_pkts \in Nat, NEW acked_pkts \in Nat, sent_pkts * TxTime(i) < Infinite
  PROVE  AverageOf([sent |-> sent_pkts, acked |-> acked_pkts], i) < Infinite <=> acked_pkts # 0
<1> DEFINE time == sent_pkts * TxTime(i)
<1>1. time \in Nat /\ time < Infinite
  BY TxTimeTyped
<1>2. AverageOf([sent |-> sent_pkts, acked |-> acked_pkts], i)
        = IF acked_pkts = 0 THEN Infinite ELSE time \div acked_pkts
  BY DEF AverageOf
<1> HIDE DEF time
<1>3. CASE acked_pkts = 0
  BY <1>2, <1>3 DEF Infinite
<1>4. CASE acked_pkts # 0
  <2>1. 1 * time <= acked_pkts * time /\ 1 * time = time /\ acked_pkts * time = time * acked_pkts
    BY <1>1, <1>4, ProductOrder
  <2>2. time \div acked_pkts \in 0 .. time
    BY <1>1, <1>4, <2>1, QuotientBounds
  <2>3. time \div acked_pkts < Infinite
    BY <1>1, <2>2 DEF Infinite
  <2> QED BY <1>2, <1>4, <2>3
<1> QED BY <1>3, <1>4

LEMMA SampleUpdateAverages ==
  ASSUME NEW table \in RateTable, NEW is_reset \in BOOLEAN
  PROVE  LET new == SampleUpdate(table, is_reset)
         IN  /\ new.num_acked = table.num_acked /\ new.pkt_count = table.pkt_count
             /\ \A i \in RateInd : new.rate[i].avg = AverageOf(new.rate[i], i)
<1> DEFINE losses(i) == IF is_reset THEN 0 ELSE table.rate[i].conti_loss
           least(i) == IF table.rate[i].sent > 0 THEN TxTime(i) ELSE table.rate[i].min_avg
           avg(i) == AverageOf(table.rate[i], i)
           entry(i) == [table.rate[i] EXCEPT !.conti_loss = losses(i), !.min_avg = least(i), !.avg = avg(i)]
           rates == [i \in RateInd |-> entry(i)]
           new == [table EXCEPT !.rate = rates, !.update = FALSE]
<1>1. SampleUpdate(table, is_reset) = new
  BY DEF SampleUpdate, AverageOf
<1>2. \A i \in RateInd : table.rate[i] \in RateEntry
  BY DEF RateTable
<1> HIDE DEF losses, least, avg
<1>3. \A i \in RateInd : /\ entry(i).avg = avg(i) /\ entry(i).sent = table.rate[i].sent
                         /\ entry(i).acked = table.rate[i].acked
  BY <1>2 DEF RateEntry
<1> HIDE DEF entry
<1>4. new.rate = rates /\ new.num_acked = table.num_acked /\ new.pkt_count = table.pkt_count
  BY DEF RateTable
<1>5. \A i \in RateInd : rates[i] = entry(i)
  OBVIOUS
<1> HIDE DEF rates
<1>6. \A i \in RateInd : rates[i].avg = AverageOf(rates[i], i)
  BY <1>3, <1>5 DEF avg, AverageOf
<1> HIDE DEF new
<1> QED BY <1>1, <1>4, <1>6

\* ApplyRate of SampleRate works on a table t whose averages are up to date.
Applied(table, new, t, p, count) ==
  /\ new = [t EXCEPT !.pos = p, !.pkt_count = count]
  /\ SameCounts(t, table) /\ \A i \in RateInd : t.rate[i].avg = AverageOf(t.rate[i], i)
  /\ t.num_acked # 0 /\ (table.pkt_count + 1) % SampleEvery # 0 => p \in Fastest(t)

LEMMA SampleApplies ==
  ASSUME NEW table \in RateTable,
         \A i \in RateInd : table.rate[i].sent \in Nat /\ table.rate[i].acked \in Nat,
         Averaged(table), NEW new \in SampleApply(table)
  PROVE  \E t \in RateTable, p \in RateInd, count \in Nat : Applied(table, new, t, p, count)
<1> DEFINE fresh == IF table.update THEN {SampleUpdate(table, is_reset) : is_reset \in BOOLEAN} ELSE {table}
           counted == table.pkt_count + 1
           next(t) == IF t.num_acked = 0 THEN [count |-> counted % SampleEvery, to |-> Untried(t)]
                      ELSE IF counted % SampleEvery = 0 THEN [count |-> 0, to |-> Samples(t)]
                      ELSE [count |-> counted, to |-> Fastest(t)]
           applied(t) == {[t EXCEPT !.pos = p, !.pkt_count = next(t).count] : p \in next(t).to}
<1>1. SampleApply(table) = UNION {applied(t) : t \in fresh}
  BY DEF SampleApply
<1>2. PICK t \in fresh : new \in applied(t)
  <2> HIDE DEF applied, fresh
  <2> QED BY <1>1
<1>3. PICK p \in next(t).to : new = [t EXCEPT !.pos = p, !.pkt_count = next(t).count]
  BY <1>2
<1>4. /\ t \in RateTable /\ SameCounts(t, table)
      /\ \A i \in RateInd : t.rate[i].avg = AverageOf(t.rate[i], i)
  <2>1. CASE table.update
    <3>1. PICK is_reset \in BOOLEAN : t = SampleUpdate(table, is_reset)
      BY <2>1
    <3> QED BY <3>1, SampleUpdateTyped, SampleUpdateAverages
  <2>2. CASE ~table.update
    <3>1. t = table
      BY <2>2
    <3> QED BY <2>2, <3>1 DEF Averaged, SameCounts
  <2> QED BY <2>1, <2>2
<1> HIDE DEF fresh
<1> DEFINE count == next(t).count
<1>5. t.num_acked # 0 /\ counted % SampleEvery # 0 => p \in Fastest(t)
  BY <1>3
<1>6. new \in RateTable
  BY SampleApplyTyped
<1>7. p = new.pos /\ count = new.pkt_count
  <2> HIDE DEF count
  <2>1. new = [t EXCEPT !.pos = p, !.pkt_count = count]
    BY <1>3 DEF count
  <2> QED BY <1>4, <2>1 DEF RateTable
<1>8. p \in RateInd /\ count \in Nat
  BY <1>6, <1>7 DEF RateTable
<1>9. new = [t EXCEPT !.pos = p, !.pkt_count = count]
  BY <1>3
<1> HIDE DEF count, next
<1>10. Applied(table, new, t, p, count)
  BY <1>4, <1>5, <1>9 DEF Applied
<1> QED BY <1>4, <1>8, <1>10

\* With averages that are up to date and an ack in the history, the rate that is
\* fastest on average has one.
LEMMA FastestAnswered ==
  ASSUME NEW t \in RateTable,
         \A i \in RateInd : /\ t.rate[i].sent \in Nat /\ t.rate[i].acked \in Nat
                            /\ t.rate[i].sent * TxTime(i) < Infinite
                            /\ t.rate[i].avg = AverageOf(t.rate[i], i),
         NEW j \in RateInd, t.rate[j].acked # 0, NEW p \in Fastest(t)
  PROVE  t.rate[p].acked # 0
<1> DEFINE avgs == {t.rate[i].avg : i \in RateInd}
           least == Min(avgs)
           at == {i \in RateInd : t.rate[i].avg = least}
<1>1. RateInd \subseteq Nat /\ \A i \in RateInd : t.rate[i].avg \in Nat
  <2>1. RateInd \subseteq Nat
    BY ConstantsTyped
  <2>2. \A i \in RateInd : t.rate[i] \in RateEntry
    BY DEF RateTable
  <2> QED BY <2>1, <2>2 DEF RateEntry
<1>2. \A i \in RateInd : t.rate[i].avg < Infinite <=> t.rate[i].acked # 0
  <2> SUFFICES ASSUME NEW i \in RateInd PROVE t.rate[i].avg < Infinite <=> t.rate[i].acked # 0
    OBVIOUS
  <2>1. AverageOf(t.rate[i], i) = AverageOf([sent |-> t.rate[i].sent, acked |-> t.rate[i].acked], i)
    BY DEF AverageOf
  <2> QED BY <2>1, AverageFinite
<1>3. avgs \subseteq Nat /\ avgs # {}
  BY <1>1
<1>4. least \in avgs /\ \A avg \in avgs : least <= avg
  <2> HIDE DEF avgs
  <2> QED BY <1>3, LeastExists DEF Min
<1>5. t.rate[j].avg \in avgs
  OBVIOUS
<1>6. least \in Nat /\ least < Infinite
  <2>1. least \in Nat /\ least <= t.rate[j].avg /\ t.rate[j].avg < Infinite /\ t.rate[j].avg \in Nat
    BY <1>1, <1>2, <1>3, <1>4, <1>5
  <2> HIDE DEF least
  <2> QED BY <2>1 DEF Infinite
<1>7. at # {} /\ at \subseteq RateInd
  BY <1>4
<1>8. Fastest(t) = {IF least >= Infinite THEN t.pos ELSE Min(at)}
  BY DEF Fastest
<1>9. ~(least >= Infinite)
  <2> HIDE DEF least
  <2> QED BY <1>6 DEF Infinite
<1>10. p \in at
  <2>1. p = Min(at)
    BY <1>8, <1>9
  <2> HIDE DEF at
  <2>2. at \subseteq Nat
    BY <1>1, <1>7
  <2> QED BY <1>7, <2>1, <2>2, MinIn
<1>11. p \in RateInd /\ t.rate[p].avg = least
  BY <1>10
<1> HIDE DEF least
<1> QED BY <1>2, <1>6, <1>11

-----------------------------------------------------------------------------
(* The averages and the length of the history through every step.          *)

LEMMA AverageUnchanged ==
  ASSUME AverageInv, UNCHANGED <<cfg, base>>
  PROVE  AverageInv'
BY DEF AverageInv, Averaged

\* A thread that enters changes no table, or ends the claim about it.
LEMMA EnterAverages ==
  ASSUME BaselineInv, AverageInv, NEW who, Enter(who), cfg' = cfg
  PROVE  AverageInv' /\ Len(base'.history) <= Len(base.history)
<1>1. base \in BaselineState /\ Len(base.history) \in Nat
  BY LenProperties DEF BaselineInv, BaselineState
<1>2. CASE base.inside = {}
  <2>1. base' = [base EXCEPT !.inside = {who}]
    BY <1>2 DEF Enter
  <2>2. base'.table = base.table /\ base'.history = base.history /\ base'.raced = base.raced
    BY <1>1, <2>1 DEF BaselineState
  <2>3. AverageInv'
    BY <2>2 DEF AverageInv, Averaged
  <2> QED BY <1>1, <2>2, <2>3
<1>3. CASE base.inside # {}
  <2> DEFINE table == InitRateTable(cfg.version, TRUE)
  <2>1. base' = [base EXCEPT !.inside = @ \cup {who}, !.raced = TRUE, !.table = table, !.history = <<>>]
    BY <1>3 DEF Enter
  <2> HIDE DEF table
  <2>2. base'.raced /\ base'.history = <<>>
    BY <1>1, <2>1 DEF BaselineState
  <2>3. Len(base'.history) = 0
    BY <2>2
  <2> QED BY <1>1, <2>2, <2>3 DEF AverageInv
<1> QED BY <1>2, <1>3

\* What InsertRecord leaves asks ApplyRate to recompute.
LEMMA RecordAverages ==
  ASSUME Inv, AverageInv, NEW t \in Threads, BaselineRecorded(t)
  PROVE  AverageInv' /\ Len(base'.history) <= Len(base.history) + 1
<1> DEFINE pkt == thr[t].batch[thr[t].ind]
<1>1. PICK old \in 0 .. Len(base.history) :
        base' = Left(t, IF base.raced THEN base ELSE InsertRecord(cfg.version, base, pkt, old))
  BY DEF BaselineRecorded
<1>2. pkt \in Record
  <2>1. ThreadInv /\ thr[t] \in ThreadState /\ thr[t].ind \in 1 .. Len(thr[t].batch)
    BY DEF Inv, ThreadInv, Resumable, BaselineRecorded
  <2>2. thr[t].batch \in Seq(Record)
    BY <2>1 DEF ThreadState
  <2> QED BY <2>1, <2>2, ElementOfSeq
<1>3. base \in BaselineState /\ MatchesFrom(base.table, base.history, 0) /\ cfg' = cfg
  BY DEF Inv, BaselineInv, BaselineRecorded
<1>4. base.table \in RateTable /\ base.history \in Seq(Record) /\ Len(base.history) \in Nat
  BY <1>3, LenProperties DEF BaselineState
<1> HIDE DEF pkt
<1>5. CASE base.raced
  <2>1. base' = Left(t, base)
    BY <1>1, <1>5
  <2>2. base'.history = base.history /\ base'.raced
    BY <1>3, <1>5, <2>1 DEF Left, BaselineState
  <2> QED BY <1>4, <2>2 DEF AverageInv
<1>6. CASE ~base.raced
  <2>1. PICK table \in RateTable, history \in Seq(Record) :
          /\ InsertRecord(cfg.version, base, pkt, old) = [base EXCEPT !.table = table, !.history = history]
          /\ table.update /\ Len(history) <= Len(base.history) + 1
    <3>1. Recounted(base, InsertRecord(cfg.version, base, pkt, old))
      BY <1>2, <1>3, <1>4, InsertRecordMatches
    <3> QED BY <3>1 DEF Recounted
  <2>2. base' = Left(t, [base EXCEPT !.table = table, !.history = history])
    BY <1>1, <1>6, <2>1
  <2>3. base'.table = table /\ base'.history = history
    BY <1>3, <2>2 DEF Left, BaselineState
  <2> QED BY <2>1, <2>3 DEF AverageInv, Averaged
<1> QED BY <1>5, <1>6

LEMMA AnswerAverages ==
  ASSUME Inv, AverageInv, BaselineAnswers
  PROVE  AverageInv' /\ base'.history = base.history
<1>1. PICK answer \in BaselineRate("sender") : base' = answer.base
  BY DEF BaselineAnswers
<1>2. base \in BaselineState /\ MatchesFrom(base.table, base.history, 0) /\ BaselineAnswers
  BY DEF Inv, BaselineInv
<1>3. cfg' = cfg
  BY DEF BaselineAnswers, SendStep
<1>4. CASE base.raced
  <2>1. PICK r \in RateSet : answer = [rate |-> r, base |-> Left("sender", base)]
    BY <1>4 DEF BaselineRate
  <2>2. base' = Left("sender", base)
    BY <1>1, <2>1
  <2>3. base'.raced /\ base'.history = base.history
    BY <1>2, <1>4, <2>2 DEF Left, BaselineState
  <2> QED BY <2>3 DEF AverageInv
<1>5. CASE ~base.raced
  <2>1. PICK t \in BaselineApply(cfg.version, base.table) :
          answer = [rate |-> Rates[t.pos], base |-> Left("sender", [base EXCEPT !.table = t])]
    BY <1>5 DEF BaselineRate
  <2>2. base' = Left("sender", [base EXCEPT !.table = t])
    BY <1>1, <2>1
  <2>3. base'.table = t /\ base'.history = base.history
    BY <1>2, <2>2 DEF Left, BaselineState
  <2>4. ASSUME cfg.version = "SampleRate" PROVE Averaged(t)
    <3>1. t \in SampleApply(base.table) /\ base.table \in RateTable /\ Averaged(base.table)
      BY <1>2, <1>5, <2>1, <2>4 DEF BaselineApply, BaselineState, AverageInv
    <3>2. \A i \in RateInd : base.table.rate[i].sent \in Nat /\ base.table.rate[i].acked \in Nat
      <4>1. base.history \in Seq(Record)
        BY <1>2 DEF BaselineState
      <4> QED BY <1>2, <4>1, CountBounded DEF MatchesFrom
    <3>3. PICK u \in RateTable, p \in RateInd, count \in Nat : Applied(base.table, t, u, p, count)
      BY <3>1, <3>2, SampleApplies
    <3>4. t.rate = u.rate /\ \A i \in RateInd : u.rate[i].avg = AverageOf(u.rate[i], i)
      BY <3>3 DEF RateTable, Applied
    <3> QED BY <3>4 DEF Averaged
  <2>5. AverageInv'
    BY <1>3, <2>3, <2>4 DEF AverageInv, Averaged
  <2> QED BY <2>3, <2>5
<1> QED BY <1>4, <1>5

LEMMA PendingTyped ==
  ASSUME NEW st \in ThreadState, Resumable(st)
  PROVE  /\ Len(st.batch) \in Nat /\ Pending(st) \in Nat
         /\ st.pc \in {"insert", "record"} =>
              Pending(st) = Len(st.batch) + 1 - st.ind /\ st.ind \in 1 .. Len(st.batch)
         /\ st.pc \notin {"insert", "record"} => Pending(st) = 0
<1>1. Len(st.batch) \in Nat
  BY LenProperties DEF ThreadState
<1>2. CASE st.pc \in {"insert", "record"}
  <2>1. Pending(st) = Len(st.batch) + 1 - st.ind /\ st.ind \in 1 .. Len(st.batch)
    BY <1>2 DEF Pending, Resumable
  <2> QED BY <1>1, <1>2, <2>1
<1>3. CASE st.pc \notin {"insert", "record"}
  <2>1. Pending(st) = 0
    BY <1>3 DEF Pending
  <2> QED BY <1>1, <1>3, <2>1
<1> QED BY <1>2, <1>3

Numbers == /\ Pending(thr["raw_ack"]) \in Nat /\ Pending(thr["time_out"]) \in Nat
           /\ Len(flight) \in Nat /\ Len(base.history) \in Nat /\ sent \in Nat

LEMMA NumbersTyped == Inv => Numbers
<1> SUFFICES ASSUME Inv PROVE Numbers
  OBVIOUS
<1>1. \A t \in Threads : thr[t] \in ThreadState /\ Resumable(thr[t])
  BY DEF Inv, ThreadInv
<1>2. Pending(thr["raw_ack"]) \in Nat /\ Pending(thr["time_out"]) \in Nat
  BY <1>1, PendingTyped DEF Threads
<1>3. Len(flight) \in Nat
  BY LenProperties DEF Inv, PacketsInv
<1>4. Len(base.history) \in Nat
  BY LenProperties DEF Inv, BaselineInv, BaselineState
<1>5. sent \in Nat
  BY ControlAssumption DEF Inv, PacketsInv
<1> QED BY <1>2, <1>3, <1>4, <1>5 DEF Numbers

\* A step of one thread that makes no packets.
LEMMA HistoryMoves ==
  ASSUME Inv, Inv', HistoryInv, NEW t \in Threads, \A u \in Threads : u # t => thr'[u] = thr[u], sent' = sent,
         Len(base'.history) + Len(flight') + Pending(thr'[t]) <= Len(base.history) + Len(flight) + Pending(thr[t])
  PROVE  HistoryInv'
<1> DEFINE raw == Pending(thr["raw_ack"])
           out == Pending(thr["time_out"])
           raw2 == Pending(thr'["raw_ack"])
           out2 == Pending(thr'["time_out"])
           past == Len(base.history)
           past2 == Len(base'.history)
           air == Len(flight)
           air2 == Len(flight')
<1>1. raw \in Nat /\ out \in Nat /\ past \in Nat /\ air \in Nat /\ sent \in Nat
  BY NumbersTyped DEF Numbers
<1>2. Numbers'
  BY NumbersTyped, PTL
<1>3. raw2 \in Nat /\ out2 \in Nat /\ past2 \in Nat /\ air2 \in Nat
  BY <1>2 DEF Numbers
<1>4. past + air + raw + out <= sent
  BY DEF HistoryInv
<1>5. past2 + air2 + raw2 + out2 <= sent => HistoryInv'
  BY DEF HistoryInv
<1>6. CASE t = "raw_ack"
  <2>1. out2 = out /\ past2 + air2 + raw2 <= past + air + raw
    BY <1>6 DEF Threads
  <2> HIDE DEF raw, out, raw2, out2, past, past2, air, air2
  <2> QED BY <1>1, <1>3, <1>4, <1>5, <2>1
<1>7. CASE t = "time_out"
  <2>1. raw2 = raw /\ past2 + air2 + out2 <= past + air + out
    BY <1>7 DEF Threads
  <2> HIDE DEF raw, out, raw2, out2, past, past2, air, air2
  <2> QED BY <1>1, <1>3, <1>4, <1>5, <2>1
<1> QED BY <1>6, <1>7 DEF Threads

\* Inserting a packet takes it from its thread.
LEMMA InsertedPending ==
  ASSUME ThreadInv, NEW t \in Threads, thr[t].pc \in {"insert", "record"}, Inserted(t)
  PROVE  Pending(thr[t]) \in Nat /\ Pending(thr'[t]) = Pending(thr[t]) - 1
         /\ \A u \in Threads : u # t => thr'[u] = thr[u]
<1> DEFINE n == Len(thr[t].batch)
           i == thr[t].ind
           pc == IF i < n THEN "insert" ELSE "lookup"
<1>1. thr[t] \in ThreadState /\ Resumable(thr[t]) /\ Step(t, pc, i + 1)
  BY DEF ThreadInv, Inserted
<1>2. n \in Nat /\ i \in 1 .. n /\ Pending(thr[t]) = n + 1 - i
  BY <1>1, PendingTyped
<1>3. /\ thr'[t].pc = pc /\ thr'[t].ind = i + 1 /\ thr'[t].batch = thr[t].batch
      /\ \A u \in Threads : u # t => thr'[u] = thr[u]
  BY <1>1, StepDoes
<1>4. Pending(thr'[t]) = IF pc = "insert" THEN n + 1 - (i + 1) ELSE 0
  BY <1>3 DEF Pending
<1> HIDE DEF n, i
<1> QED BY <1>2, <1>3, <1>4

LEMMA FeedbackSamples ==
  ASSUME Inv, Inv', SampleInv, Feedback
  PROVE  SampleInv'
<1>0. ThreadInv /\ AverageInv /\ HistoryInv /\ BaselineInv /\ "raw_ack" \in Threads /\ "time_out" \in Threads
  BY DEF Inv, SampleInv, Threads
<1>1. Len(flight) \in Nat /\ Len(base.history) \in Nat /\ flight \in Seq(Pkt)
  BY NumbersTyped DEF Numbers, Inv, PacketsInv
<1>2. ASSUME NEW num \in 1 .. TheSmaller(cfg.known, Len(flight)), TakeKnown(num) PROVE SampleInv'
  <2>1. PICK good \in SUBSET (1 .. num) :
          Go("raw_ack", "insert", [i \in 1 .. num |-> Acked(flight[i], i \in good)])
    BY <1>2 DEF TakeKnown
  <2> DEFINE batch == [i \in 1 .. num |-> Acked(flight[i], i \in good)]
  <2>2. num \in 1 .. Len(flight) /\ num \in 0 .. Len(flight) /\ num \in Nat
    <3>1. cfg.known \in Nat
      BY ControlAssumption DEF Inv, PacketsInv
    <3> QED BY <1>1, <1>2, <3>1 DEF TheSmaller
  <2>3. Len(batch) = num
    BY <1>1, <2>2, FatesTyped
  <2> HIDE DEF batch
  <2>4. Go("raw_ack", "insert", batch)
    BY <2>1 DEF batch
  <2>5. /\ thr'["raw_ack"].pc = "insert" /\ thr'["raw_ack"].batch = batch /\ thr'["raw_ack"].ind = 1
        /\ \A u \in Threads : u # "raw_ack" => thr'[u] = thr[u]
    BY <1>0, <2>4, GoDoes
  <2>6. Pending(thr'["raw_ack"]) = num /\ Pending(thr["raw_ack"]) = 0
    BY <1>2, <2>2, <2>3, <2>5 DEF Pending, TakeKnown
  <2>7. UNCHANGED <<cfg, sent, base>> /\ Len(flight') = Len(flight) - num
    BY <1>1, <1>2, <2>2, SubSeqProperties DEF TakeKnown, sendVars
  <2>8. HistoryInv'
    BY <1>0, <1>1, <2>2, <2>5, <2>6, <2>7, HistoryMoves
  <2> QED BY <1>0, <2>7, <2>8, AverageUnchanged DEF SampleInv
<1>3. ASSUME TimeOutLimit PROVE SampleInv'
  <2>1. thr'["time_out"].pc = "high" /\ \A u \in Threads : u # "time_out" => thr'[u] = thr[u]
    BY <1>0, <1>3, GoDoes DEF TimeOutLimit
  <2>2. Pending(thr'["time_out"]) = 0 /\ Pending(thr["time_out"]) = 0
    BY <1>3, <2>1 DEF Pending, TimeOutLimit
  <2>3. UNCHANGED <<cfg, sent, base, flight>>
    BY <1>3 DEF TimeOutLimit, sendVars
  <2>4. HistoryInv'
    BY <1>0, <1>1, <2>1, <2>2, <2>3, HistoryMoves
  <2> QED BY <1>0, <2>3, <2>4, AverageUnchanged DEF SampleInv
<1>4. ASSUME SetHighLoss PROVE SampleInv'
  <2>1. PICK pc \in {"high", "clear"} : Step("time_out", pc, thr["time_out"].ind + 1)
    BY <1>4 DEF SetHighLoss
  <2>2. thr'["time_out"].pc = pc /\ \A u \in Threads : u # "time_out" => thr'[u] = thr[u]
    BY <1>0, <2>1, StepDoes
  <2>3. Pending(thr'["time_out"]) = 0 /\ Pending(thr["time_out"]) = 0
    BY <1>4, <2>2 DEF Pending, SetHighLoss
  <2>4. UNCHANGED <<cfg, sent, base, flight>>
    BY <1>4 DEF SetHighLoss, sendVars
  <2>5. HistoryInv'
    BY <1>0, <1>1, <2>2, <2>3, <2>4, HistoryMoves
  <2> QED BY <1>0, <2>4, <2>5, AverageUnchanged DEF SampleInv
<1>5. ASSUME TakeRest PROVE SampleInv'
  <2>1. UNCHANGED <<cfg, sent, base>> /\ flight' = <<>> /\ thr["time_out"].pc = "clear"
    BY <1>5 DEF TakeRest, sendVars
  <2>2. Len(flight') = 0 /\ Pending(thr["time_out"]) = 0
    BY <2>1 DEF Pending
  <2>3. /\ Pending(thr'["time_out"]) <= Len(flight) /\ Pending(thr'["time_out"]) \in Nat
        /\ \A u \in Threads : u # "time_out" => thr'[u] = thr[u]
    <3>1. CASE flight = <<>>
      <4>1. Go("time_out", "idle", <<>>)
        BY <1>5, <3>1 DEF TakeRest
      <4>2. thr'["time_out"].pc = "idle" /\ \A u \in Threads : u # "time_out" => thr'[u] = thr[u]
        BY <1>0, <4>1, GoDoes
      <4>3. Pending(thr'["time_out"]) = 0
        BY <4>2 DEF Pending
      <4> QED BY <1>1, <4>2, <4>3
    <3>2. CASE flight # <<>>
      <4> DEFINE batch == [i \in DOMAIN flight |-> Acked(flight[i], FALSE)]
      <4>1. DOMAIN flight = 1 .. Len(flight)
        BY <1>1, LenProperties
      <4>2. Len(batch) = Len(flight)
        BY <1>1, <4>1
      <4>3. Go("time_out", "insert", batch)
        BY <1>5, <3>2 DEF TakeRest
      <4> HIDE DEF batch
      <4>4. /\ thr'["time_out"].pc = "insert" /\ thr'["time_out"].batch = batch /\ thr'["time_out"].ind = 1
            /\ \A u \in Threads : u # "time_out" => thr'[u] = thr[u]
        BY <1>0, <4>3, GoDoes
      <4>5. Pending(thr'["time_out"]) = Len(flight)
        BY <1>1, <4>2, <4>4 DEF Pending
      <4> QED BY <1>1, <4>4, <4>5
    <3> QED BY <3>1, <3>2
  <2>4. HistoryInv'
    BY <1>0, <1>1, <2>1, <2>2, <2>3, HistoryMoves
  <2> QED BY <1>0, <2>1, <2>4, AverageUnchanged DEF SampleInv
<1>6. ASSUME NEW t \in Threads, InsertFeedback(t) PROVE SampleInv'
  <2>1. UNCHANGED <<cfg, sent, flight>> /\ thr[t].pc = "insert"
    BY <1>6 DEF InsertFeedback, sendVars
  <2>2. CASE cfg.version \in Baselines
    <3>1. Step(t, "record", thr[t].ind) /\ Enter(t)
      BY <1>6, <2>2 DEF InsertFeedback
    <3>2. /\ thr'[t].pc = "record" /\ thr'[t].ind = thr[t].ind /\ thr'[t].batch = thr[t].batch
          /\ \A u \in Threads : u # t => thr'[u] = thr[u]
      BY <1>0, <3>1, StepDoes
    <3>3. Pending(thr'[t]) = Pending(thr[t])
      BY <2>1, <3>2 DEF Pending
    <3>4. AverageInv' /\ Len(base'.history) <= Len(base.history)
      BY <1>0, <2>1, <3>1, EnterAverages
    <3>5. Pending(thr[t]) \in Nat /\ Len(base'.history) \in Nat
      <4>1. Numbers /\ Numbers'
        BY NumbersTyped, PTL
      <4> QED BY <4>1 DEF Numbers, Threads
    <3>6. HistoryInv'
      BY <1>0, <1>1, <2>1, <3>2, <3>3, <3>4, <3>5, HistoryMoves
    <3> QED BY <3>4, <3>6 DEF SampleInv
  <2>3. CASE cfg.version \notin Baselines
    <3>1. Inserted(t) /\ base' = base
      BY <1>6, <2>3 DEF InsertFeedback
    <3>2. /\ Pending(thr[t]) \in Nat /\ Pending(thr'[t]) = Pending(thr[t]) - 1
          /\ \A u \in Threads : u # t => thr'[u] = thr[u]
      BY <1>0, <2>1, <3>1, InsertedPending
    <3>3. HistoryInv'
      BY <1>0, <1>1, <2>1, <3>1, <3>2, HistoryMoves
    <3> QED BY <1>0, <2>1, <3>1, <3>3, AverageUnchanged DEF SampleInv
  <2> QED BY <2>2, <2>3
<1>7. ASSUME NEW t \in Threads, BaselineRecorded(t) PROVE SampleInv'
  <2>1. UNCHANGED <<cfg, sent, flight>> /\ thr[t].pc = "record" /\ Inserted(t)
    BY <1>7 DEF BaselineRecorded, sendVars
  <2>2. /\ Pending(thr[t]) \in Nat /\ Pending(thr'[t]) = Pending(thr[t]) - 1
        /\ \A u \in Threads : u # t => thr'[u] = thr[u]
    BY <1>0, <2>1, InsertedPending
  <2>3. AverageInv' /\ Len(base'.history) <= Len(base.history) + 1
    BY <1>0, <1>7, RecordAverages
  <2>4. Len(base'.history) \in Nat
    <3>1. Numbers'
      BY NumbersTyped, PTL
    <3> QED BY <3>1 DEF Numbers
  <2>5. HistoryInv'
    BY <1>0, <1>1, <2>1, <2>2, <2>3, <2>4, HistoryMoves
  <2> QED BY <2>3, <2>5 DEF SampleInv
<1>8. ASSUME NEW t \in Threads, LookUp(t) PROVE SampleInv'
  <2>1. UNCHANGED <<cfg, sent, base, flight>> /\ thr[t].pc = "lookup"
    BY <1>8 DEF LookUp, sendVars
  <2>2. thr'[t].pc = "update" /\ \A u \in Threads : u # t => thr'[u] = thr[u]
    BY <1>0, <1>8 DEF LookUp, ThreadInv, ThreadState
  <2>3. Pending(thr'[t]) = 0 /\ Pending(thr[t]) = 0
    BY <2>1, <2>2 DEF Pending
  <2>4. HistoryInv'
    BY <1>0, <1>1, <2>1, <2>2, <2>3, HistoryMoves
  <2> QED BY <1>0, <2>1, <2>4, AverageUnchanged DEF SampleInv
<1>9. ASSUME NEW t \in Threads, UpdateBack(t) PROVE SampleInv'
  <2>1. UNCHANGED <<cfg, sent, base, flight>> /\ thr[t].pc = "update"
    BY <1>9 DEF UpdateBack, sendVars
  <2>2. thr'[t].pc \in {"update", "idle"} /\ \A u \in Threads : u # t => thr'[u] = thr[u]
    <3>1. CASE thr[t].ind < Len(Rates)
      <4>1. Step(t, "update", thr[t].ind + 1)
        BY <1>9, <3>1 DEF UpdateBack
      <4> QED BY <1>0, <4>1, StepDoes
    <3>2. CASE ~(thr[t].ind < Len(Rates))
      <4>1. Go(t, "idle", <<>>)
        BY <1>9, <3>2 DEF UpdateBack
      <4> QED BY <1>0, <4>1, GoDoes
    <3> QED BY <3>1, <3>2
  <2>3. Pending(thr'[t]) = 0 /\ Pending(thr[t]) = 0
    BY <2>1, <2>2 DEF Pending
  <2>4. HistoryInv'
    BY <1>0, <1>1, <2>1, <2>2, <2>3, HistoryMoves
  <2> QED BY <1>0, <2>1, <2>4, AverageUnchanged DEF SampleInv
<1> QED BY <1>2, <1>3, <1>4, <1>5, <1>6, <1>7, <1>8, <1>9 DEF Feedback

\* A coded batch is in the air as soon as it is sent.
LEMMA SentSamples ==
  ASSUME Inv, Inv', SampleInv, SendCodedBatch
  PROVE  SampleInv'
<1> DEFINE most == TheSmaller(TheSmaller(MaxFollowed, cfg.pkts - sent), decision.n)
           pkts(followed) ==
             [i \in 1 .. followed |->
                [timer |-> SentAt(sent + i), rate |-> decision.rate_arr[decision.n - followed + i]]]
<1>1. UNCHANGED <<cfg, thr, base>> /\ snd.pc = "batch" /\ HistoryInv /\ AverageInv
  BY DEF SendCodedBatch, SampleInv
<1>2. PICK followed \in TheSmaller(1, most) .. most : flight' = flight \o pkts(followed) /\ sent' = sent + followed
  BY DEF SendCodedBatch
<1>3. followed \in Nat
  <2>1. cfg.pkts - sent \in Nat /\ MaxFollowed \in Nat
    BY ControlAssumption DEF Inv, PacketsInv
  <2>2. decision.n \in Nat
    <3>1. /\ decision.k \in 1 .. kMaxK /\ decision.n \in decision.k .. gf_size
      BY <1>1 DEF Inv, DecisionInv
    <3> QED BY <3>1, ConstantsTyped
  <2> QED BY <1>2, <2>1, <2>2 DEF TheSmaller
<1>4. flight \in Seq(Pkt) /\ flight' \in Seq(Pkt)
  BY DEF Inv, PacketsInv
<1> DEFINE batch == pkts(followed)
<1>5. DOMAIN batch = 1 .. followed /\ batch \in Seq({batch[i] : i \in 1 .. followed})
  <2>1. DOMAIN batch = 1 .. followed
    OBVIOUS
  <2>2. batch \in [1 .. followed -> {batch[i] : i \in 1 .. followed}]
    OBVIOUS
  <2> HIDE DEF batch
  <2> QED BY <1>3, <2>1, <2>2, SeqDef
<1>6. flight' = flight \o batch
  BY <1>2
<1> HIDE DEF batch, pkts, most
<1>7. Len(batch) = followed
  BY <1>3, <1>5, LenProperties
<1> DEFINE any == Pkt \cup {batch[i] : i \in 1 .. followed}
<1>8. flight \in Seq(any) /\ batch \in Seq(any)
  BY <1>3, <1>4, <1>5, SeqDef
<1> HIDE DEF any
<1>9. Len(flight') = Len(flight) + followed
  BY <1>6, <1>7, <1>8, ConcatProperties
<1> DEFINE raw == Pending(thr["raw_ack"])
           out == Pending(thr["time_out"])
           past == Len(base.history)
           air == Len(flight)
<1>10. raw \in Nat /\ out \in Nat /\ past \in Nat /\ air \in Nat /\ sent \in Nat /\ past + air + raw + out <= sent
  BY <1>1, NumbersTyped DEF Numbers, HistoryInv
<1>11. past + (air + followed) + raw + out <= sent + followed => HistoryInv'
  BY <1>1, <1>2, <1>9 DEF HistoryInv
<1> HIDE DEF raw, out, past, air
<1>12. HistoryInv'
  BY <1>3, <1>10, <1>11
<1> QED BY <1>1, <1>12, AverageUnchanged DEF SampleInv

\* A step of the sender that sends nothing.
LEMMA SenderOnly ==
  ASSUME Inv, Inv', SampleInv, UNCHANGED <<thr, flight, sent>>, AverageInv', Len(base'.history) <= Len(base.history)
  PROVE  SampleInv'
<1>1. Numbers /\ Numbers'
  BY NumbersTyped, PTL
<1>2. "raw_ack" \in Threads /\ Len(flight) \in Nat /\ Len(base.history) \in Nat /\ Len(base'.history) \in Nat
      /\ Pending(thr["raw_ack"]) \in Nat
  BY <1>1 DEF Numbers, Threads
<1>3. HistoryInv'
  BY <1>2, HistoryMoves DEF SampleInv
<1> QED BY <1>3 DEF SampleInv

LEMMA SenderSamples ==
  ASSUME Inv, Inv', SampleInv, Sender
  PROVE  SampleInv'
<1>1. CASE AskBaseline
  <2>1. UNCHANGED <<cfg, thr, flight, sent>> /\ Enter("sender") /\ BaselineInv /\ AverageInv
    BY <1>1 DEF AskBaseline, SendStep, Inv, SampleInv
  <2>2. AverageInv' /\ Len(base'.history) <= Len(base.history)
    BY <2>1, EnterAverages
  <2> QED BY <2>1, <2>2, SenderOnly
<1>2. CASE BaselineAnswers
  <2>1. UNCHANGED <<thr, flight, sent>>
    BY <1>2 DEF BaselineAnswers, SendStep
  <2>2. AverageInv' /\ base'.history = base.history
    BY <1>2, AnswerAverages DEF SampleInv
  <2>3. Len(base.history) \in Nat
    BY NumbersTyped DEF Numbers
  <2> QED BY <2>1, <2>2, <2>3, SenderOnly
<1>3. CASE SendCodedBatch
  BY <1>3, SentSamples
<1>4. CASE ~AskBaseline /\ ~BaselineAnswers /\ ~SendCodedBatch
  <2>1. UNCHANGED <<cfg, base, thr, flight, sent>>
    BY <1>4 DEF Sender, StartDecision, ForgetScout, FindFeasible, ReadScout, ReadFront, ReadBack, ChooseRate,
                ChooseFEC, DecisionMade, SendStep
  <2>2. AverageInv' /\ Len(base.history) \in Nat
    BY <2>1, AverageUnchanged, NumbersTyped DEF SampleInv, Numbers
  <2> QED BY <2>1, <2>2, SenderOnly
<1> QED BY <1>1, <1>2, <1>3, <1>4

LEMMA InitSamples == Init => SampleInv
<1> SUFFICES ASSUME Init PROVE SampleInv
  OBVIOUS
<1>1. PICK update \in BOOLEAN :
        base = [table |-> InitRateTable(cfg.version, update), history |-> <<>>, inside |-> {}, raced |-> FALSE]
  BY DEF Init
<1>2. base.table = InitRateTable(cfg.version, update) /\ Len(base.history) = 0
  BY <1>1
<1>3. AverageInv
  BY <1>2 DEF AverageInv, Averaged, InitRateTable
<1>4. Pending(thr["raw_ack"]) = 0 /\ Pending(thr["time_out"]) = 0
  BY DEF Init, Pending, Idle, Threads
<1>5. Len(flight) = 0 /\ sent = 0
  BY DEF Init
<1> QED BY <1>2, <1>3, <1>4, <1>5 DEF SampleInv, HistoryInv

LEMMA SampleStutters ==
  ASSUME SampleInv, UNCHANGED vars
  PROVE  SampleInv'
BY DEF SampleInv, AverageInv, Averaged, HistoryInv, vars

\* The averages are up to date, or will be, and the history holds no more packets
\* than have been sent.
LEMMA SampleInvHolds == Spec => []SampleInv
<1>1. Inv /\ Inv' /\ SampleInv /\ [Next]_vars => SampleInv'
  BY FeedbackSamples, SenderSamples, SampleStutters DEF Next, Stopped
<1> QED BY <1>1, InitSamples, InvHolds, PTL DEF Spec

-----------------------------------------------------------------------------
(* The rate SampleRate answers with.                                       *)

\* Only the end of its own call takes the sender out of the baseline.
LEMMA OnlyAnswers ==
  ASSUME Inv, Next, Answered
  PROVE  BaselineAnswers
<1>1. base \in BaselineState /\ "sender" \in base.inside /\ "sender" \notin base'.inside
  BY DEF Inv, BaselineInv, Answered
<1>2. ASSUME NEW who, Enter(who) PROVE FALSE
  <2>1. base.inside # {}
    BY <1>1
  <2> DEFINE table == InitRateTable(cfg.version, TRUE)
  <2>2. base' = [base EXCEPT !.inside = @ \cup {who}, !.raced = TRUE, !.table = table, !.history = <<>>]
    BY <1>2, <2>1 DEF Enter
  <2> HIDE DEF table
  <2>3. base'.inside = base.inside \cup {who}
    BY <1>1, <2>2 DEF BaselineState
  <2> QED BY <1>1, <2>3
<1>3. ASSUME NEW t \in Threads, BaselineRecorded(t) PROVE FALSE
  <2> DEFINE pkt == thr[t].batch[thr[t].ind]
  <2>1. PICK old \in 0 .. Len(base.history) :
          base' = Left(t, IF base.raced THEN base ELSE InsertRecord(cfg.version, base, pkt, old))
    BY <1>3 DEF BaselineRecorded
  <2> DEFINE b == IF base.raced THEN base ELSE InsertRecord(cfg.version, base, pkt, old)
  <2>2. DOMAIN b = DOMAIN base /\ b.inside = base.inside
    BY <1>1 DEF InsertRecord, BaselineState
  <2> HIDE DEF b
  <2>3. base' = [b EXCEPT !.inside = @ \ {t}]
    BY <2>1 DEF Left, b
  <2>4. "inside" \in DOMAIN b
    BY <1>1, <2>2 DEF BaselineState
  <2>5. base'.inside = base.inside \ {t}
    BY <2>2, <2>3, <2>4
  <2>6. t # "sender"
    BY DEF Threads
  <2> QED BY <1>1, <2>5, <2>6
<1>4. ASSUME base' = base PROVE FALSE
  BY <1>1, <1>4
<1>5. CASE Feedback
  <2>1. ASSUME NEW num \in 1 .. TheSmaller(cfg.known, Len(flight)), TakeKnown(num) PROVE FALSE
    BY <1>4, <2>1 DEF TakeKnown
  <2>2. ~(TimeOutLimit \/ SetHighLoss \/ TakeRest)
    BY <1>4 DEF TimeOutLimit, SetHighLoss, TakeRest
  <2>3. ASSUME NEW t \in Threads, InsertFeedback(t) PROVE FALSE
    BY <1>2, <1>4, <2>3 DEF InsertFeedback
  <2>4. ASSUME NEW t \in Threads, LookUp(t) \/ UpdateBack(t) PROVE FALSE
    BY <1>4, <2>4 DEF LookUp, UpdateBack
  <2> QED BY <1>3, <1>5, <2>1, <2>2, <2>3, <2>4 DEF Feedback
<1>6. CASE Sender
  <2>1. ~AskBaseline
    BY <1>2 DEF AskBaseline
  <2>2. ~(StartDecision \/ ForgetScout \/ FindFeasible \/ ReadScout \/ ReadFront \/ ReadBack \/ ChooseRate
            \/ ChooseFEC \/ DecisionMade \/ SendCodedBatch)
    BY <1>4 DEF StartDecision, ForgetScout, FindFeasible, ReadScout, ReadFront, ReadBack, ChooseRate,
                ChooseFEC, DecisionMade, SendCodedBatch
  <2> QED BY <1>6, <2>1, <2>2 DEF Sender
<1>7. ~Stopped
  BY <1>4 DEF Stopped, vars
<1> QED BY <1>5, <1>6, <1>7 DEF Next

\* The packets of the history took less than Infinite to send, at every rate.
HistoryFits == \A i \in RateInd : base.table.rate[i].sent * TxTime(i) < Infinite

\* The counters are those of the history, so that an ack of it is one of some rate.
LEMMA AnswerDelivers ==
  ASSUME Inv, AverageInv, HistoryFits, BaselineAnswers
  PROVE  Delivers
<1> SUFFICES ASSUME cfg.version = "SampleRate", ~base'.raced, base'.table.num_acked > 0,
                    (base.table.pkt_count + 1) % SampleEvery # 0
             PROVE  \E h \in DOMAIN base.history :
                      base.history[h].acked /\ base.history[h].rate = Rates[base'.table.pos]
  BY DEF Delivers
<1>1. PICK answer \in BaselineRate("sender") : base' = answer.base
  BY DEF BaselineAnswers
<1>2. /\ base \in BaselineState /\ base.table \in RateTable /\ base.history \in Seq(Record)
      /\ MatchesFrom(base.table, base.history, 0) /\ Len(base.history) \in Nat
  BY LenProperties DEF Inv, BaselineInv, BaselineState
<1>3. ~base.raced
  <2> SUFFICES ASSUME base.raced PROVE FALSE
    OBVIOUS
  <2>1. PICK r \in RateSet : answer = [rate |-> r, base |-> Left("sender", base)]
    BY DEF BaselineRate
  <2>2. base' = Left("sender", base)
    BY <1>1, <2>1
  <2> QED BY <1>2, <2>2 DEF Left, BaselineState
<1>4. PICK t \in SampleApply(base.table) : base'.table = t
  <2>1. PICK t \in BaselineApply(cfg.version, base.table) :
          answer = [rate |-> Rates[t.pos], base |-> Left("sender", [base EXCEPT !.table = t])]
    BY <1>3 DEF BaselineRate
  <2>2. base' = Left("sender", [base EXCEPT !.table = t])
    BY <1>1, <2>1
  <2>3. base'.table = t
    BY <1>2, <2>2 DEF Left, BaselineState
  <2> QED BY <2>1, <2>3 DEF BaselineApply
<1>5. \A i \in RateInd :
        /\ base.table.rate[i].sent = CountFrom(base.history, 0, SentAtRate(i))
        /\ base.table.rate[i].acked = CountFrom(base.history, 0, SentAtRate(i) \cap AckedPkts)
        /\ base.table.rate[i].sent \in Nat /\ base.table.rate[i].acked \in Nat
        /\ base.table.rate[i].acked # 0 <=>
             \E h \in DOMAIN base.history : base.history[h] \in SentAtRate(i) \cap AckedPkts
  BY <1>2, CountBounded DEF MatchesFrom
<1>6. PICK u \in RateTable, p \in RateInd, count \in Nat : Applied(base.table, t, u, p, count)
  <2>1. Averaged(base.table)
    BY <1>3 DEF AverageInv
  <2> QED BY <1>2, <1>5, <2>1, SampleApplies
<1>7. /\ t.pos = p /\ t.num_acked = u.num_acked /\ SameCounts(u, base.table)
      /\ \A i \in RateInd : u.rate[i].avg = AverageOf(u.rate[i], i)
      /\ u.num_acked # 0 => p \in Fastest(u)
  BY <1>6 DEF Applied, RateTable
<1>8. /\ u.num_acked = base.table.num_acked
      /\ \A i \in RateInd : /\ u.rate[i].sent = base.table.rate[i].sent
                            /\ u.rate[i].acked = base.table.rate[i].acked
  BY <1>7 DEF SameCounts
<1>9. base.table.num_acked # 0 /\ p \in Fastest(u)
  BY <1>4, <1>7, <1>8
<1>10. PICK j \in RateInd : base.table.rate[j].acked # 0
  <2>1. PICK h \in DOMAIN base.history : base.history[h] \in AckedPkts
    BY <1>2, <1>9, CountBounded DEF MatchesFrom
  <2>2. base.history[h] \in Record
    BY <1>2, <2>1, ElementOfSeq, LenProperties
  <2>3. PICK j \in RateInd : base.history[h].rate = Rates[j]
    BY <2>2 DEF Record, RateSet
  <2>4. base.history[h] \in SentAtRate(j) \cap AckedPkts
    BY <2>1, <2>2, <2>3 DEF SentAtRate
  <2> QED BY <1>5, <2>4
<1>11. \A i \in RateInd : u.rate[i].sent * TxTime(i) < Infinite
  BY <1>8 DEF HistoryFits
<1>12. u.rate[p].acked # 0
  <2>1. \A i \in RateInd : /\ u.rate[i].sent \in Nat /\ u.rate[i].acked \in Nat
                           /\ u.rate[i].sent * TxTime(i) < Infinite
                           /\ u.rate[i].avg = AverageOf(u.rate[i], i)
    BY <1>5, <1>7, <1>8, <1>11
  <2>2. u.rate[j].acked # 0
    BY <1>8, <1>10
  <2> QED BY <1>9, <2>1, <2>2, FastestAnswered
<1>13. PICK h \in DOMAIN base.history : base.history[h] \in SentAtRate(p) \cap AckedPkts
  BY <1>5, <1>8, <1>12
<1>14. base.history[h].acked /\ base.history[h].rate = Rates[p]
  BY <1>13 DEF SentAtRate, AckedPkts
<1> QED BY <1>4, <1>7, <1>14

LEMMA StepDelivers ==
  ASSUME Inv, SampleInv, HistoryFits, [Next]_vars
  PROVE  Delivers
<1>1. CASE Next /\ Answered
  BY <1>1, OnlyAnswers, AnswerDelivers DEF SampleInv
<1>2. CASE ~Answered
  BY <1>2 DEF Delivers
<1>3. CASE UNCHANGED vars
  BY <1>3 DEF vars, Delivers, Answered
<1> QED BY <1>1, <1>2, <1>3

\* Unless it samples, SampleRate sends at a rate whose acks have not all expired
\* while another still has some (where no two threads raced), as long as the
\* packets of its history, those of the last 10.5 s, took less than what its code
\* calls infinite (sample_rate.cc:49, rate_adaptation.cc:8).
THEOREM SampleRateDeliversInTime == Spec => [][HistoryFits => Delivers]_vars
BY StepDelivers, SampleInvHolds, InvHolds, PTL DEF Spec

\* The same of every run that follows no more packets than take that time.
THEOREM SampleRateDelivered ==
  ASSUME \A c \in Configs, i \in RateInd : c.pkts * TxTime(i) < Infinite
  PROVE  Spec => SampleRateDelivers
<1>1. Inv /\ SampleInv => HistoryFits
  <2> SUFFICES ASSUME Inv, SampleInv, NEW i \in RateInd PROVE base.table.rate[i].sent * TxTime(i) < Infinite
    BY DEF HistoryFits
  <2> DEFINE raw == Pending(thr["raw_ack"])
             out == Pending(thr["time_out"])
             past == Len(base.history)
             air == Len(flight)
             time == TxTime(i)
             pkts == cfg.pkts
             at == base.table.rate[i].sent
  <2>1. raw \in Nat /\ out \in Nat /\ past \in Nat /\ air \in Nat /\ sent \in Nat /\ past + air + raw + out <= sent
    BY NumbersTyped DEF Numbers, SampleInv, HistoryInv
  <2>2. pkts \in Nat /\ sent <= pkts /\ pkts * time < Infinite /\ time \in Nat
    BY ControlAssumption, TxTimeTyped DEF Inv, PacketsInv
  <2>3. at \in Nat /\ at <= past
    <3>1. base.history \in Seq(Record) /\ at = CountFrom(base.history, 0, SentAtRate(i))
      BY DEF Inv, BaselineInv, BaselineState, MatchesFrom
    <3> HIDE DEF at
    <3> QED BY <3>1, CountBounded
  <2> HIDE DEF raw, out, past, air, time, pkts, at
  <2>4. at <= pkts
    BY <2>1, <2>2, <2>3
  <2>5. at * time <= pkts * time /\ at * time \in Int /\ pkts * time \in Int
    BY <2>2, <2>3, <2>4, ProductOrder
  <2>6. at * time < Infinite
    BY <2>2, <2>5 DEF Infinite
  <2> QED BY <2>6 DEF at, time
<1>2. Inv /\ SampleInv /\ [Next]_vars => Delivers
  BY <1>1, StepDelivers
<1> QED BY <1>2, SampleInvHolds, InvHolds, PTL DEF Spec, SampleRateDelivers

=============================================================================
