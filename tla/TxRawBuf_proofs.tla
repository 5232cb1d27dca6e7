-------------------------- MODULE TxRawBuf_proofs --------------------------
(***************************************************************************)
(* Theorems about TxRawBuf and the records, for every number of raw        *)
(* packets, buffer size and duration.  The invariant follows a raw packet  *)
(* from the buffer to one thread's vector to the records.                  *)
(***************************************************************************)
EXTENDS TxRawBuf, FiniteSetTheorems, SequenceTheorems, WellFoundedInduction, TLAPS

-----------------------------------------------------------------------------
(* Sequences and numbers.                                                  *)

LEMMA FunctionIsSeq ==
  ASSUME NEW S, NEW n \in Nat, NEW f \in [1 .. n -> S]
  PROVE  f \in Seq(S) /\ Len(f) = n
<1>1. f \in Seq(S)
  BY SeqDef
<1>2. Len(f) \in Nat /\ 1 .. Len(f) = 1 .. n
  BY <1>1, LenProperties
<1> QED BY <1>1, <1>2

LEMMA LeastExists ==
  ASSUME NEW S, S \subseteq Nat, S # {}
  PROVE  \E x \in S : \A y \in S : x <= y
<1>1. \E R : IsWellFoundedOn(R, Nat) /\ \A x, y \in Nat : y < x => <<y, x>> \in R
  <2>1. IsWellFoundedOn(OpToRel(<, Nat), Nat)
    BY NatLessThanWellFounded
  <2>2. \A x, y \in Nat : y < x => <<y, x>> \in OpToRel(<, Nat)
    BY DEF OpToRel
  <2> QED BY <2>1, <2>2
<1>2. PICK R : IsWellFoundedOn(R, Nat) /\ \A x, y \in Nat : y < x => <<y, x>> \in R
  BY <1>1
<1>3. PICK x \in S : \A y \in S : ~ (<<y, x>> \in R)
  BY <1>2, WFMin
<1>4. ASSUME NEW y \in S PROVE x <= y
  <2>1. ~(y < x)
    BY <1>2, <1>3
  <2> QED BY <2>1
<1> QED BY <1>4

-----------------------------------------------------------------------------
(* What TxRawBuf does to the packets it holds, when they are consecutive.  *)

Consecutive(deq, base) == \A i \in 1 .. Len(deq) : deq[i].seq = base + i - 1

\* The raw packets an ack is about.
Window(ack) == BeginSeq(ack) .. ack.end

LEMMA GetIndOf ==
  ASSUME NEW deq \in Seq(RawPktSendStatus), NEW base \in Nat, Consecutive(deq, base), NEW s \in Int
  PROVE  /\ GetInd(deq, s) \in 0 .. Len(deq)
         /\ GetInd(deq, s) > 0 <=> base <= s /\ s < base + Len(deq)
         /\ GetInd(deq, s) > 0 => GetInd(deq, s) = s - base + 1
<1>1. Len(deq) \in Nat
  OBVIOUS
<1>2. CASE Len(deq) = 0
  BY <1>2 DEF GetInd
<1>3. CASE Len(deq) > 0
  <2>1. deq[1].seq = base
    BY <1>1, <1>3 DEF Consecutive
  <2> QED BY <1>1, <1>3, <2>1 DEF GetInd
<1> QED BY <1>1, <1>2, <1>3

\* A nack that is stored makes its packet bad, the other packets stay.
LEMMA StoreNacksResult ==
  ASSUME NEW deq \in Seq(RawPktSendStatus), NEW base \in Nat, Consecutive(deq, base),
         NEW nacks \in SUBSET Nat
  PROVE  /\ StoreNacks(deq, nacks) \in Seq(RawPktSendStatus)
         /\ Len(StoreNacks(deq, nacks)) = Len(deq)
         /\ \A i \in 1 .. Len(deq) :
              LET e == StoreNacks(deq, nacks)[i]
              IN  /\ e.seq = deq[i].seq
                  /\ e = deq[i] \/ (e.status = "Bad" /\ e.seq \in nacks)
                  /\ StoredNacks(deq, nacks) = nacks /\ e.seq \in nacks => e.status = "Bad"
<1> DEFINE hit(i) == \E n \in StoredNacks(deq, nacks) : GetInd(deq, n) = i
           e(i)   == IF hit(i) THEN [deq[i] EXCEPT !.status = "Bad"] ELSE deq[i]
<1>1. Len(deq) \in Nat /\ \A i \in 1 .. Len(deq) : deq[i] \in RawPktSendStatus
  BY ElementOfSeq, LenProperties
<1>2. \A i \in 1 .. Len(deq) : e(i) \in RawPktSendStatus /\ e(i).seq = deq[i].seq
  BY <1>1 DEF RawPktSendStatus
<1>3. StoreNacks(deq, nacks) = [i \in 1 .. Len(deq) |-> e(i)]
  BY DEF StoreNacks
<1>4. StoreNacks(deq, nacks) \in [1 .. Len(deq) -> RawPktSendStatus]
  BY <1>2, <1>3
<1>5. \A i \in 1 .. Len(deq) : hit(i) => deq[i].seq \in nacks
  <2> SUFFICES ASSUME NEW i \in 1 .. Len(deq), NEW n \in StoredNacks(deq, nacks), GetInd(deq, n) = i
               PROVE  deq[i].seq \in nacks
    OBVIOUS
  <2>1. n \in nacks /\ n \in Int
    BY DEF StoredNacks
  <2>2. i = n - base + 1
    BY <2>1, GetIndOf
  <2>3. deq[i].seq = n
    <3>1. deq[i].seq = base + i - 1
      BY DEF Consecutive
    <3>2. i \in Int /\ base \in Int
      OBVIOUS
    <3> QED BY <2>1, <2>2, <3>1, <3>2
  <2> QED BY <2>1, <2>3
<1>6. \A i \in 1 .. Len(deq) : StoredNacks(deq, nacks) = nacks /\ deq[i].seq \in nacks => hit(i)
  <2> SUFFICES ASSUME NEW i \in 1 .. Len(deq), StoredNacks(deq, nacks) = nacks, deq[i].seq \in nacks
               PROVE  GetInd(deq, deq[i].seq) = i
    OBVIOUS
  <2>1. deq[i].seq = base + i - 1 /\ deq[i].seq \in Int
    BY <1>1 DEF Consecutive
  <2> QED BY <1>1, <2>1, GetIndOf
<1>7. \A i \in 1 .. Len(deq) : hit(i) => e(i).status = "Bad"
  BY <1>1 DEF RawPktSendStatus
<1>8. \A i \in 1 .. Len(deq) : StoreNacks(deq, nacks)[i] = e(i) /\ (~hit(i) => e(i) = deq[i])
  BY <1>3
<1>9. StoreNacks(deq, nacks) \in Seq(RawPktSendStatus) /\ Len(StoreNacks(deq, nacks)) = Len(deq)
  BY <1>1, <1>4, FunctionIsSeq
<1> HIDE DEF hit, e
<1> QED BY <1>2, <1>5, <1>6, <1>7, <1>8, <1>9

\* An index between those of two packets is that of a packet between them.
LEMMA Between ==
  ASSUME NEW base \in Nat, NEW k \in Int, NEW first \in Int, NEW last \in Int, NEW begin \in Int, NEW end \in Int,
         begin <= k, k <= end, begin = first - base + 1, end = last - base + 1
  PROVE  first <= base + k - 1 /\ base + k - 1 <= last /\ base + k - 1 \in Int
OBVIOUS

\* PushPkts keeps the packets at the end and settles the fate of none but
\* those the ack is about.
LEMMA PushPktsResult ==
  ASSUME NEW deq \in Seq(RawPktSendStatus), NEW base \in Nat, Consecutive(deq, base), NEW ack \in RawAcks,
         BeginSeq(ack) <= ack.end
  PROVE  LET pushed == PushPkts(deq, ack)
             gone   == Len(deq) - Len(pushed)
         IN  /\ pushed \in Seq(RawPktSendStatus) /\ Len(pushed) <= Len(deq)
             /\ \A i \in 1 .. Len(pushed) :
                  /\ pushed[i].seq = base + gone + i - 1
                  /\ \/ pushed[i] = deq[gone + i]
                     \/ pushed[i].status = "Bad" /\ pushed[i].seq \in ack.nacks
                     \/ pushed[i].status = "Good" /\ pushed[i].seq \in Window(ack) \ ack.nacks
<1> DEFINE marked == StoreNacks(deq, ack.nacks)
           begin  == GetInd(deq, BeginSeq(ack))
           end    == GetInd(deq, ack.end)
           partial == StoredNacks(deq, ack.nacks) # ack.nacks \/ begin = 0 \/ end = 0
           rest(i) == LET e == marked[i + begin - 1]
                      IN  IF i + begin - 1 <= end /\ e.status = "Unknown" THEN [e EXCEPT !.status = "Good"] ELSE e
<1>1. /\ Len(deq) \in Nat /\ ack.nacks \in SUBSET Nat /\ BeginSeq(ack) \in Int /\ ack.end \in Int
  BY DEF RawAcks, BeginSeq
<1>2. /\ marked \in Seq(RawPktSendStatus) /\ Len(marked) = Len(deq)
      /\ \A i \in 1 .. Len(deq) :
           /\ marked[i].seq = deq[i].seq
           /\ marked[i] = deq[i] \/ (marked[i].status = "Bad" /\ marked[i].seq \in ack.nacks)
           /\ StoredNacks(deq, ack.nacks) = ack.nacks /\ marked[i].seq \in ack.nacks => marked[i].status = "Bad"
  BY <1>1, StoreNacksResult
<1>3. \A i \in 1 .. Len(deq) : deq[i].seq = base + i - 1 /\ marked[i] \in RawPktSendStatus
  BY <1>2, ElementOfSeq DEF Consecutive
<1>4. /\ begin \in 0 .. Len(deq) /\ end \in 0 .. Len(deq)
      /\ begin > 0 => begin = BeginSeq(ack) - base + 1
      /\ end > 0 => end = ack.end - base + 1
  BY <1>1, GetIndOf
<1>5. CASE partial
  <2>1. PushPkts(deq, ack) = marked
    BY <1>5 DEF PushPkts
  <2> HIDE DEF marked, partial, begin, end
  <2>2. Len(deq) - Len(PushPkts(deq, ack)) = 0 /\ \A i \in 1 .. Len(deq) : 0 + i = i /\ base + 0 + i - 1 = base + i - 1
    BY <1>1, <1>2, <2>1
  <2>3. PushPkts(deq, ack) \in Seq(RawPktSendStatus) /\ Len(PushPkts(deq, ack)) = Len(deq)
    BY <1>2, <2>1
  <2>4. \A i \in 1 .. Len(deq) :
          /\ PushPkts(deq, ack)[i].seq = base + i - 1
          /\ \/ PushPkts(deq, ack)[i] = deq[i]
             \/ PushPkts(deq, ack)[i].status = "Bad" /\ PushPkts(deq, ack)[i].seq \in ack.nacks
    BY <1>2, <1>3, <2>1
  <2> QED BY <1>1, <2>2, <2>3, <2>4
<1>6. CASE ~partial
  <2>1. PushPkts(deq, ack) = [i \in 1 .. Len(deq) - begin + 1 |-> rest(i)]
    BY <1>6 DEF PushPkts
  <2>2. /\ StoredNacks(deq, ack.nacks) = ack.nacks
        /\ begin \in 1 .. Len(deq) /\ end \in 1 .. Len(deq)
        /\ begin = BeginSeq(ack) - base + 1 /\ end = ack.end - base + 1
    BY <1>1, <1>4, <1>6
  <2> HIDE DEF marked, partial, begin, end
  <2>3. ASSUME NEW i \in 1 .. Len(deq) - begin + 1
        PROVE  i + begin - 1 \in 1 .. Len(deq) /\ i + begin - 1 = begin - 1 + i
    <3>1. begin \in Int /\ 1 <= begin /\ begin <= Len(deq) /\ Len(deq) \in Int /\ i \in Int
      BY <1>1, <2>2
    <3>2. 1 <= i /\ i <= Len(deq) - begin + 1
      BY <3>1
    <3> QED BY <3>1, <3>2
  <2>4. ASSUME NEW i \in 1 .. Len(deq) - begin + 1
        PROVE  /\ rest(i) \in RawPktSendStatus
               /\ rest(i).seq = base + (begin - 1) + i - 1
               /\ \/ rest(i) = deq[begin - 1 + i]
                  \/ rest(i).status = "Bad" /\ rest(i).seq \in ack.nacks
                  \/ rest(i).status = "Good" /\ rest(i).seq \in Window(ack) \ ack.nacks
    <3> DEFINE k == i + begin - 1
    <3>1. k \in 1 .. Len(deq) /\ k = begin - 1 + i
      BY <2>3
    <3>2. /\ marked[k] \in RawPktSendStatus /\ marked[k].seq = base + k - 1 /\ deq[k].seq = base + k - 1
          /\ marked[k] = deq[k] \/ (marked[k].status = "Bad" /\ marked[k].seq \in ack.nacks)
          /\ marked[k].seq \in ack.nacks => marked[k].status = "Bad"
      BY <1>2, <1>3, <2>2, <3>1
    <3>3. base + k - 1 = base + (begin - 1) + i - 1
      <4>1. base \in Int /\ begin \in Int /\ i \in Int /\ k = begin - 1 + i
        BY <2>2, <3>1
      <4> HIDE DEF k
      <4> QED BY <4>1
    <3>4. CASE k <= end /\ marked[k].status = "Unknown"
      <4>1. rest(i) = [marked[k] EXCEPT !.status = "Good"]
        BY <3>4
      <4>2. rest(i) \in RawPktSendStatus /\ rest(i).seq = marked[k].seq /\ rest(i).status = "Good"
        BY <3>2, <4>1 DEF RawPktSendStatus
      <4>3. marked[k].seq \in Window(ack)
        <5>0. begin \in Int /\ end \in Int /\ i \in Int /\ 1 <= i
          BY <1>1, <2>2
        <5>1. begin \in Int /\ end \in Int /\ k \in Int /\ begin <= k
          BY <5>0
        <5>2. k <= end
          BY <3>4
        <5>3. /\ begin = BeginSeq(ack) - base + 1 /\ end = ack.end - base + 1
              /\ BeginSeq(ack) \in Int /\ ack.end \in Int
          BY <1>1, <2>2
        <5> HIDE DEF k
        <5>4. BeginSeq(ack) <= base + k - 1 /\ base + k - 1 <= ack.end /\ base + k - 1 \in Int
          BY <5>1, <5>2, <5>3, Between
        <5>5. base + k - 1 \in Window(ack)
          BY <5>3, <5>4 DEF Window
        <5> QED BY <3>2, <5>5
      <4>4. marked[k].seq \notin ack.nacks
        BY <3>2, <3>4
      <4> QED BY <3>2, <3>3, <4>2, <4>3, <4>4
    <3>5. CASE ~(k <= end /\ marked[k].status = "Unknown")
      <4>1. rest(i) = marked[k]
        BY <3>5
      <4> QED BY <3>1, <3>2, <3>3, <4>1
    <3> QED BY <3>4, <3>5
  <2> HIDE DEF rest
  <2>5. PushPkts(deq, ack) \in [1 .. Len(deq) - begin + 1 -> RawPktSendStatus] /\ Len(deq) - begin + 1 \in Nat
    <3>1. PushPkts(deq, ack) \in [1 .. Len(deq) - begin + 1 -> RawPktSendStatus]
      BY <2>1, <2>4
    <3>2. Len(deq) - begin + 1 \in Nat
      BY <1>1, <2>2
    <3> QED BY <3>1, <3>2
  <2>6. PushPkts(deq, ack) \in Seq(RawPktSendStatus) /\ Len(PushPkts(deq, ack)) = Len(deq) - begin + 1
    BY <2>5, FunctionIsSeq
  <2>7. Len(deq) - Len(PushPkts(deq, ack)) = begin - 1 /\ Len(PushPkts(deq, ack)) <= Len(deq)
    <3>1. Len(deq) \in Int /\ begin \in Int /\ 1 <= begin
      BY <1>1, <2>2
    <3>2. Len(PushPkts(deq, ack)) = Len(deq) - begin + 1
      BY <2>6
    <3> QED BY <3>1, <3>2
  <2>8. \A i \in 1 .. Len(PushPkts(deq, ack)) : PushPkts(deq, ack)[i] = rest(i)
    BY <2>1, <2>6
  <2> QED BY <2>4, <2>6, <2>7, <2>8
<1> QED BY <1>5, <1>6

\* The packets at the front whose fate is known.
LEMMA KnownPrefixResult ==
  ASSUME NEW deq \in Seq(RawPktSendStatus)
  PROVE  /\ KnownPrefix(deq) \in 0 .. Len(deq)
         /\ \A i \in 1 .. KnownPrefix(deq) : deq[i].status # "Unknown"
<1> DEFINE unknown == {i \in 1 .. Len(deq) : deq[i].status = "Unknown"}
           fits(k) == /\ \A i \in 1 .. k : deq[i].status # "Unknown"
                      /\ k < Len(deq) => deq[k + 1].status = "Unknown"
<1>1. Len(deq) \in Nat
  OBVIOUS
<1>2. \E k \in 0 .. Len(deq) : fits(k)
  <2>1. CASE unknown = {}
    <3>1. fits(Len(deq))
      BY <1>1, <2>1
    <3> QED BY <1>1, <3>1
  <2>2. CASE unknown # {}
    <3>1. \E u \in unknown : \A y \in unknown : u <= y
      <4>1. unknown \subseteq Nat
        BY <1>1
      <4> HIDE DEF unknown
      <4> QED BY <2>2, <4>1, LeastExists
    <3>2. PICK u \in 1 .. Len(deq) :
            deq[u].status = "Unknown" /\ \A y \in 1 .. Len(deq) : deq[y].status = "Unknown" => u <= y
      BY <3>1
    <3>3. ASSUME NEW i \in 1 .. u - 1 PROVE deq[i].status # "Unknown"
      BY <1>1, <3>2
    <3>4. fits(u - 1) /\ u - 1 \in 0 .. Len(deq)
      BY <1>1, <3>2, <3>3
    <3> QED BY <3>4
  <2> QED BY <2>1, <2>2
<1>3. KnownPrefix(deq) = CHOOSE k \in 0 .. Len(deq) : fits(k)
  BY DEF KnownPrefix
<1> HIDE DEF fits
<1>4. KnownPrefix(deq) \in 0 .. Len(deq) /\ fits(KnownPrefix(deq))
  BY <1>2, <1>3
<1> QED BY <1>4 DEF fits

\* ClearPktStatus and a full buffer: every packet is lost.
LEMMA AllBadResult ==
  ASSUME NEW deq \in Seq(RawPktSendStatus), NEW base \in Nat, Consecutive(deq, base)
  PROVE  /\ AllBad(deq) \in Seq(RawPktSendStatus) /\ Len(AllBad(deq)) = Len(deq)
         /\ Consecutive(AllBad(deq), base)
         /\ \A i \in 1 .. Len(deq) : AllBad(deq)[i].status = "Bad"
<1>1. Len(deq) \in Nat /\ \A i \in 1 .. Len(deq) : deq[i] \in RawPktSendStatus
  BY ElementOfSeq, LenProperties
<1>2. \A i \in 1 .. Len(deq) : /\ AllBad(deq)[i] \in RawPktSendStatus
                               /\ AllBad(deq)[i].seq = deq[i].seq /\ AllBad(deq)[i].status = "Bad"
  BY <1>1 DEF AllBad, RawPktSendStatus
<1>3. AllBad(deq) \in [1 .. Len(deq) -> RawPktSendStatus]
  BY <1>2 DEF AllBad
<1>4. AllBad(deq) \in Seq(RawPktSendStatus) /\ Len(AllBad(deq)) = Len(deq)
  BY <1>1, <1>3, FunctionIsSeq
<1>5. Consecutive(AllBad(deq), base)
  BY <1>2, <1>4 DEF Consecutive
<1> QED BY <1>2, <1>4, <1>5

-----------------------------------------------------------------------------
(* The inductive invariant.                                                *)

\* The first raw packet in the buffer, or the next one when it is empty.
First == raw_seq - Len(info_deq)

\* A received packet was acknowledged by the client.
Acknowledged(e) == \E a \in acks : e.seq \in Window(a) \ a.nacks
FateKnown(e) == e.status # "Unknown" /\ (e.status = "Good" => Acknowledged(e))

\* The acks before this one have been pushed.
PushedBefore == IF pc["raw_ack"] = "push" THEN raw_ack.ack_seq ELSE expect_raw_ack_seq

\* What waits in the buffer.  A fate was only settled by an ack already pushed.
BufferInv ==
  /\ Len(info_deq) < raw_seq
  /\ Consecutive(info_deq, First)
  /\ \A i \in 1 .. Len(info_deq) :
       info_deq[i].status # "Unknown" =>
         /\ FateKnown(info_deq[i])
         /\ \E a \in acks : a.ack_seq < PushedBefore /\ info_deq[i].seq \in Window(a)

\* What the threads took out: all of it left the buffer, no packet is twice in
\* a vector or in two of them, and each fate is known.
VectorInv ==
  /\ \A t \in Threads :
       /\ Len(status_vec[t]) <= MaxRaw
       /\ next_rec[t] <= Len(status_vec[t]) + 1
       /\ pc[t] # "insert" => next_rec[t] = 1
       /\ \A i \in 1 .. Len(status_vec[t]) : FateKnown(status_vec[t][i]) /\ status_vec[t][i].seq < First
       /\ \A i, j \in 1 .. Len(status_vec[t]) : i # j => status_vec[t][i].seq # status_vec[t][j].seq
  /\ \A t, u \in Threads : t # u =>
       \A i \in 1 .. Len(status_vec[t]), j \in 1 .. Len(status_vec[u]) :
         status_vec[t][i].seq # status_vec[u][j].seq

\* Nothing is recorded before it left the buffer, nor before its turn.
UnreportedInv ==
  /\ \A s \in 1 .. MaxRaw : First <= s => reports[s] = 0
  /\ \A t \in {"raw_ack", "time_out"} : \A i \in next_rec[t] .. Len(status_vec[t]) :
       reports[status_vec[t][i].seq] = 0

\* The client numbers its acks, and their windows follow one another.
ClientInv ==
  /\ IsFiniteSet(acks) /\ Cardinality(acks) <= acked_to
  /\ \A a \in acks : /\ a.ack_seq <= Cardinality(acks) /\ a.end <= acked_to
                     /\ 1 <= BeginSeq(a) /\ BeginSeq(a) <= a.end
                     /\ a.nacks \subseteq Window(a)
  /\ \A a, b \in acks : a.ack_seq < b.ack_seq => a.end < BeginSeq(b)

AckInv ==
  pc["raw_ack"] = "push" => raw_ack \in acks /\ raw_ack.ack_seq = expect_raw_ack_seq - 1

FateInv == \A i \in 1 .. Len(records) : FateKnown(records[i])

Inv == TypeOK /\ BufferInv /\ VectorInv /\ UnreportedInv /\ ClientInv /\ AckInv /\ FateInv

\* The sequences a thread hands on are parts of those it has.
LEMMA PartOf ==
  ASSUME NEW deq \in Seq(RawPktSendStatus), NEW base \in Nat, Consecutive(deq, base),
         NEW m \in 1 .. Len(deq) + 1, NEW n \in m - 1 .. Len(deq)
  PROVE  /\ SubSeq(deq, m, n) \in Seq(RawPktSendStatus) /\ Len(SubSeq(deq, m, n)) = n - m + 1
         /\ Consecutive(SubSeq(deq, m, n), base + m - 1)
         /\ \A i \in 1 .. n - m + 1 : SubSeq(deq, m, n)[i] = deq[m + i - 1] /\ m + i - 1 \in 1 .. Len(deq)
<1>1. Len(deq) \in Nat /\ m \in Nat /\ n \in Nat /\ m <= n + 1 /\ n <= Len(deq) /\ 1 <= m
  OBVIOUS
<1>2. SubSeq(deq, m, n) \in Seq(RawPktSendStatus) /\ Len(SubSeq(deq, m, n)) = n - m + 1
  BY <1>1, SubSeqProperties
<1>3. ASSUME NEW i \in 1 .. n - m + 1
      PROVE  SubSeq(deq, m, n)[i] = deq[m + i - 1] /\ m + i - 1 \in 1 .. Len(deq)
  BY <1>1, SubSeqProperties
<1>4. ASSUME NEW i \in 1 .. n - m + 1
      PROVE  SubSeq(deq, m, n)[i].seq = base + m - 1 + i - 1
  <2>1. deq[m + i - 1].seq = base + (m + i - 1) - 1
    BY <1>3 DEF Consecutive
  <2> QED BY <1>1, <1>3, <2>1
<1> QED BY <1>2, <1>3, <1>4 DEF Consecutive

\* The pushed packets, when the buffer is as Inv says.
LEMMA PushedFacts ==
  ASSUME Inv, pc["raw_ack"] = "push"
  PROVE  LET pushed == PushPkts(info_deq, raw_ack)
             gone   == Len(info_deq) - Len(pushed)
         IN  /\ pushed \in Seq(RawPktSendStatus) /\ gone \in 0 .. Len(info_deq)
             /\ Len(pushed) \in Nat /\ Len(pushed) <= Len(info_deq)
             /\ Consecutive(pushed, First + gone)
             /\ \A i \in 1 .. Len(pushed) :
                  pushed[i].status # "Unknown" =>
                    /\ FateKnown(pushed[i])
                    /\ \E a \in acks : a.ack_seq <= raw_ack.ack_seq /\ pushed[i].seq \in Window(a)
<1> DEFINE pushed == PushPkts(info_deq, raw_ack)
           gone   == Len(info_deq) - Len(pushed)
<1>1. /\ info_deq \in Seq(RawPktSendStatus) /\ Len(info_deq) \in Nat /\ raw_seq \in Nat
      /\ raw_ack \in acks /\ raw_ack \in RawAcks /\ acks \subseteq RawAcks
      /\ Len(info_deq) < raw_seq /\ Consecutive(info_deq, First)
  BY DEF Inv, TypeOK, AckInv, BufferInv
<1>2. /\ BeginSeq(raw_ack) <= raw_ack.end /\ raw_ack.nacks \subseteq Window(raw_ack) /\ raw_ack.ack_seq \in Int
  BY <1>1 DEF Inv, ClientInv, RawAcks
<1>3. First \in Nat
  BY <1>1 DEF First
<1>4. /\ pushed \in Seq(RawPktSendStatus) /\ Len(pushed) <= Len(info_deq)
      /\ \A i \in 1 .. Len(pushed) :
           /\ pushed[i].seq = First + gone + i - 1
           /\ \/ pushed[i] = info_deq[gone + i]
              \/ pushed[i].status = "Bad" /\ pushed[i].seq \in raw_ack.nacks
              \/ pushed[i].status = "Good" /\ pushed[i].seq \in Window(raw_ack) \ raw_ack.nacks
  BY <1>1, <1>2, <1>3, PushPktsResult
<1> HIDE DEF pushed
<1>5. Len(pushed) \in Nat /\ gone \in 0 .. Len(info_deq)
  BY <1>1, <1>4
<1>6. ASSUME NEW i \in 1 .. Len(pushed), pushed[i].status # "Unknown"
      PROVE  /\ FateKnown(pushed[i])
             /\ \E a \in acks : a.ack_seq <= raw_ack.ack_seq /\ pushed[i].seq \in Window(a)
  <2>1. CASE pushed[i] = info_deq[gone + i]
    <3>1. gone + i \in 1 .. Len(info_deq)
      BY <1>1, <1>5
    <3>2. FateKnown(pushed[i]) /\ \E a \in acks : a.ack_seq < raw_ack.ack_seq /\ pushed[i].seq \in Window(a)
      BY <1>6, <2>1, <3>1 DEF Inv, BufferInv, PushedBefore
    <3>3. \A a \in acks : a.ack_seq < raw_ack.ack_seq => a.ack_seq <= raw_ack.ack_seq
      BY <1>1, <1>2 DEF RawAcks
    <3> QED BY <3>2, <3>3
  <2>2. CASE pushed[i].status = "Bad" /\ pushed[i].seq \in raw_ack.nacks
    <3>1. FateKnown(pushed[i])
      BY <2>2 DEF FateKnown
    <3> QED BY <1>1, <1>2, <2>2, <3>1
  <2>3. CASE pushed[i].status = "Good" /\ pushed[i].seq \in Window(raw_ack) \ raw_ack.nacks
    <3>1. FateKnown(pushed[i])
      BY <1>1, <2>3 DEF FateKnown, Acknowledged
    <3> QED BY <1>1, <1>2, <2>3, <3>1
  <2> QED BY <1>4, <2>1, <2>2, <2>3
<1>7. Consecutive(pushed, First + gone)
  BY <1>4 DEF Consecutive
<1> QED BY <1>4, <1>5, <1>6, <1>7 DEF pushed

-----------------------------------------------------------------------------
(* The steps preserve it.                                                  *)

LEMMA InitInv == Init => Inv
<1> SUFFICES ASSUME Init PROVE Inv
  OBVIOUS
<1> USE RawAssumption DEF Init
<1>1. TypeOK
  BY EmptySeq DEF TypeOK, Threads
<1>2. BufferInv
  BY EmptySeq DEF BufferInv, Consecutive, First
<1>3. VectorInv
  BY EmptySeq DEF VectorInv
<1>4. UnreportedInv
  BY EmptySeq DEF UnreportedInv, Threads
<1>5. ClientInv
  BY FS_EmptySet DEF ClientInv
<1>6. AckInv /\ FateInv
  BY EmptySeq DEF AckInv, FateInv, Threads
<1> QED BY <1>1, <1>2, <1>3, <1>4, <1>5, <1>6 DEF Inv

\* A thread takes packets out of the buffer, in order, and gives them on.
LEMMA TakeOut ==
  ASSUME Inv, NEW t \in Threads, NEW vec \in Seq(RawPktSendStatus), NEW base \in Nat,
         Consecutive(vec, base), \A i \in 1 .. Len(vec) : FateKnown(vec[i]),
         First <= base, base + Len(vec) <= First', First' \in Nat, First' <= MaxRaw + 1,
         GiveToRecords(t, vec), UNCHANGED <<acks, reports>>
  PROVE  /\ VectorInv' /\ UnreportedInv'
         /\ pc' \in [Threads -> {"push", "insert", "write", "wait"}]
         /\ status_vec' \in [Threads -> Seq(RawPktSendStatus)]
         /\ next_rec' \in [Threads -> 1 .. MaxRaw + 1]
<1>1. /\ pc \in [Threads -> {"push", "insert", "write", "wait"}]
      /\ status_vec \in [Threads -> Seq(RawPktSendStatus)] /\ next_rec \in [Threads -> 1 .. MaxRaw + 1]
      /\ raw_seq \in Nat /\ Len(info_deq) \in Nat /\ Len(info_deq) < raw_seq /\ MaxRaw \in Nat
  BY RawAssumption DEF Inv, TypeOK, BufferInv
<1>2. First \in Nat /\ First >= 1 /\ First <= First' /\ Len(vec) \in Nat
  <2>1. First \in Nat /\ First >= 1 /\ Len(vec) \in Nat
    BY <1>1 DEF First
  <2> QED BY <2>1
<1>3. /\ status_vec' = [status_vec EXCEPT ![t] = vec] /\ next_rec' = [next_rec EXCEPT ![t] = 1]
      /\ pc' = [pc EXCEPT ![t] = "insert"]
  BY DEF GiveToRecords
<1>4. /\ status_vec'[t] = vec /\ next_rec'[t] = 1
      /\ \A u \in Threads : u # t => status_vec'[u] = status_vec[u] /\ next_rec'[u] = next_rec[u] /\ pc'[u] = pc[u]
  BY <1>1, <1>3
<1>5. acks' = acks
  OBVIOUS
<1>6. \A i \in 1 .. Len(vec) : vec[i].seq = base + i - 1
  BY DEF Consecutive
<1>7. \A i \in 1 .. Len(vec) : First <= vec[i].seq /\ vec[i].seq < First' /\ vec[i].seq \in 1 .. MaxRaw
  <2> SUFFICES ASSUME NEW i \in 1 .. Len(vec)
               PROVE  First <= base + i - 1 /\ base + i - 1 < First' /\ base + i - 1 \in 1 .. MaxRaw
    BY <1>6
  <2>1. i \in Int /\ 1 <= i /\ i <= Len(vec)
    BY <1>2
  <2> QED BY <1>1, <1>2, <2>1
<1>8. Len(vec) <= MaxRaw
  BY <1>1, <1>2
<1>9. \A u \in Threads : \A i \in 1 .. Len(status_vec[u]) :
        /\ FateKnown(status_vec[u][i]) /\ status_vec[u][i].seq < First
        /\ status_vec[u][i].seq \in Nat
  <2>1. \A u \in Threads : \A i \in 1 .. Len(status_vec[u]) : status_vec[u][i] \in RawPktSendStatus
    BY <1>1, ElementOfSeq
  <2> QED BY <2>1 DEF Inv, VectorInv, RawPktSendStatus
<1>10. VectorInv'
  <2>1. ASSUME NEW u \in Threads
        PROVE  /\ Len(status_vec'[u]) <= MaxRaw
               /\ next_rec'[u] <= Len(status_vec'[u]) + 1
               /\ pc'[u] # "insert" => next_rec'[u] = 1
               /\ \A i \in 1 .. Len(status_vec'[u]) :
                    FateKnown(status_vec'[u][i]) /\ status_vec'[u][i].seq < First'
               /\ \A i, j \in 1 .. Len(status_vec'[u]) : i # j => status_vec'[u][i].seq # status_vec'[u][j].seq
    <3>1. CASE u = t
      <4>1. \A i, j \in 1 .. Len(vec) : i # j => vec[i].seq # vec[j].seq
        BY <1>2, <1>6
      <4> QED BY <1>2, <1>4, <1>7, <1>8, <3>1, <4>1
    <3>2. CASE u # t
      <4>1. \A i \in 1 .. Len(status_vec[u]) : status_vec[u][i].seq < First'
        BY <1>2, <1>9
      <4>2. /\ Len(status_vec[u]) <= MaxRaw /\ next_rec[u] <= Len(status_vec[u]) + 1
            /\ pc[u] # "insert" => next_rec[u] = 1
            /\ \A i, j \in 1 .. Len(status_vec[u]) : i # j => status_vec[u][i].seq # status_vec[u][j].seq
        BY DEF Inv, VectorInv
      <4> QED BY <1>4, <1>9, <3>2, <4>1, <4>2
    <3> QED BY <3>1, <3>2
  <2>2. ASSUME NEW u \in Threads, NEW w \in Threads, u # w,
               NEW i \in 1 .. Len(status_vec'[u]), NEW j \in 1 .. Len(status_vec'[w])
        PROVE  status_vec'[u][i].seq # status_vec'[w][j].seq
    <3>1. \A v \in Threads : \A k \in 1 .. Len(vec), n \in 1 .. Len(status_vec[v]) :
            vec[k].seq # status_vec[v][n].seq
      BY <1>2, <1>7, <1>9
    <3>2. CASE u = t
      BY <1>4, <2>2, <3>1, <3>2
    <3>3. CASE w = t
      <4>1. /\ status_vec'[u] = status_vec[u] /\ i \in 1 .. Len(status_vec[u])
            /\ status_vec'[w] = vec /\ j \in 1 .. Len(vec)
        BY <1>4, <2>2, <3>3
      <4> QED BY <3>1, <4>1
    <3>4. CASE u # t /\ w # t
      <4>1. /\ status_vec'[u] = status_vec[u] /\ i \in 1 .. Len(status_vec[u])
            /\ status_vec'[w] = status_vec[w] /\ j \in 1 .. Len(status_vec[w])
        BY <1>4, <2>2, <3>4
      <4>2. status_vec[u][i].seq # status_vec[w][j].seq
        BY <2>2, <4>1 DEF Inv, VectorInv
      <4> QED BY <4>1, <4>2
    <3> QED BY <3>2, <3>3, <3>4
  <2> QED BY <1>5, <2>1, <2>2 DEF VectorInv, FateKnown, Acknowledged
<1>11. UnreportedInv'
  <2>1. \A s \in 1 .. MaxRaw : First' <= s => reports'[s] = 0
    BY <1>2 DEF Inv, UnreportedInv
  <2>2. ASSUME NEW u \in {"raw_ack", "time_out"}, NEW i \in next_rec'[u] .. Len(status_vec'[u])
        PROVE  reports'[status_vec'[u][i].seq] = 0
    <3>0. u \in Threads
      BY DEF Threads
    <3>1. CASE u = t
      <4>1. i \in 1 .. Len(vec)
        BY <1>4, <3>1
      <4> QED BY <1>4, <1>7, <3>1, <4>1 DEF Inv, UnreportedInv
    <3>2. CASE u # t
      BY <1>4, <3>0, <3>2 DEF Inv, UnreportedInv
    <3> QED BY <3>1, <3>2
  <2> QED BY <2>1, <2>2 DEF UnreportedInv
<1>12. /\ pc' \in [Threads -> {"push", "insert", "write", "wait"}]
       /\ status_vec' \in [Threads -> Seq(RawPktSendStatus)] /\ next_rec' \in [Threads -> 1 .. MaxRaw + 1]
  BY <1>1, <1>3
<1> QED BY <1>10, <1>11, <1>12

\* The parts of Inv that a step leaves alone with their variables.
LEMMA Kept ==
  ASSUME Inv
  PROVE  /\ UNCHANGED <<acks, acked_to>> => ClientInv'
         /\ UNCHANGED <<raw_ack, expect_raw_ack_seq, acks>> /\ (pc'["raw_ack"] = "push" => pc["raw_ack"] = "push") => AckInv'
         /\ UNCHANGED <<records, acks>> => FateInv'
         /\ UNCHANGED <<raw_seq, info_deq, acks>> /\ PushedBefore' = PushedBefore => BufferInv'
<1>1. ASSUME UNCHANGED <<acks, acked_to>> PROVE ClientInv'
  BY <1>1 DEF Inv, ClientInv
<1>2. ASSUME UNCHANGED <<raw_ack, expect_raw_ack_seq, acks>>, pc'["raw_ack"] = "push" => pc["raw_ack"] = "push"
      PROVE  AckInv'
  BY <1>2 DEF Inv, AckInv
<1>3. ASSUME UNCHANGED <<records, acks>> PROVE FateInv'
  BY <1>3 DEF Inv, FateInv, FateKnown, Acknowledged
<1>4. ASSUME UNCHANGED <<raw_seq, info_deq, acks>>, PushedBefore' = PushedBefore PROVE BufferInv'
  <2>1. First' = First
    BY <1>4 DEF First
  <2>2. Len(info_deq') < raw_seq' /\ Consecutive(info_deq', First')
    BY <1>4, <2>1 DEF Inv, BufferInv
  <2>3. \A i \in 1 .. Len(info_deq') :
          info_deq'[i].status # "Unknown" =>
            /\ info_deq'[i].status = "Good" => \E a \in acks' : info_deq'[i].seq \in Window(a) \ a.nacks
            /\ \E a \in acks' : a.ack_seq < PushedBefore' /\ info_deq'[i].seq \in Window(a)
    BY <1>4 DEF Inv, BufferInv, FateKnown, Acknowledged
  <2> QED BY <2>2, <2>3 DEF BufferInv, FateKnown, Acknowledged, Consecutive
<1> QED BY <1>1, <1>2, <1>3, <1>4

\* A step that takes nothing out of the buffer may repeat or drop a vector.
LEMMA VectorsKept ==
  ASSUME Inv, First' = First, acks \subseteq acks', reports' = reports,
         \A u \in Threads :
           \/ status_vec'[u] = <<>> /\ next_rec'[u] = 1
           \/ u = "send_batch" /\ status_vec'[u] = status_vec[u] /\ next_rec'[u] = 1
           \/ /\ status_vec'[u] = status_vec[u] /\ next_rec'[u] = next_rec[u]
              /\ pc'[u] # "insert" => pc[u] # "insert"
  PROVE  VectorInv' /\ UnreportedInv'
<1>1. /\ status_vec \in [Threads -> Seq(RawPktSendStatus)] /\ next_rec \in [Threads -> 1 .. MaxRaw + 1]
      /\ MaxRaw \in Nat
  BY RawAssumption DEF Inv, TypeOK
<1>2. \A u \in Threads : status_vec'[u] = status_vec[u] \/ Len(status_vec'[u]) = 0
  BY EmptySeq
<1>3. \A u \in Threads : /\ Len(status_vec'[u]) <= MaxRaw
                         /\ next_rec'[u] <= Len(status_vec'[u]) + 1
                         /\ pc'[u] # "insert" => next_rec'[u] = 1
  <2>1. \A u \in Threads : Len(status_vec[u]) \in Nat
    BY <1>1
  <2>2. \A u \in Threads : /\ Len(status_vec[u]) <= MaxRaw
                           /\ next_rec[u] <= Len(status_vec[u]) + 1
                           /\ pc[u] # "insert" => next_rec[u] = 1
    BY DEF Inv, VectorInv
  <2> QED BY <1>1, <2>1, <2>2, EmptySeq
<1>4. \A u \in Threads : \A i \in 1 .. Len(status_vec'[u]) :
        i \in 1 .. Len(status_vec[u]) /\ status_vec'[u][i] = status_vec[u][i]
  BY <1>2
<1>5. ASSUME NEW u \in Threads, NEW i \in 1 .. Len(status_vec'[u])
      PROVE  /\ FateKnown(status_vec'[u][i]) /\ status_vec'[u][i].seq < First
             /\ \A j \in 1 .. Len(status_vec'[u]) : i # j => status_vec'[u][i].seq # status_vec'[u][j].seq
  <2>1. FateKnown(status_vec'[u][i]) /\ status_vec'[u][i].seq < First
    BY <1>4 DEF Inv, VectorInv
  <2>2. ASSUME NEW j \in 1 .. Len(status_vec'[u]), i # j
        PROVE  status_vec'[u][i].seq # status_vec'[u][j].seq
    <3>1. status_vec[u][i].seq # status_vec[u][j].seq
      BY <1>4, <2>2 DEF Inv, VectorInv
    <3> QED BY <1>4, <3>1
  <2> QED BY <2>1, <2>2
<1>6. ASSUME NEW u \in Threads, NEW w \in Threads, u # w,
             NEW i \in 1 .. Len(status_vec'[u]), NEW j \in 1 .. Len(status_vec'[w])
      PROVE  status_vec'[u][i].seq # status_vec'[w][j].seq
  <2>1. status_vec[u][i].seq # status_vec[w][j].seq
    BY <1>4, <1>6 DEF Inv, VectorInv
  <2> QED BY <1>4, <2>1
<1>7. VectorInv'
  BY <1>3, <1>5, <1>6 DEF VectorInv, FateKnown, Acknowledged
<1>8. ASSUME NEW u \in {"raw_ack", "time_out"}, NEW i \in next_rec'[u] .. Len(status_vec'[u])
      PROVE  reports[status_vec'[u][i].seq] = 0
  <2>1. u \in Threads /\ u # "send_batch"
    BY DEF Threads
  <2>2. status_vec'[u] # <<>>
    <3>1. next_rec'[u] \in Nat /\ 1 <= next_rec'[u]
      BY <1>1, <2>1
    <3> QED BY <1>8, <3>1, EmptySeq
  <2> QED BY <2>1, <2>2 DEF Inv, UnreportedInv
<1>9. UnreportedInv'
  BY <1>8 DEF Inv, UnreportedInv
<1> QED BY <1>7, <1>9

LEMMA InsertRecordInv ==
  ASSUME Inv, NEW t \in Threads, InsertRecord(t)
  PROVE  Inv'
<1> DEFINE n     == next_rec[t]
           pkt   == status_vec[t][n]
           rec   == Append(records, pkt)
           fresh == {i \in 1 .. Len(rec) : rec[i].seq + Duration >= pkt.seq}
           first == CHOOSE i \in fresh : \A j \in fresh : i <= j
<1>1. /\ status_vec \in [Threads -> Seq(RawPktSendStatus)] /\ next_rec \in [Threads -> 1 .. MaxRaw + 1]
      /\ records \in Seq(RawPktSendStatus) /\ reports \in [1 .. MaxRaw -> Nat] /\ MaxRaw \in Nat
  BY RawAssumption DEF Inv, TypeOK
<1>2. /\ pc[t] = "insert" /\ n <= Len(status_vec[t]) /\ records' = SubSeq(rec, first, Len(rec))
      /\ reports' = [reports EXCEPT ![pkt.seq] = @ + 1] /\ next_rec' = [next_rec EXCEPT ![t] = @ + 1]
      /\ UNCHANGED <<raw_seq, sent, info_deq, pc, status_vec, raw_ack, expect_raw_ack_seq, acks, acked_to>>
  BY DEF InsertRecord, ackVars, clientVars
<1>3. n \in 1 .. Len(status_vec[t]) /\ Len(status_vec[t]) \in Nat /\ n \in Nat /\ Len(status_vec[t]) <= MaxRaw
  <2>1. n \in 1 .. MaxRaw + 1 /\ Len(status_vec[t]) \in Nat
    BY <1>1
  <2>2. Len(status_vec[t]) <= MaxRaw
    BY DEF Inv, VectorInv
  <2> HIDE DEF n
  <2> QED BY <1>1, <1>2, <2>1, <2>2
<1>4. pkt \in RawPktSendStatus /\ FateKnown(pkt) /\ pkt.seq < First
  BY <1>1, <1>3, ElementOfSeq DEF Inv, VectorInv
<1>5. pkt.seq \in 1 .. MaxRaw /\ pkt.seq \in Nat
  BY <1>1, <1>4 DEF RawPktSendStatus
<1>6. /\ next_rec'[t] = n + 1 /\ \A u \in Threads : u # t => next_rec'[u] = next_rec[u]
      /\ \A s \in 1 .. MaxRaw : s # pkt.seq => reports'[s] = reports[s]
  BY <1>1, <1>2
<1>7. /\ rec \in Seq(RawPktSendStatus) /\ Len(rec) = Len(records) + 1 /\ Len(records) \in Nat
      /\ \A i \in 1 .. Len(records) : rec[i] = records[i]
      /\ rec[Len(rec)] = pkt
  BY <1>1, <1>4, AppendProperties
<1> HIDE DEF pkt, rec, n
<1>8. first \in 1 .. Len(rec)
  <2>1. Len(rec) \in fresh
    BY <1>5, <1>7, RawAssumption
  <2>2. fresh \subseteq Nat /\ fresh \subseteq 1 .. Len(rec)
    BY <1>7
  <2> HIDE DEF fresh
  <2>3. \E i \in fresh : \A j \in fresh : i <= j
    BY <2>1, <2>2, LeastExists
  <2> QED BY <2>2, <2>3
<1> HIDE DEF first
<1>9. /\ records' \in Seq(RawPktSendStatus) /\ Len(records') = Len(rec) - first + 1
      /\ \A i \in 1 .. Len(rec) - first + 1 : records'[i] = rec[first + i - 1]
  BY <1>2, <1>7, <1>8, SubSeqProperties
<1>10. FateInv'
  <2>1. ASSUME NEW i \in 1 .. Len(rec) PROVE FateKnown(rec[i])
    <3>1. i \in 1 .. Len(records) \/ i = Len(rec)
      BY <1>7
    <3> QED BY <1>4, <1>7, <3>1 DEF Inv, FateInv
  <2>2. ASSUME NEW i \in 1 .. Len(records') PROVE FateKnown(records'[i])
    <3>1. first + i - 1 \in 1 .. Len(rec) /\ i \in 1 .. Len(rec) - first + 1
      BY <1>7, <1>8, <1>9
    <3> QED BY <1>9, <2>1, <3>1
  <2> QED BY <1>2, <2>2 DEF FateInv, FateKnown, Acknowledged
<1>11. TypeOK'
  <2>1. next_rec' \in [Threads -> 1 .. MaxRaw + 1]
    <3>1. n + 1 \in 1 .. MaxRaw + 1
      BY <1>1, <1>3
    <3> QED BY <1>1, <1>2, <3>1 DEF n
  <2>2. reports' \in [1 .. MaxRaw -> Nat]
    <3>1. reports[pkt.seq] + 1 \in Nat
      BY <1>1, <1>5
    <3>2. reports' = [reports EXCEPT ![pkt.seq] = reports[pkt.seq] + 1]
      BY <1>2
    <3> QED BY <1>1, <3>1, <3>2
  <2> QED BY <1>2, <1>9, <2>1, <2>2 DEF Inv, TypeOK
<1>12. First' = First
  BY <1>2 DEF First
<1>13. VectorInv'
  <2>1. \A u \in Threads : next_rec'[u] <= Len(status_vec[u]) + 1 /\ (pc[u] # "insert" => next_rec'[u] = 1)
    <3>1. n + 1 <= Len(status_vec[t]) + 1
      BY <1>3
    <3> QED BY <1>2, <1>6, <3>1 DEF Inv, VectorInv
  <2>2. /\ \A u \in Threads :
             /\ Len(status_vec[u]) <= MaxRaw
             /\ \A i \in 1 .. Len(status_vec[u]) : FateKnown(status_vec[u][i]) /\ status_vec[u][i].seq < First
             /\ \A i, j \in 1 .. Len(status_vec[u]) : i # j => status_vec[u][i].seq # status_vec[u][j].seq
        /\ \A u, w \in Threads : u # w =>
             \A i \in 1 .. Len(status_vec[u]), j \in 1 .. Len(status_vec[w]) :
               status_vec[u][i].seq # status_vec[w][j].seq
    BY DEF Inv, VectorInv
  <2>3. \A u \in Threads : \A i \in 1 .. Len(status_vec'[u]) :
          FateKnown(status_vec[u][i])' /\ status_vec'[u][i].seq < First'
    BY <1>2, <1>12, <2>2 DEF FateKnown, Acknowledged
  <2> QED BY <1>2, <2>1, <2>2, <2>3 DEF VectorInv
<1>14. UnreportedInv'
  <2>1. ASSUME NEW s \in 1 .. MaxRaw, First <= s PROVE reports'[s] = 0
    <3>1. s # pkt.seq
      <4>1. First \in Int /\ s \in Int
        BY <1>1 DEF First, Inv, TypeOK
      <4> QED BY <1>4, <1>5, <2>1, <4>1
    <3> QED BY <1>6, <2>1, <3>1 DEF Inv, UnreportedInv
  <2>2. ASSUME NEW u \in {"raw_ack", "time_out"}, NEW i \in next_rec'[u] .. Len(status_vec[u])
        PROVE  reports'[status_vec[u][i].seq] = 0
    <3>1. u \in Threads /\ Len(status_vec[u]) \in Nat /\ next_rec[u] \in 1 .. MaxRaw + 1
      BY <1>1 DEF Threads
    <3>2. i \in next_rec[u] .. Len(status_vec[u]) /\ i \in 1 .. Len(status_vec[u]) /\ (u = t => i # n)
      BY <1>3, <1>6, <3>1 DEF n
    <3>3. status_vec[u][i].seq # pkt.seq
      <4>1. CASE u = t
        <5>1. \A k, m \in 1 .. Len(status_vec[t]) : k # m => status_vec[t][k].seq # status_vec[t][m].seq
          BY DEF Inv, VectorInv
        <5> QED BY <1>3, <3>2, <4>1, <5>1 DEF pkt
      <4>2. CASE u # t
        <5>1. \A k \in 1 .. Len(status_vec[u]), m \in 1 .. Len(status_vec[t]) :
                status_vec[u][k].seq # status_vec[t][m].seq
          BY <3>1, <4>2 DEF Inv, VectorInv
        <5> QED BY <1>3, <3>2, <5>1 DEF pkt
      <4> QED BY <4>1, <4>2
    <3>4. status_vec[u][i].seq \in 1 .. MaxRaw
      <4>1. status_vec[u] \in Seq(RawPktSendStatus)
        BY <1>1, <3>1
      <4>2. status_vec[u][i] \in RawPktSendStatus
        BY <3>2, <4>1, ElementOfSeq
      <4> QED BY <4>2 DEF RawPktSendStatus
    <3> QED BY <1>6, <3>2, <3>3, <3>4 DEF Inv, UnreportedInv
  <2> QED BY <1>2, <1>12, <2>1, <2>2 DEF UnreportedInv
<1>15. BufferInv' /\ ClientInv' /\ AckInv'
  BY <1>2, Kept DEF PushedBefore
<1> QED BY <1>10, <1>11, <1>13, <1>14, <1>15 DEF Inv

LEMMA InsertDoneInv ==
  ASSUME Inv, NEW t \in Threads, InsertDone(t)
  PROVE  Inv'
<1>1. /\ status_vec \in [Threads -> Seq(RawPktSendStatus)] /\ next_rec \in [Threads -> 1 .. MaxRaw + 1]
      /\ pc \in [Threads -> {"push", "insert", "write", "wait"}] /\ MaxRaw \in Nat
  BY RawAssumption DEF Inv, TypeOK
<1>2. /\ pc[t] = "insert" /\ next_rec' = [next_rec EXCEPT ![t] = 1]
      /\ pc' = [pc EXCEPT ![t] = IF t = "send_batch" THEN "write" ELSE "wait"]
      /\ status_vec' = IF t = "send_batch" THEN status_vec ELSE [status_vec EXCEPT ![t] = <<>>]
      /\ UNCHANGED <<raw_seq, sent, info_deq, records, reports, raw_ack, expect_raw_ack_seq, acks, acked_to>>
  BY DEF InsertDone, recVars, ackVars, clientVars
<1>3. \A u \in Threads : u # t => status_vec'[u] = status_vec[u] /\ next_rec'[u] = next_rec[u] /\ pc'[u] = pc[u]
  BY <1>1, <1>2
<1>4. next_rec'[t] = 1 /\ pc'[t] # "push" /\ (status_vec'[t] = status_vec[t] \/ status_vec'[t] = <<>>)
  BY <1>1, <1>2
<1>5. t # "send_batch" => status_vec'[t] = <<>>
  BY <1>1, <1>2
<1>6. First' = First
  BY <1>2 DEF First
<1>7. TypeOK'
  <2>1. next_rec' \in [Threads -> 1 .. MaxRaw + 1]
    BY <1>1, <1>2
  <2>2. status_vec' \in [Threads -> Seq(RawPktSendStatus)]
    BY <1>1, <1>2, EmptySeq
  <2>3. pc' \in [Threads -> {"push", "insert", "write", "wait"}]
    BY <1>1, <1>2
  <2> QED BY <1>2, <2>1, <2>2, <2>3 DEF Inv, TypeOK
<1>8. VectorInv' /\ UnreportedInv'
  BY <1>2, <1>3, <1>4, <1>5, <1>6, VectorsKept
<1>9. PushedBefore' = PushedBefore
  <2>1. "raw_ack" \in Threads
    BY DEF Threads
  <2> QED BY <1>2, <1>3, <1>4, <2>1 DEF PushedBefore
<1>10. BufferInv' /\ ClientInv' /\ AckInv' /\ FateInv'
  <2>1. pc'["raw_ack"] = "push" => pc["raw_ack"] = "push"
    BY <1>3, <1>4 DEF Threads
  <2> QED BY <1>2, <1>9, <2>1, Kept
<1> QED BY <1>7, <1>8, <1>10 DEF Inv

LEMMA WriteInv ==
  ASSUME Inv, WriteToAir
  PROVE  Inv'
<1>1. /\ pc \in [Threads -> {"push", "insert", "write", "wait"}] /\ raw_seq \in 1 .. MaxRaw + 1
      /\ sent \in 0 .. raw_seq - 1 /\ acked_to \in 0 .. sent /\ MaxRaw \in Nat
  BY RawAssumption DEF Inv, TypeOK
<1>2. /\ sent' = raw_seq - 1 /\ pc' = [pc EXCEPT !["send_batch"] = "push"]
      /\ UNCHANGED <<raw_seq, info_deq, status_vec, next_rec, records, reports, raw_ack, expect_raw_ack_seq, acks, acked_to>>
  BY DEF WriteToAir, recVars, ackVars, clientVars
<1>3. /\ pc'["raw_ack"] = pc["raw_ack"] /\ pc' \in [Threads -> {"push", "insert", "write", "wait"}]
      /\ \A t \in Threads : pc'[t] # "insert" => pc[t] # "insert"
  BY <1>1, <1>2 DEF Threads, WriteToAir
<1>4. TypeOK'
  <2>1. sent' \in 0 .. raw_seq - 1 /\ acked_to \in 0 .. sent'
    BY <1>1, <1>2
  <2> QED BY <1>2, <1>3, <2>1 DEF Inv, TypeOK
<1>5. First' = First /\ PushedBefore' = PushedBefore
  BY <1>2, <1>3 DEF First, PushedBefore
<1>6. VectorInv' /\ UnreportedInv'
  BY <1>2, <1>3, <1>5, VectorsKept
<1> QED BY <1>2, <1>3, <1>4, <1>5, <1>6, Kept DEF Inv

LEMMA EndOfBatchInv ==
  ASSUME Inv, EndOfBatch
  PROVE  Inv'
<1>1. status_vec \in [Threads -> Seq(RawPktSendStatus)] /\ "send_batch" \in Threads
  BY DEF Inv, TypeOK, Threads
<1>2. /\ pc["send_batch"] = "push" /\ status_vec' = [status_vec EXCEPT !["send_batch"] = <<>>]
      /\ UNCHANGED <<raw_seq, sent, info_deq, pc, next_rec, records, reports, raw_ack, expect_raw_ack_seq, acks, acked_to>>
  BY DEF EndOfBatch, recVars, ackVars, clientVars
<1>3. First' = First /\ PushedBefore' = PushedBefore
  BY <1>2 DEF First, PushedBefore
<1>4. next_rec["send_batch"] = 1
  BY <1>1, <1>2 DEF Inv, VectorInv
<1>5. VectorInv' /\ UnreportedInv'
  BY <1>1, <1>2, <1>3, <1>4, VectorsKept
<1>6. TypeOK'
  <2>1. status_vec' \in [Threads -> Seq(RawPktSendStatus)]
    BY <1>1, <1>2, EmptySeq
  <2> QED BY <1>2, <2>1 DEF Inv, TypeOK
<1> QED BY <1>2, <1>3, <1>5, <1>6, Kept DEF Inv

LEMMA RawAckArrivesInv ==
  ASSUME Inv, NEW ack \in acks, RawAckArrives(ack)
  PROVE  Inv'
<1>1. /\ pc \in [Threads -> {"push", "insert", "write", "wait"}] /\ "raw_ack" \in Threads
      /\ acks \subseteq RawAcks /\ expect_raw_ack_seq \in 1 .. MaxRaw + 1 /\ MaxRaw \in Nat
  BY RawAssumption DEF Inv, TypeOK, Threads
<1>2. /\ pc["raw_ack"] = "wait" /\ ack.ack_seq >= expect_raw_ack_seq
      /\ expect_raw_ack_seq' = ack.ack_seq + 1 /\ raw_ack' = ack
      /\ pc' = [pc EXCEPT !["raw_ack"] = "push"]
      /\ UNCHANGED <<raw_seq, sent, info_deq, status_vec, next_rec, records, reports, acks, acked_to>>
  BY DEF RawAckArrives, recVars, clientVars
<1>3. ack \in RawAcks /\ ack.ack_seq \in 1 .. MaxRaw
  BY <1>1 DEF RawAcks
<1>4. TypeOK'
  <2>1. expect_raw_ack_seq' \in 1 .. MaxRaw + 1
    BY <1>1, <1>2, <1>3
  <2>2. pc' \in [Threads -> {"push", "insert", "write", "wait"}]
    BY <1>1, <1>2
  <2> QED BY <1>2, <1>3, <2>1, <2>2 DEF Inv, TypeOK
<1>5. First' = First
  BY <1>2 DEF First
<1>6. VectorInv' /\ UnreportedInv'
  BY <1>1, <1>2, <1>5, VectorsKept
<1>7. BufferInv'
  <2>1. PushedBefore = expect_raw_ack_seq /\ PushedBefore' = ack.ack_seq
    BY <1>1, <1>2 DEF PushedBefore
  <2>2. \A a \in acks : a.ack_seq < PushedBefore => a.ack_seq < PushedBefore'
    BY <1>1, <1>2, <1>3, <2>1 DEF RawAcks
  <2>3. \A i \in 1 .. Len(info_deq) :
          info_deq[i].status # "Unknown" =>
            /\ FateKnown(info_deq[i])
            /\ \E a \in acks : a.ack_seq < PushedBefore' /\ info_deq[i].seq \in Window(a)
    BY <2>2 DEF Inv, BufferInv
  <2>4. Len(info_deq) < raw_seq /\ Consecutive(info_deq, First)
    BY DEF Inv, BufferInv
  <2> QED BY <1>2, <1>5, <2>3, <2>4 DEF BufferInv, FateKnown, Acknowledged, Consecutive
<1>8. AckInv'
  BY <1>2, <1>3 DEF AckInv
<1> QED BY <1>2, <1>4, <1>6, <1>7, <1>8, Kept DEF Inv

LEMMA ClientAckInv ==
  ASSUME Inv, NEW begin \in 1 .. sent, NEW end \in 1 .. sent, NEW nacks \in SUBSET (begin .. end),
         ClientAck(begin, end, nacks)
  PROVE  Inv'
<1> DEFINE ack == [ack_seq |-> Cardinality(acks) + 1, end |-> end, num_pkts |-> end - begin + 1, nacks |-> nacks]
<1>1. /\ sent \in Nat /\ sent <= MaxRaw /\ acked_to \in 0 .. sent /\ acks \subseteq RawAcks /\ MaxRaw \in Nat
  <2>1. sent \in 0 .. raw_seq - 1 /\ raw_seq \in 1 .. MaxRaw + 1 /\ MaxRaw \in Nat
    BY RawAssumption DEF Inv, TypeOK
  <2> QED BY <2>1 DEF Inv, TypeOK
<1>2. /\ acked_to < begin /\ begin <= end /\ end <= sent /\ nacks \subseteq begin .. end
      /\ acks' = acks \cup {ack} /\ acked_to' = end
      /\ UNCHANGED <<raw_seq, sent, info_deq, pc, status_vec, next_rec, records, reports, raw_ack, expect_raw_ack_seq>>
  BY DEF ClientAck, recVars, ackVars
<1>3. IsFiniteSet(acks) /\ Cardinality(acks) \in Nat /\ Cardinality(acks) <= acked_to
  BY FS_CardinalityType DEF Inv, ClientInv
<1>4. begin \in Nat /\ end \in Nat /\ acked_to \in Nat /\ 1 <= begin
  BY <1>1
<1>5. ack \in RawAcks
  <2>1. Cardinality(acks) + 1 \in 1 .. MaxRaw /\ end \in 1 .. MaxRaw /\ end - begin + 1 \in 1 .. MaxRaw
    BY <1>1, <1>2, <1>3, <1>4
  <2>2. nacks \subseteq 1 .. MaxRaw
    BY <1>1, <1>2, <1>4
  <2> QED BY <2>1, <2>2 DEF RawAcks
<1>6. BeginSeq(ack) = begin /\ Window(ack) = begin .. end
  BY <1>4 DEF BeginSeq, Window
<1>7. \A a \in acks : a.ack_seq \in Nat /\ a.ack_seq <= Cardinality(acks) /\ a.end <= acked_to /\ a.end \in Nat
  BY <1>1 DEF Inv, ClientInv, RawAcks
<1>8. /\ ack.ack_seq = Cardinality(acks) + 1 /\ ack.end = end /\ ack.nacks = nacks
  OBVIOUS
<1> HIDE DEF ack
<1>9. /\ IsFiniteSet(acks') /\ Cardinality(acks') = Cardinality(acks) + 1
  <2>1. ack \notin acks
    BY <1>3, <1>7, <1>8
  <2> QED BY <1>2, <1>3, <2>1, FS_AddElement
<1>10. ClientInv'
  <2>1. Cardinality(acks') <= acked_to'
    BY <1>2, <1>3, <1>4, <1>9
  <2>2. ASSUME NEW a \in acks'
        PROVE  /\ a.ack_seq <= Cardinality(acks') /\ a.end <= acked_to'
               /\ 1 <= BeginSeq(a) /\ BeginSeq(a) <= a.end
               /\ a.nacks \subseteq Window(a)
    <3>1. CASE a \in acks
      <4>1. a.ack_seq <= Cardinality(acks') /\ a.end <= acked_to'
        BY <1>2, <1>3, <1>4, <1>7, <1>9, <3>1
      <4> QED BY <3>1, <4>1 DEF Inv, ClientInv
    <3>2. CASE a = ack
      <4>1. a.ack_seq <= Cardinality(acks') /\ a.end <= acked_to'
        BY <1>2, <1>3, <1>4, <1>8, <1>9, <3>2
      <4>2. 1 <= BeginSeq(a) /\ BeginSeq(a) <= a.end
        BY <1>2, <1>4, <1>6, <1>8, <3>2
      <4>3. a.nacks \subseteq Window(a)
        BY <1>2, <1>6, <1>8, <3>2
      <4> QED BY <4>1, <4>2, <4>3
    <3> QED BY <1>2, <3>1, <3>2
  <2>3. ASSUME NEW a \in acks', NEW b \in acks', a.ack_seq < b.ack_seq
        PROVE  a.end < BeginSeq(b)
    <3>1. CASE a \in acks /\ b \in acks
      BY <2>3, <3>1 DEF Inv, ClientInv
    <3>2. CASE a \in acks /\ b = ack
      BY <1>2, <1>4, <1>6, <1>7, <3>2
    <3>3. CASE a = ack
      <4>1. b = ack \/ b \in acks
        BY <1>2
      <4> QED BY <1>3, <1>7, <1>8, <2>3, <3>3, <4>1
    <3> QED BY <1>2, <3>1, <3>2, <3>3
  <2> QED BY <1>9, <2>1, <2>2, <2>3 DEF ClientInv
<1>11. TypeOK'
  <2>1. acks' \subseteq RawAcks /\ acked_to' \in 0 .. sent
    BY <1>1, <1>2, <1>4, <1>5
  <2> QED BY <1>2, <2>1 DEF Inv, TypeOK
<1>12. First' = First /\ PushedBefore' = PushedBefore
  BY <1>2 DEF First, PushedBefore
<1>13. VectorInv' /\ UnreportedInv'
  BY <1>2, <1>12, VectorsKept
<1>14. AckInv' /\ FateInv'
  BY <1>2 DEF Inv, AckInv, FateInv, FateKnown, Acknowledged
<1>15. BufferInv'
  <2>1. \A i \in 1 .. Len(info_deq) :
          info_deq[i].status # "Unknown" =>
            /\ info_deq[i].status = "Good" => \E a \in acks' : info_deq[i].seq \in Window(a) \ a.nacks
            /\ \E a \in acks' : a.ack_seq < PushedBefore /\ info_deq[i].seq \in Window(a)
    BY <1>2 DEF Inv, BufferInv, FateKnown, Acknowledged
  <2>2. Len(info_deq) < raw_seq /\ Consecutive(info_deq, First)
    BY DEF Inv, BufferInv
  <2> QED BY <1>2, <1>12, <2>1, <2>2 DEF BufferInv, FateKnown, Acknowledged, Consecutive
<1> QED BY <1>10, <1>11, <1>13, <1>14, <1>15 DEF Inv

LEMMA PushInv ==
  ASSUME Inv, PushPktStatus
  PROVE  Inv'
<1>1. /\ pc \in [Threads -> {"push", "insert", "write", "wait"}] /\ next_rec \in [Threads -> 1 .. MaxRaw + 1]
      /\ status_vec \in [Threads -> Seq(RawPktSendStatus)] /\ info_deq \in Seq(RawPktSendStatus)
      /\ raw_seq \in 1 .. MaxRaw + 1 /\ sent \in 0 .. raw_seq - 1 /\ MaxRaw \in Nat /\ MaxRawBufSize \in Nat
  BY RawAssumption DEF Inv, TypeOK
<1>2. /\ raw_seq <= MaxRaw /\ Len(info_deq) < MaxRawBufSize
      /\ info_deq' = Append(info_deq, Unsent) /\ raw_seq' = raw_seq + 1
      /\ status_vec' = [status_vec EXCEPT !["send_batch"] = status_vec["send_batch"]]
      /\ next_rec' = [next_rec EXCEPT !["send_batch"] = 1] /\ pc' = [pc EXCEPT !["send_batch"] = "insert"]
      /\ UNCHANGED <<sent, records, reports, raw_ack, expect_raw_ack_seq, acks, acked_to>>
  BY DEF PushPktStatus, GiveToRecords, recVars, ackVars, clientVars
<1>3. /\ "send_batch" \in Threads /\ pc'["raw_ack"] = pc["raw_ack"] /\ status_vec' = status_vec
      /\ next_rec'["send_batch"] = 1 /\ pc'["send_batch"] = "insert"
      /\ \A t \in Threads : t # "send_batch" => next_rec'[t] = next_rec[t] /\ pc'[t] = pc[t]
  BY <1>1, <1>2 DEF Threads
<1>4. Unsent \in RawPktSendStatus /\ Unsent.seq = raw_seq /\ Unsent.status = "Unknown"
  <2>1. raw_seq \in 1 .. MaxRaw
    BY <1>1, <1>2
  <2> QED BY <2>1 DEF Unsent, RawPktSendStatus
<1>5. /\ info_deq' \in Seq(RawPktSendStatus) /\ Len(info_deq) \in Nat /\ Len(info_deq') = Len(info_deq) + 1
      /\ \A i \in 1 .. Len(info_deq) : info_deq'[i] = info_deq[i]
      /\ info_deq'[Len(info_deq) + 1] = Unsent
  BY <1>1, <1>2, <1>4, AppendProperties
<1>6. First' = First /\ PushedBefore' = PushedBefore
  <2>1. First' = First
    BY <1>1, <1>2, <1>5 DEF First
  <2> QED BY <1>2, <1>3, <2>1 DEF PushedBefore
<1>7. TypeOK'
  <2>1. raw_seq' \in 1 .. MaxRaw + 1 /\ sent \in 0 .. raw_seq' - 1 /\ Len(info_deq') <= MaxRawBufSize
    BY <1>1, <1>2, <1>5
  <2>2. pc' \in [Threads -> {"push", "insert", "write", "wait"}]
    BY <1>1, <1>2
  <2>3. next_rec' \in [Threads -> 1 .. MaxRaw + 1]
    <3>1. 1 \in 1 .. MaxRaw + 1
      BY <1>1
    <3> QED BY <1>1, <1>2, <3>1
  <2> QED BY <1>2, <1>3, <1>5, <2>1, <2>2, <2>3 DEF Inv, TypeOK
<1>8. BufferInv'
  <2>1. Len(info_deq) < raw_seq /\ Consecutive(info_deq, First)
    BY DEF Inv, BufferInv
  <2>2. \A i \in 1 .. Len(info_deq') : i \in 1 .. Len(info_deq) \/ i = Len(info_deq) + 1
    BY <1>5
  <2>3. Len(info_deq') < raw_seq'
    BY <1>1, <1>2, <1>5, <2>1
  <2>4. Consecutive(info_deq', First')
    <3>1. raw_seq = First + (Len(info_deq) + 1) - 1
      BY <1>1, <1>5 DEF First
    <3> QED BY <1>4, <1>5, <1>6, <2>1, <2>2, <3>1 DEF Consecutive
  <2>5. ASSUME NEW i \in 1 .. Len(info_deq'), info_deq'[i].status # "Unknown"
        PROVE  /\ FateKnown(info_deq'[i])
               /\ \E a \in acks : a.ack_seq < PushedBefore /\ info_deq'[i].seq \in Window(a)
    BY <1>4, <1>5, <2>2, <2>5 DEF Inv, BufferInv
  <2> QED BY <1>2, <1>6, <2>3, <2>4, <2>5 DEF BufferInv, FateKnown, Acknowledged
<1>9. VectorInv' /\ UnreportedInv'
  BY <1>2, <1>3, <1>6, VectorsKept
<1> QED BY <1>2, <1>3, <1>7, <1>8, <1>9, Kept DEF Inv

LEMMA PushFullInv ==
  ASSUME Inv, PushPktStatusFull
  PROVE  Inv'
<1>1. /\ pc \in [Threads -> {"push", "insert", "write", "wait"}] /\ info_deq \in Seq(RawPktSendStatus)
      /\ raw_seq \in 1 .. MaxRaw + 1 /\ sent \in 0 .. raw_seq - 1 /\ MaxRaw \in Nat /\ MaxRawBufSize \in Nat \ {0}
  BY RawAssumption DEF Inv, TypeOK
<1>2. /\ raw_seq <= MaxRaw /\ info_deq' = <<Unsent>> /\ raw_seq' = raw_seq + 1
      /\ GiveToRecords("send_batch", AllBad(info_deq))
      /\ UNCHANGED <<sent, records, reports, raw_ack, expect_raw_ack_seq, acks, acked_to>>
  BY DEF PushPktStatusFull, recVars, ackVars, clientVars
<1>3. "send_batch" \in Threads /\ pc'["raw_ack"] = pc["raw_ack"]
  BY <1>1, <1>2 DEF Threads, GiveToRecords
<1>4. Unsent \in RawPktSendStatus /\ Unsent.seq = raw_seq /\ Unsent.status = "Unknown"
  <2>1. raw_seq \in 1 .. MaxRaw
    BY <1>1, <1>2
  <2> QED BY <2>1 DEF Unsent, RawPktSendStatus
<1>5. info_deq' \in Seq(RawPktSendStatus) /\ Len(info_deq') = 1 /\ info_deq'[1] = Unsent
  BY <1>2, <1>4
<1>6. /\ Len(info_deq) \in Nat /\ First \in Nat /\ First + Len(info_deq) = raw_seq /\ First' = raw_seq
      /\ Consecutive(info_deq, First)
  BY <1>1, <1>2, <1>5 DEF First, Inv, BufferInv
<1>7. /\ AllBad(info_deq) \in Seq(RawPktSendStatus) /\ Len(AllBad(info_deq)) = Len(info_deq)
      /\ Consecutive(AllBad(info_deq), First)
      /\ \A i \in 1 .. Len(info_deq) : AllBad(info_deq)[i].status = "Bad"
  BY <1>1, <1>6, AllBadResult
<1>8. /\ VectorInv' /\ UnreportedInv'
      /\ pc' \in [Threads -> {"push", "insert", "write", "wait"}]
      /\ status_vec' \in [Threads -> Seq(RawPktSendStatus)]
      /\ next_rec' \in [Threads -> 1 .. MaxRaw + 1]
  <2>1. \A i \in 1 .. Len(AllBad(info_deq)) : FateKnown(AllBad(info_deq)[i])
    BY <1>7 DEF FateKnown
  <2>2. First <= First /\ First + Len(AllBad(info_deq)) <= First' /\ First' \in Nat /\ First' <= MaxRaw + 1
    BY <1>1, <1>2, <1>6, <1>7
  <2> QED BY <1>2, <1>3, <1>6, <1>7, <2>1, <2>2, TakeOut
<1>9. TypeOK'
  <2>1. raw_seq' \in 1 .. MaxRaw + 1 /\ sent \in 0 .. raw_seq' - 1 /\ Len(info_deq') <= MaxRawBufSize
    BY <1>1, <1>2, <1>5
  <2> QED BY <1>2, <1>5, <1>8, <2>1 DEF Inv, TypeOK
<1>10. BufferInv'
  <2>1. Len(info_deq') < raw_seq' /\ \A i \in 1 .. Len(info_deq') : i = 1
    BY <1>1, <1>2, <1>5
  <2>2. Consecutive(info_deq', First')
    BY <1>1, <1>4, <1>5, <1>6, <2>1 DEF Consecutive
  <2> QED BY <1>4, <1>5, <2>1, <2>2 DEF BufferInv
<1> QED BY <1>2, <1>3, <1>8, <1>9, <1>10, Kept DEF Inv

LEMMA ClearInv ==
  ASSUME Inv, ClearPktStatus
  PROVE  Inv'
<1>1. /\ pc \in [Threads -> {"push", "insert", "write", "wait"}] /\ info_deq \in Seq(RawPktSendStatus)
      /\ raw_seq \in 1 .. MaxRaw + 1 /\ MaxRaw \in Nat /\ MaxRawBufSize \in Nat
  BY RawAssumption DEF Inv, TypeOK
<1>2. /\ info_deq' = <<>> /\ GiveToRecords("time_out", AllBad(info_deq))
      /\ UNCHANGED <<raw_seq, sent, records, reports, raw_ack, expect_raw_ack_seq, acks, acked_to>>
  BY DEF ClearPktStatus, recVars, ackVars, clientVars
<1>3. "time_out" \in Threads /\ pc'["raw_ack"] = pc["raw_ack"]
  BY <1>1, <1>2 DEF Threads, GiveToRecords
<1>4. info_deq' \in Seq(RawPktSendStatus) /\ Len(info_deq') = 0
  BY <1>2, EmptySeq
<1>5. /\ Len(info_deq) \in Nat /\ First \in Nat /\ First + Len(info_deq) = raw_seq /\ First' = raw_seq
      /\ Consecutive(info_deq, First)
  BY <1>1, <1>2, <1>4 DEF First, Inv, BufferInv
<1>6. /\ AllBad(info_deq) \in Seq(RawPktSendStatus) /\ Len(AllBad(info_deq)) = Len(info_deq)
      /\ Consecutive(AllBad(info_deq), First)
      /\ \A i \in 1 .. Len(info_deq) : AllBad(info_deq)[i].status = "Bad"
  BY <1>1, <1>5, AllBadResult
<1>7. /\ VectorInv' /\ UnreportedInv'
      /\ pc' \in [Threads -> {"push", "insert", "write", "wait"}]
      /\ status_vec' \in [Threads -> Seq(RawPktSendStatus)]
      /\ next_rec' \in [Threads -> 1 .. MaxRaw + 1]
  <2>1. \A i \in 1 .. Len(AllBad(info_deq)) : FateKnown(AllBad(info_deq)[i])
    BY <1>6 DEF FateKnown
  <2>2. First <= First /\ First + Len(AllBad(info_deq)) <= First' /\ First' \in Nat /\ First' <= MaxRaw + 1
    BY <1>1, <1>5, <1>6
  <2> QED BY <1>2, <1>3, <1>5, <1>6, <2>1, <2>2, TakeOut
<1>8. TypeOK'
  BY <1>1, <1>2, <1>4, <1>7 DEF Inv, TypeOK
<1>9. BufferInv'
  BY <1>1, <1>2, <1>4 DEF BufferInv, Consecutive
<1> QED BY <1>2, <1>3, <1>7, <1>8, <1>9, Kept DEF Inv

LEMMA PopInv ==
  ASSUME Inv, PopPktStatus
  PROVE  Inv'
<1> DEFINE pushed == PushPkts(info_deq, raw_ack)
           known  == KnownPrefix(pushed)
           gone   == Len(info_deq) - Len(pushed)
<1>1. /\ pc \in [Threads -> {"push", "insert", "write", "wait"}] /\ info_deq \in Seq(RawPktSendStatus)
      /\ raw_seq \in 1 .. MaxRaw + 1 /\ MaxRaw \in Nat /\ MaxRawBufSize \in Nat
      /\ raw_ack \in acks /\ acks \subseteq RawAcks /\ raw_ack.ack_seq = expect_raw_ack_seq - 1
      /\ expect_raw_ack_seq \in 1 .. MaxRaw + 1 /\ Len(info_deq) <= MaxRawBufSize
  BY RawAssumption DEF Inv, TypeOK, PopPktStatus, AckInv
<1>2. /\ pc["raw_ack"] = "push" /\ info_deq' = SubSeq(pushed, known + 1, Len(pushed))
      /\ GiveToRecords("raw_ack", SubSeq(pushed, 1, known)) /\ raw_ack' = NoAck
      /\ UNCHANGED <<raw_seq, sent, records, reports, expect_raw_ack_seq, acks, acked_to>>
  BY DEF PopPktStatus, recVars, clientVars
<1>3. "raw_ack" \in Threads /\ pc'["raw_ack"] = "insert"
  BY <1>1, <1>2 DEF Threads, GiveToRecords
<1>4. /\ pushed \in Seq(RawPktSendStatus) /\ gone \in 0 .. Len(info_deq)
      /\ Len(pushed) \in Nat /\ Len(pushed) <= Len(info_deq)
      /\ Consecutive(pushed, First + gone)
      /\ \A i \in 1 .. Len(pushed) :
           pushed[i].status # "Unknown" =>
             /\ FateKnown(pushed[i])
             /\ \E a \in acks : a.ack_seq <= raw_ack.ack_seq /\ pushed[i].seq \in Window(a)
  BY <1>2, PushedFacts
<1>5. /\ known \in 0 .. Len(pushed)
      /\ \A i \in 1 .. known : pushed[i].status # "Unknown"
  BY <1>4, KnownPrefixResult
<1>6. /\ Len(info_deq) \in Nat /\ First \in Nat /\ First + Len(info_deq) = raw_seq
  BY <1>1 DEF First, Inv, BufferInv
<1> HIDE DEF pushed, known
<1>7. /\ Len(pushed) \in Int /\ known \in Int /\ 0 <= known /\ known <= Len(pushed)
      /\ First + gone \in Nat /\ gone \in Nat
  BY <1>4, <1>5, <1>6
<1>8. /\ SubSeq(pushed, 1, known) \in Seq(RawPktSendStatus) /\ Len(SubSeq(pushed, 1, known)) = known
      /\ Consecutive(SubSeq(pushed, 1, known), First + gone)
      /\ \A i \in 1 .. known : SubSeq(pushed, 1, known)[i] = pushed[i] /\ i \in 1 .. Len(pushed)
  <2>1. 1 \in 1 .. Len(pushed) + 1 /\ known \in 1 - 1 .. Len(pushed)
    BY <1>4, <1>7
  <2>2. /\ SubSeq(pushed, 1, known) \in Seq(RawPktSendStatus) /\ Len(SubSeq(pushed, 1, known)) = known - 1 + 1
        /\ Consecutive(SubSeq(pushed, 1, known), First + gone + 1 - 1)
        /\ \A i \in 1 .. known - 1 + 1 : SubSeq(pushed, 1, known)[i] = pushed[1 + i - 1] /\ 1 + i - 1 \in 1 .. Len(pushed)
    BY <1>4, <1>7, <2>1, PartOf
  <2>3. known - 1 + 1 = known /\ First + gone + 1 - 1 = First + gone /\ \A i \in 1 .. known : 1 + i - 1 = i
    BY <1>7
  <2> QED BY <2>2, <2>3
<1>9. /\ info_deq' \in Seq(RawPktSendStatus) /\ Len(info_deq') = Len(pushed) - known
      /\ Consecutive(info_deq', First + gone + known)
      /\ \A i \in 1 .. Len(pushed) - known : info_deq'[i] = pushed[known + i] /\ known + i \in 1 .. Len(pushed)
  <2>1. known + 1 \in 1 .. Len(pushed) + 1 /\ Len(pushed) \in known + 1 - 1 .. Len(pushed)
    BY <1>4, <1>7
  <2>2. LET kept == SubSeq(pushed, known + 1, Len(pushed))
        IN  /\ kept \in Seq(RawPktSendStatus) /\ Len(kept) = Len(pushed) - (known + 1) + 1
            /\ Consecutive(kept, First + gone + (known + 1) - 1)
            /\ \A i \in 1 .. Len(pushed) - (known + 1) + 1 :
                 kept[i] = pushed[known + 1 + i - 1] /\ known + 1 + i - 1 \in 1 .. Len(pushed)
    <3> HIDE DEF gone
    <3> QED BY <1>4, <1>7, <2>1, PartOf
  <2>3. /\ Len(pushed) - (known + 1) + 1 = Len(pushed) - known
        /\ First + gone + (known + 1) - 1 = First + gone + known
        /\ \A i \in 1 .. Len(pushed) - known : known + 1 + i - 1 = known + i
    BY <1>7
  <2> QED BY <1>2, <2>2, <2>3
<1>10. First' = First + gone + known
  <2>1. First' = raw_seq - (Len(pushed) - known)
    BY <1>2, <1>9 DEF First
  <2>2. raw_seq = First + Len(info_deq)
    BY <1>6
  <2> QED BY <1>6, <1>7, <2>1, <2>2
<1>11. /\ VectorInv' /\ UnreportedInv'
       /\ pc' \in [Threads -> {"push", "insert", "write", "wait"}]
       /\ status_vec' \in [Threads -> Seq(RawPktSendStatus)]
       /\ next_rec' \in [Threads -> 1 .. MaxRaw + 1]
  <2>1. \A i \in 1 .. Len(SubSeq(pushed, 1, known)) : FateKnown(SubSeq(pushed, 1, known)[i])
    BY <1>4, <1>5, <1>8
  <2>2. /\ First <= First + gone /\ First + gone + Len(SubSeq(pushed, 1, known)) <= First'
        /\ First' \in Nat /\ First' <= MaxRaw + 1
    <3>1. First' = raw_seq - (Len(pushed) - known)
      BY <1>2, <1>9 DEF First
    <3> QED BY <1>1, <1>6, <1>7, <1>8, <1>10, <3>1
  <2> QED BY <1>2, <1>3, <1>7, <1>8, <2>1, <2>2, TakeOut
<1>12. TypeOK'
  <2>1. Len(info_deq') <= MaxRawBufSize
    BY <1>1, <1>4, <1>6, <1>7, <1>9
  <2> QED BY <1>2, <1>9, <1>11, <2>1 DEF Inv, TypeOK
<1>13. BufferInv'
  <2>1. Len(info_deq') < raw_seq'
    <3>1. Len(info_deq) < raw_seq
      BY DEF Inv, BufferInv
    <3> QED BY <1>1, <1>2, <1>4, <1>6, <1>7, <1>9, <3>1
  <2>2. PushedBefore' = expect_raw_ack_seq
    BY <1>2, <1>3 DEF PushedBefore
  <2>3. \A a \in acks : a.ack_seq <= raw_ack.ack_seq => a.ack_seq < PushedBefore'
    BY <1>1, <2>2 DEF RawAcks
  <2>4. \A i \in 1 .. Len(info_deq') :
          info_deq'[i].status # "Unknown" =>
            /\ FateKnown(info_deq'[i])
            /\ \E a \in acks : a.ack_seq < PushedBefore' /\ info_deq'[i].seq \in Window(a)
    BY <1>4, <1>9, <2>3
  <2> QED BY <1>2, <1>9, <1>10, <2>1, <2>4 DEF BufferInv, FateKnown, Acknowledged
<1>14. AckInv' /\ ClientInv' /\ FateInv'
  <2>1. AckInv'
    BY <1>3 DEF AckInv
  <2> QED BY <1>2, <2>1, Kept
<1> QED BY <1>11, <1>12, <1>13, <1>14 DEF Inv

LEMMA NextInv == Inv /\ [Next]_vars => Inv'
<1> SUFFICES ASSUME Inv, [Next]_vars PROVE Inv'
  OBVIOUS
<1>1. ASSUME NEW t \in Threads, InsertRecord(t) \/ InsertDone(t) PROVE Inv'
  BY <1>1, InsertRecordInv, InsertDoneInv
<1>2. CASE SendCodedBatch
  BY <1>2, PushInv, PushFullInv, WriteInv, EndOfBatchInv DEF SendCodedBatch
<1>3. CASE TxHandleRawAck
  BY <1>3, RawAckArrivesInv, PopInv DEF TxHandleRawAck
<1>4. CASE ClearPktStatus
  BY <1>4, ClearInv
<1>5. CASE Client
  BY <1>5, ClientAckInv DEF Client
<1>6. CASE UNCHANGED vars
  <2>1. /\ UNCHANGED <<raw_seq, sent, info_deq, pc, status_vec, next_rec, records, reports>>
        /\ UNCHANGED <<raw_ack, expect_raw_ack_seq, acks, acked_to>>
    BY <1>6 DEF vars, recVars, ackVars, clientVars
  <2>2. First' = First /\ PushedBefore' = PushedBefore
    BY <2>1 DEF First, PushedBefore
  <2>3. VectorInv' /\ UnreportedInv'
    BY <2>1, <2>2, VectorsKept
  <2>4. TypeOK'
    BY <2>1 DEF Inv, TypeOK
  <2> QED BY <2>1, <2>2, <2>3, <2>4, Kept DEF Inv
<1> QED BY <1>1, <1>2, <1>3, <1>4, <1>5, <1>6 DEF Next

LEMMA InvHolds == Spec => []Inv
BY InitInv, NextInv, PTL DEF Spec

-----------------------------------------------------------------------------
(* The theorems.                                                           *)

\* Every variable keeps its type; the buffer never exceeds kMaxRawBufSize.
THEOREM RawTypesHold == Spec => []TypeOK
BY InvHolds, PTL DEF Inv

\* However the sender, the ack thread and the timeouts interleave, the buffer
\* holds the last raw packets without a gap: GetInd may find a packet by
\* subtraction.
THEOREM BufferContiguous == Spec => []Contiguous
<1>1. Inv => Contiguous
  <2> SUFFICES ASSUME Inv, NEW i \in 1 .. Len(info_deq)
               PROVE  info_deq[i].seq = raw_seq - Len(info_deq) + i - 1
    BY DEF Contiguous
  <2> QED BY DEF Inv, BufferInv, Consecutive, First
<1> QED BY InvHolds, <1>1, PTL

\* The assertion of PushPkts holds: acks are pushed in order and their windows
\* are disjoint, so nothing but this ack settled the packets it nacks.
THEOREM NacksMeetUnknown == Spec => []NackedOnce
<1>1. Inv => NackedOnce
  <2> SUFFICES ASSUME Inv, pc["raw_ack"] = "push", NEW n \in StoredNacks(info_deq, raw_ack.nacks)
               PROVE  info_deq[GetInd(info_deq, n)].status = "Unknown"
    BY DEF NackedOnce
  <2> DEFINE i == GetInd(info_deq, n)
  <2>1. /\ info_deq \in Seq(RawPktSendStatus) /\ Len(info_deq) \in Nat /\ raw_seq \in Nat
        /\ Len(info_deq) < raw_seq /\ Consecutive(info_deq, First)
        /\ raw_ack \in acks /\ acks \subseteq RawAcks
    BY DEF Inv, TypeOK, BufferInv, AckInv
  <2>2. First \in Nat
    BY <2>1 DEF First
  <2>3. n \in raw_ack.nacks
    BY DEF StoredNacks
  <2>4. n \in Int /\ n \in Window(raw_ack)
    BY <2>1, <2>3 DEF Inv, ClientInv, RawAcks
  <2>5. i > 0
    BY <2>3, <2>4 DEF StoredNacks
  <2>6. i \in 1 .. Len(info_deq) /\ i = n - First + 1
    <3>1. i \in 0 .. Len(info_deq) /\ (i > 0 => i = n - First + 1)
      BY <2>1, <2>2, <2>4, GetIndOf
    <3> QED BY <2>1, <2>5, <3>1
  <2> HIDE DEF i
  <2>7. info_deq[i].seq = n
    BY <2>1, <2>2, <2>4, <2>6 DEF Consecutive
  <2>8. ASSUME info_deq[i].status # "Unknown" PROVE FALSE
    <3>1. PICK a \in acks : a.ack_seq < raw_ack.ack_seq /\ n \in Window(a)
      BY <2>6, <2>7, <2>8 DEF Inv, BufferInv, PushedBefore
    <3>2. a.end < BeginSeq(raw_ack)
      BY <2>1, <3>1 DEF Inv, ClientInv
    <3>3. a.end \in Int /\ BeginSeq(raw_ack) \in Int
      BY <2>1 DEF RawAcks, BeginSeq
    <3>4. n <= a.end /\ BeginSeq(raw_ack) <= n
      BY <2>4, <3>1 DEF Window
    <3> QED BY <2>4, <3>2, <3>3, <3>4
  <2> QED BY <2>8 DEF i
<1> QED BY InvHolds, <1>1, PTL

\* Acks may be lost, repeated or reordered: no packet is recorded as received
\* that the client did not acknowledge, and none without a fate.
THEOREM RecordedFates == Spec => []FateIsTrue
<1>1. Inv => FateIsTrue
  <2>1. \A a : Window(a) = (a.end - a.num_pkts + 1) .. a.end
    BY DEF Window, BeginSeq
  <2> QED BY <2>1 DEF Inv, FateInv, FateKnown, Acknowledged, FateIsTrue
<1> QED BY InvHolds, <1>1, PTL

\* Three threads take raw packets out of the buffer and record them without a
\* common lock; each packet is taken by one of them, and before it is recorded.
THEOREM TakenByOneThread == Spec => []TakenOnce
<1>1. Inv => TakenOnce
  <2> SUFFICES ASSUME Inv PROVE TakenOnce
    OBVIOUS
  <2> DEFINE In(t) == {status_vec[t][i].seq : i \in 1 .. Len(status_vec[t])}
  <2>1. /\ next_rec \in [Threads -> 1 .. MaxRaw + 1] /\ status_vec \in [Threads -> Seq(RawPktSendStatus)]
        /\ info_deq \in Seq(RawPktSendStatus) /\ Len(info_deq) \in Nat /\ raw_seq \in Nat /\ MaxRaw \in Nat
        /\ Len(info_deq) < raw_seq /\ raw_seq <= MaxRaw + 1 /\ Consecutive(info_deq, First)
    BY RawAssumption DEF Inv, TypeOK, BufferInv
  <2>2. First \in Nat /\ 1 <= First
    BY <2>1 DEF First
  <2>3. \A t \in Threads : next_rec[t] \in Nat /\ 1 <= next_rec[t] /\ Len(status_vec[t]) \in Nat
    BY <2>1
  <2>4. \A t \in Threads : Waiting(t) \subseteq In(t)
    <3>1. \A t \in Threads : next_rec[t] .. Len(status_vec[t]) \subseteq 1 .. Len(status_vec[t])
      BY <2>3
    <3> QED BY <3>1 DEF Waiting
  <2>5. \A t, u \in Threads : t # u => In(t) \cap In(u) = {}
    BY DEF Inv, VectorInv
  <2>6. \A s \in Held.buffer : First <= s /\ s \in 1 .. MaxRaw
    <3> SUFFICES ASSUME NEW i \in 1 .. Len(info_deq)
                 PROVE  First <= info_deq[i].seq /\ info_deq[i].seq \in 1 .. MaxRaw
      BY DEF Held
    <3>1. info_deq[i].seq = First + i - 1
      BY DEF Inv, BufferInv, Consecutive
    <3>2. i \in Nat /\ 1 <= i /\ i <= Len(info_deq)
      BY <2>1
    <3>3. First + Len(info_deq) = raw_seq
      BY <2>1 DEF First
    <3> QED BY <2>1, <2>2, <3>1, <3>2, <3>3
  <2>7. \A t \in Threads : Held.buffer \cap In(t) = {}
    <3>1. \A t \in Threads : \A s \in In(t) : s < First /\ s \in Nat
      <4>1. \A t \in Threads : \A i \in 1 .. Len(status_vec[t]) : status_vec[t][i] \in RawPktSendStatus
        BY <2>1, ElementOfSeq
      <4> QED BY <4>1 DEF Inv, VectorInv, RawPktSendStatus
    <3> HIDE DEF In
    <3> QED BY <2>2, <2>6, <3>1
  <2>8. /\ Held.sender = In("send_batch") /\ Held.acked = Waiting("raw_ack") /\ Held.cleared = Waiting("time_out")
        /\ DOMAIN Held = {"buffer", "sender", "acked", "cleared"}
        /\ Held.buffer = Held["buffer"] /\ Held.sender = Held["sender"]
        /\ Held.acked = Held["acked"] /\ Held.cleared = Held["cleared"]
    BY DEF Held
  <2> HIDE DEF In
  <2>9. \A a, b \in DOMAIN Held : a # b => Held[a] \cap Held[b] = {}
    <3>1. {"send_batch", "raw_ack", "time_out"} \subseteq Threads
      BY DEF Threads
    <3>2. Held.buffer \cap Held.sender = {} /\ Held.buffer \cap Held.acked = {} /\ Held.buffer \cap Held.cleared = {}
      BY <2>4, <2>7, <2>8, <3>1
    <3>3. Held.sender \cap Held.acked = {} /\ Held.sender \cap Held.cleared = {} /\ Held.acked \cap Held.cleared = {}
      BY <2>4, <2>5, <2>8, <3>1
    <3> QED BY <2>8, <3>2, <3>3
  <2>10. \A s \in Held.buffer \cup Held.acked \cup Held.cleared : reports[s] = 0
    <3>1. \A s \in Held.buffer : reports[s] = 0
      BY <2>6 DEF Inv, UnreportedInv
    <3>2. \A s \in Held.acked \cup Held.cleared : reports[s] = 0
      BY <2>8 DEF Inv, UnreportedInv, Waiting
    <3> QED BY <3>1, <3>2
  <2> QED BY <2>9, <2>10 DEF TakenOnce
<1> QED BY InvHolds, <1>1, PTL
=============================================================================
