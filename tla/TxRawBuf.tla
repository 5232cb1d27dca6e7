------------------------------ MODULE TxRawBuf ------------------------------
(***************************************************************************)
(* The fate of the raw packets sent to one client, from TxRawBuf to the    *)
(* FeedbackRecords that rate adaptation reads.  Three threads share them:  *)
(*                                                                         *)
(*   - SendCodedBatch numbers raw packets, pushes the status of each and   *)
(*     writes it to the air;                                               *)
(*   - TxHandleRawAck fills in what the client received and takes out the  *)
(*     packets whose fate is known;                                        *)
(*   - HandleTimeOut takes all of them as lost after enough timeouts.      *)
(*                                                                         *)
(* Each passes what it took out to InsertFeedback, which adds it to the    *)
(* records one packet at a time.  TxRawBuf and FeedbackRecords have a lock *)
(* of their own, held for one call: a call is one step here.  Sending      *)
(* times are those of the raw sequence numbers, which are taken in order.  *)
(***************************************************************************)
EXTENDS Integers, Sequences, FiniteSets

CONSTANTS
  MaxRaw,        \* bound: raw packets sent
  MaxRawBufSize, \* kMaxRawBufSize
  Duration       \* duration_ of FeedbackRecords, in raw packets

ASSUME RawAssumption == MaxRaw \in Nat /\ MaxRawBufSize \in Nat \ {0} /\ Duration \in Nat

Threads == {"send_batch", "raw_ack", "time_out"}

VARIABLES
  raw_seq,             \* raw_seq_: the next raw sequence number
  sent,                \* the last raw packet written to the air
  info_deq,            \* info_deq_ of TxRawBuf
  pc,                  \* what each thread does
  status_vec, next_rec,\* what each thread gives to InsertFeedback, and how far it is
  records,             \* records_ of FeedbackRecords
  raw_ack,             \* the ack TxHandleRawAck works on
  expect_raw_ack_seq,
  acks, acked_to,      \* client: the acks it has sent, the last raw packet they cover
  reports              \* history: how often each raw packet was recorded

ackVars == <<raw_ack, expect_raw_ack_seq>>
clientVars == <<acks, acked_to>>
recVars == <<records, reports>>
vars == <<raw_seq, sent, info_deq, pc, status_vec, next_rec, recVars, ackVars, clientVars>>

RawPktSendStatus == [seq : 1 .. MaxRaw, status : {"Bad", "Unknown", "Good"}]
RawAcks == [ack_seq : 1 .. MaxRaw, end : 1 .. MaxRaw, num_pkts : 1 .. MaxRaw,
            nacks : SUBSET (1 .. MaxRaw)]
NoAck == [ack_seq |-> 0, end |-> 0, num_pkts |-> 0, nacks |-> {}]

Init ==
  /\ raw_seq = 1 /\ sent = 0
  /\ info_deq = <<>>
  /\ pc = [t \in Threads |-> IF t = "send_batch" THEN "push" ELSE "wait"]
  /\ status_vec = [t \in Threads |-> <<>>]
  /\ next_rec = [t \in Threads |-> 1]
  /\ records = <<>>
  /\ raw_ack = NoAck
  /\ expect_raw_ack_seq = 1
  /\ acks = {} /\ acked_to = 0
  /\ reports = [s \in 1 .. MaxRaw |-> 0]

-----------------------------------------------------------------------------
(* InsertFeedback.                                                         *)

GiveToRecords(t, vec) ==
  /\ status_vec' = [status_vec EXCEPT ![t] = vec]
  /\ next_rec' = [next_rec EXCEPT ![t] = 1]
  /\ pc' = [pc EXCEPT ![t] = "insert"]

\* InsertPacket drops the records at the front that are too old.
InsertRecord(t) ==
  LET pkt == status_vec[t][next_rec[t]]
      rec == Append(records, pkt)
      fresh == {i \in 1 .. Len(rec) : rec[i].seq + Duration >= pkt.seq}
      first == CHOOSE i \in fresh : \A j \in fresh : i <= j
  IN  /\ pc[t] = "insert"
      /\ next_rec[t] <= Len(status_vec[t])
      /\ records' = SubSeq(rec, first, Len(rec))
      /\ reports' = [reports EXCEPT ![pkt.seq] = @ + 1]
      /\ next_rec' = [next_rec EXCEPT ![t] = @ + 1]
      /\ UNCHANGED <<raw_seq, sent, info_deq, pc, status_vec, ackVars, clientVars>>

\* The sender keeps its vector for the whole batch, the others clear theirs.
InsertDone(t) ==
  /\ pc[t] = "insert"
  /\ next_rec[t] > Len(status_vec[t])
  /\ pc' = [pc EXCEPT ![t] = IF t = "send_batch" THEN "write" ELSE "wait"]
  /\ status_vec' = IF t = "send_batch" THEN status_vec ELSE [status_vec EXCEPT ![t] = <<>>]
  /\ next_rec' = [next_rec EXCEPT ![t] = 1]
  /\ UNCHANGED <<raw_seq, sent, info_deq, recVars, ackVars, clientVars>>

-----------------------------------------------------------------------------
(* SendCodedBatch, one raw packet after the other.                         *)

\* ClearPktStatus: all that are left count as lost.
AllBad(deq) == [i \in 1 .. Len(deq) |-> [deq[i] EXCEPT !.status = "Bad"]]
Unsent == [seq |-> raw_seq, status |-> "Unknown"]

\* Broken variant: full one packet late.
PushPktStatusOneMore ==
  /\ pc["send_batch"] = "push"
  /\ raw_seq <= MaxRaw
  /\ Len(info_deq) <= MaxRawBufSize
  /\ info_deq' = Append(info_deq, Unsent)
  /\ raw_seq' = raw_seq + 1
  /\ GiveToRecords("send_batch", status_vec["send_batch"])
  /\ UNCHANGED <<sent, recVars, ackVars, clientVars>>

PushPktStatus ==
  /\ pc["send_batch"] = "push"
  /\ raw_seq <= MaxRaw
  /\ Len(info_deq) < MaxRawBufSize
  /\ info_deq' = Append(info_deq, Unsent)
  /\ raw_seq' = raw_seq + 1
  /\ GiveToRecords("send_batch", status_vec["send_batch"])
  /\ UNCHANGED <<sent, recVars, ackVars, clientVars>>

\* Broken variant: a full buffer keeps what it has.
PushPktStatusFullIgnored ==
  /\ pc["send_batch"] = "push"
  /\ raw_seq <= MaxRaw
  /\ Len(info_deq) >= MaxRawBufSize
  /\ raw_seq' = raw_seq + 1
  /\ GiveToRecords("send_batch", <<>>)
  /\ UNCHANGED <<sent, info_deq, recVars, ackVars, clientVars>>

\* A full buffer is cleared first, and its packets count as lost.
PushPktStatusFull ==
  /\ pc["send_batch"] = "push"
  /\ raw_seq <= MaxRaw
  /\ Len(info_deq) >= MaxRawBufSize
  /\ info_deq' = <<Unsent>>
  /\ raw_seq' = raw_seq + 1
  /\ GiveToRecords("send_batch", AllBad(info_deq))
  /\ UNCHANGED <<sent, recVars, ackVars, clientVars>>

WriteToAir ==
  /\ pc["send_batch"] = "write"
  /\ sent' = raw_seq - 1
  /\ pc' = [pc EXCEPT !["send_batch"] = "push"]
  /\ UNCHANGED <<raw_seq, info_deq, status_vec, next_rec, recVars, ackVars, clientVars>>

EndOfBatch ==
  /\ pc["send_batch"] = "push"
  /\ status_vec' = [status_vec EXCEPT !["send_batch"] = <<>>]
  /\ UNCHANGED <<raw_seq, sent, info_deq, pc, next_rec, recVars, ackVars, clientVars>>

SendCodedBatch == PushPktStatus \/ PushPktStatusFull \/ WriteToAir \/ EndOfBatch

-----------------------------------------------------------------------------
(* TxHandleRawAck.                                                         *)

\* GetInd, from 1 here; 0 when the packet is not in the buffer.
GetInd(deq, seq) ==
  IF Len(deq) > 0 /\ seq >= deq[1].seq /\ seq < deq[1].seq + Len(deq)
  THEN seq - deq[1].seq + 1 ELSE 0

\* The nacks are stored up to the first whose packet is not in the buffer.
StoredNacks(deq, nacks) ==
  {n \in nacks : \A m \in nacks : m <= n => GetInd(deq, m) > 0}

StoreNacks(deq, nacks) ==
  [i \in 1 .. Len(deq) |->
     IF \E n \in StoredNacks(deq, nacks) : GetInd(deq, n) = i
     THEN [deq[i] EXCEPT !.status = "Bad"] ELSE deq[i]]

\* Broken variant: the window begins a packet early.
BeginSeqEarly(ack) == ack.end - ack.num_pkts

BeginSeq(ack) == ack.end - ack.num_pkts + 1

\* Unless something is missing, the rest of the window is good and what comes
\* before it is forgotten.
PushPkts(deq, ack) ==
  LET marked == StoreNacks(deq, ack.nacks)
      begin  == GetInd(deq, BeginSeq(ack))
      end    == GetInd(deq, ack.end)
  IN  IF StoredNacks(deq, ack.nacks) # ack.nacks \/ begin = 0 \/ end = 0
      THEN marked
      ELSE [i \in 1 .. Len(deq) - begin + 1 |->
              LET e == marked[i + begin - 1]
              IN  IF i + begin - 1 <= end /\ e.status = "Unknown"
                  THEN [e EXCEPT !.status = "Good"] ELSE e]

\* How many packets at the front have a known fate.
KnownPrefix(deq) ==
  CHOOSE k \in 0 .. Len(deq) : /\ \A i \in 1 .. k : deq[i].status # "Unknown"
                               /\ k < Len(deq) => deq[k + 1].status = "Unknown"

\* Broken variant: acks are taken in any order.
RawAckArrivesAnyOrder(ack) ==
  /\ pc["raw_ack"] = "wait"
  /\ expect_raw_ack_seq' = ack.ack_seq + 1
  /\ raw_ack' = ack
  /\ pc' = [pc EXCEPT !["raw_ack"] = "push"]
  /\ UNCHANGED <<raw_seq, sent, info_deq, status_vec, next_rec, recVars, clientVars>>

\* A late or repeated ack is ignored.
RawAckArrives(ack) ==
  /\ pc["raw_ack"] = "wait"
  /\ ack.ack_seq >= expect_raw_ack_seq
  /\ expect_raw_ack_seq' = ack.ack_seq + 1
  /\ raw_ack' = ack
  /\ pc' = [pc EXCEPT !["raw_ack"] = "push"]
  /\ UNCHANGED <<raw_seq, sent, info_deq, status_vec, next_rec, recVars, clientVars>>

PopPktStatus ==
  LET pushed == PushPkts(info_deq, raw_ack)
      known  == KnownPrefix(pushed)
  IN  /\ pc["raw_ack"] = "push"
      /\ info_deq' = SubSeq(pushed, known + 1, Len(pushed))
      /\ GiveToRecords("raw_ack", SubSeq(pushed, 1, known))
      /\ raw_ack' = NoAck
      /\ UNCHANGED <<raw_seq, sent, recVars, expect_raw_ack_seq, clientVars>>

TxHandleRawAck == (\E ack \in acks : RawAckArrives(ack)) \/ PopPktStatus

-----------------------------------------------------------------------------
(* HandleTimeOut, when the timeouts in a row have reached the limit.       *)

\* Broken variant: the buffer keeps what was given to the records.
ClearPktStatusKeeps ==
  /\ pc["time_out"] = "wait"
  /\ GiveToRecords("time_out", AllBad(info_deq))
  /\ UNCHANGED <<raw_seq, sent, info_deq, recVars, ackVars, clientVars>>

ClearPktStatus ==
  /\ pc["time_out"] = "wait"
  /\ info_deq' = <<>>
  /\ GiveToRecords("time_out", AllBad(info_deq))
  /\ UNCHANGED <<raw_seq, sent, recVars, ackVars, clientVars>>

-----------------------------------------------------------------------------
(* The client acknowledges raw packets window after window.  The cellular  *)
(* network may lose, repeat or reorder its acks.                           *)

ClientAck(begin, end, nacks) ==
  /\ acked_to < begin /\ begin <= end /\ end <= sent
  /\ nacks \subseteq begin .. end
  /\ acks' = acks \cup {[ack_seq |-> Cardinality(acks) + 1, end |-> end,
                         num_pkts |-> end - begin + 1, nacks |-> nacks]}
  /\ acked_to' = end
  /\ UNCHANGED <<raw_seq, sent, info_deq, pc, status_vec, next_rec, recVars, ackVars>>

Client == \E begin, end \in 1 .. sent : \E nacks \in SUBSET (begin .. end) :
            ClientAck(begin, end, nacks)

Next == \/ \E t \in Threads : InsertRecord(t) \/ InsertDone(t)
        \/ SendCodedBatch
        \/ TxHandleRawAck
        \/ ClearPktStatus
        \/ Client

Spec == Init /\ [][Next]_vars

-----------------------------------------------------------------------------
(* Properties                                                              *)

\* Every variable has its type.
TypeOK ==
  /\ raw_seq \in 1 .. MaxRaw + 1 /\ sent \in 0 .. raw_seq - 1
  /\ info_deq \in Seq(RawPktSendStatus) /\ Len(info_deq) <= MaxRawBufSize
  /\ pc \in [Threads -> {"push", "insert", "write", "wait"}]
  /\ status_vec \in [Threads -> Seq(RawPktSendStatus)]
  /\ next_rec \in [Threads -> 1 .. MaxRaw + 1]
  /\ records \in Seq(RawPktSendStatus)
  /\ raw_ack \in RawAcks \cup {NoAck}
  /\ expect_raw_ack_seq \in 1 .. MaxRaw + 1
  /\ acks \subseteq RawAcks /\ acked_to \in 0 .. sent
  /\ reports \in [1 .. MaxRaw -> Nat]

\* The buffer holds the last raw packets without a gap, whoever cleared, took
\* or erased some of them: GetInd finds a packet by subtraction.
Contiguous ==
  \A i \in 1 .. Len(info_deq) : info_deq[i].seq = raw_seq - Len(info_deq) + i - 1

\* The assertion of PushPkts: a nack is stored for a packet whose fate is not
\* known yet, also after an ack that was stored in part.
NackedOnce ==
  pc["raw_ack"] = "push" =>
    \A n \in StoredNacks(info_deq, raw_ack.nacks) :
      info_deq[GetInd(info_deq, n)].status = "Unknown"

\* Only a packet whose receipt the client acknowledged is recorded as received,
\* and, as InsertPacket asserts, none whose fate is not known.
FateIsTrue ==
  \A i \in 1 .. Len(records) :
    /\ records[i].status # "Unknown"
    /\ records[i].status = "Good" =>
         \E a \in acks : records[i].seq \in (a.end - a.num_pkts + 1 .. a.end) \ a.nacks

\* The raw packets a thread has still to record, and all that hold some.
Waiting(t) == {status_vec[t][i].seq : i \in next_rec[t] .. Len(status_vec[t])}
Held == [buffer  |-> {info_deq[i].seq : i \in 1 .. Len(info_deq)},
         sender  |-> {status_vec["send_batch"][i].seq : i \in 1 .. Len(status_vec["send_batch"])},
         acked   |-> Waiting("raw_ack"),
         cleared |-> Waiting("time_out")]

\* Each raw packet is taken out by one thread and only then recorded: it is in
\* at most one of the buffer and the threads' vectors, and nothing that waits in
\* the buffer, or in a vector of the ack or timeout thread, was recorded before.
TakenOnce ==
  /\ \A a, b \in DOMAIN Held : a # b => Held[a] \cap Held[b] = {}
  /\ \A s \in Held.buffer \cup Held.acked \cup Held.cleared : reports[s] = 0

\* Each raw packet is recorded once, so n_sent_ counts packets that were sent.
ReportedOnce == \A s \in 1 .. MaxRaw : reports[s] <= 1
=============================================================================
