------------------------------- MODULE RateControl -------------------------------
(***************************************************************************)
(* The ScoutRateAdaptation of one client and the threads that share it:    *)
(*                                                                         *)
(*   - the sender (TxSendAth) makes a decision for every batch, reading    *)
(*     the loss maps one rate at a time;                                   *)
(*   - TxHandleRawAck ("raw_ack") and HandleTimeOut ("time_out") pass the  *)
(*     packets whose fate they know to InsertFeedback, which records them, *)
(*     looks up the losses around them and updates the loss map of the     *)
(*     back antenna one rate at a time; HandleTimeOut first sets all       *)
(*     losses to 1.                                                        *)
(*                                                                         *)
(* Each LossMap and the records have a lock, held for one call: a call is  *)
(* one step. The baselines have none: InsertRecord and ApplyRate are a     *)
(* step to enter and a step to leave. When two overlap, the tables are no  *)
(* longer defined, here an arbitrary value, and any rate may be returned.  *)
(*                                                                         *)
(* The front antenna's records stay empty in this program, and its speed   *)
(* is 0, so that its losses are unknown until SetHighLoss.                 *)
(***************************************************************************)
EXTENDS BaselineRates

CONSTANTS
  Configs,       \* the options [version, use_fec, enable_duplicate] to check, each
                 \* with its bounds: the raw packets followed, pkts, those a raw ack
                 \* tells of, known, and how often the limit of timeouts is reached,
                 \* timeouts
  MaxFollowed,   \* bound: of each batch at most so many, the last, are followed
  StartTime, Gap,         \* ns: when the first packet is sent, and between two
  TotalWindow, BackWindow \* total_window and back_window_, ns

ASSUME ControlAssumption ==
  /\ \A c \in Configs : /\ c.version \in Versions
                        /\ c.use_fec \in BOOLEAN /\ c.enable_duplicate \in BOOLEAN
                        /\ c.pkts \in Nat /\ c.known \in Nat /\ c.timeouts \in Nat
  /\ MaxFollowed \in Nat /\ Gap \in Nat /\ Gap > 1
  /\ StartTime \in Nat /\ TotalWindow \in Nat /\ BackWindow \in Nat

Threads == {"raw_ack", "time_out"}

VARIABLES
  cfg,       \* the options, constant
  records,   \* feedback_rec_back_
  loss_map,  \* loss_map_front_, back, scout and combine, a loss rate per rate
  rate,      \* rate_
  feasible,  \* feasible_rates_
  snd,       \* the sender: what it does, and the values it has read
  decision,  \* what MakeDecision returned last
  sent,      \* raw packets sent and followed
  flight,    \* those whose fate is unknown
  timeouts,  \* how often the limit of timeouts was reached
  thr,       \* each other thread: what it does, its packets, what it looked up
  base,      \* the baseline: table and history, who is inside, whether two ever were
  lost       \* history: whether all losses were set to 1 with no raw ack since ("yes"),
             \* and before the decision in progress was begun ("deciding")

vars == <<cfg, records, loss_map, rate, feasible, snd, decision, sent, flight, timeouts, thr, base, lost>>
mapVars == <<records, loss_map, timeouts>>
sendVars == <<rate, feasible, snd, decision, sent>>

Unknown == [r \in RateSet |-> INVALID_LOSS_RATE]
Idle == [pc |-> "idle", batch |-> <<>>, ind |-> 1, loss_arr |-> Unknown]
Resting == [pc |-> "ready", mode |-> "Data", k |-> 0, n |-> 0, ind |-> 1, scout |-> INVALID_LOSS_RATE,
            front |-> INVALID_LOSS_RATE, rate_arr |-> <<>>, dup |-> FALSE]
NoDecision == [mode |-> "none", k |-> 0, n |-> 0, rate_arr |-> <<>>, dup |-> FALSE, lost |-> FALSE]

SentAt(i) == Nanoseconds(StartTime + Gap * i)
Now == SentAt(sent + 1)

\* The option -r sets the rate, which only the version that keeps it depends on.
Init ==
  /\ cfg \in Configs
  /\ records = <<>>
  /\ loss_map = [map \in {"front", "back", "scout", "combine"} |-> Unknown]
  /\ rate \in (IF cfg.version = "Fixed" THEN RateSet ELSE {Rates[1]}) /\ feasible = {}
  /\ snd = Resting /\ decision = NoDecision
  /\ sent = 0 /\ flight = <<>> /\ timeouts = 0
  /\ thr = [t \in Threads |-> Idle]
  /\ \E update \in BOOLEAN :
       base = [table |-> InitRateTable(cfg.version, update), history |-> <<>>,
               inside |-> {}, raced |-> FALSE]
  /\ lost = "no"

-----------------------------------------------------------------------------
(* The unlocked baseline.                                                  *)

Enter(who) ==
  base' = IF base.inside = {} THEN [base EXCEPT !.inside = {who}]
          ELSE [base EXCEPT !.inside = @ \cup {who}, !.raced = TRUE,
                            !.table = InitRateTable(cfg.version, TRUE), !.history = <<>>]
Left(who, b) == [b EXCEPT !.inside = @ \ {who}]

\* The rates of an ApplyRate that ends, each with what it leaves behind.
BaselineRate(who) ==
  IF base.raced THEN {[rate |-> r, base |-> Left(who, base)] : r \in RateSet}
  ELSE {[rate |-> Rates[t.pos], base |-> Left(who, [base EXCEPT !.table = t])] :
          t \in BaselineApply(cfg.version, base.table)}

-----------------------------------------------------------------------------
(* InsertFeedback and HandleTimeOut.                                       *)

\* A failed assertion of the sender stops the other threads too.
Running == snd.pc # "stopped"

Go(t, pc, batch) == thr' = [thr EXCEPT ![t] = [Idle EXCEPT !.pc = pc, !.batch = batch]]
Step(t, pc, ind) == thr' = [thr EXCEPT ![t].pc = pc, ![t].ind = ind]
Acked(pkt, acked) == [timer |-> pkt.timer, rate |-> pkt.rate, acked |-> acked]

\* A raw ack tells the fate of the oldest packets.
TakeKnown(num) ==
  /\ Running /\ thr["raw_ack"].pc = "idle"
  /\ \E good \in SUBSET (1 .. num) :
       Go("raw_ack", "insert", [i \in 1 .. num |-> Acked(flight[i], i \in good)])
  /\ flight' = SubSeq(flight, num + 1, Len(flight))
  /\ lost' = "no"
  /\ UNCHANGED <<cfg, mapVars, sendVars, base>>

\* contiguous_time_out_ has reached its limit.
TimeOutLimit ==
  /\ Running /\ thr["time_out"].pc = "idle" /\ sent > 0
  /\ timeouts < cfg.timeouts /\ timeouts' = timeouts + 1
  /\ Go("time_out", "high", <<>>)
  /\ lost' = IF thr["raw_ack"].pc # "idle" THEN "no"
             ELSE IF lost = "no" THEN "setting" ELSE lost
  /\ UNCHANGED <<cfg, records, loss_map, sendVars, flight, base>>

HighLossMaps == <<"front", "back", "scout">>
HighLossMap(i) == HighLossMaps[1 + ((i - 1) \div Len(Rates))]
HighLossRate(i) == Rates[1 + ((i - 1) % Len(Rates))]

\* Broken variant: the losses of the back antenna are left alone.
SetHighLossNotBack ==
  LET i == thr["time_out"].ind
      last == i = Len(HighLossMaps) * Len(Rates)
  IN  /\ Running /\ thr["time_out"].pc = "high"
      /\ loss_map' = IF HighLossMap(i) = "back" THEN loss_map
                     ELSE [loss_map EXCEPT ![HighLossMap(i)][HighLossRate(i)] =
                                       UpdateLoss(@, Unit, NoHistory)]
      /\ Step("time_out", IF last THEN "clear" ELSE "high", i + 1)
      /\ lost' = IF last /\ lost = "setting" THEN "yes" ELSE lost
      /\ UNCHANGED <<cfg, records, timeouts, sendVars, flight, base>>

\* One call of UpdateLoss of SetLossRates, over the maps and the rates.
SetHighLoss ==
  LET i == thr["time_out"].ind
      last == i = Len(HighLossMaps) * Len(Rates)
  IN  /\ Running /\ thr["time_out"].pc = "high"
      /\ loss_map' = [loss_map EXCEPT ![HighLossMap(i)][HighLossRate(i)] =
                                       UpdateLoss(@, Unit, NoHistory)]
      /\ Step("time_out", IF last THEN "clear" ELSE "high", i + 1)
      /\ lost' = IF last /\ lost = "setting" THEN "yes" ELSE lost
      /\ UNCHANGED <<cfg, records, timeouts, sendVars, flight, base>>

\* ClearPktStatus, all of them lost; InsertFeedback returns at once without any.
TakeRest ==
  /\ Running /\ thr["time_out"].pc = "clear"
  /\ IF flight = <<>> THEN Go("time_out", "idle", <<>>)
     ELSE Go("time_out", "insert", [i \in DOMAIN flight |-> Acked(flight[i], FALSE)])
  /\ flight' = <<>>
  /\ UNCHANGED <<cfg, mapVars, sendVars, base, lost>>

Inserted(t) ==
  Step(t, IF thr[t].ind < Len(thr[t].batch) THEN "insert" ELSE "lookup", thr[t].ind + 1)

InsertFeedback(t) ==
  /\ Running /\ thr[t].pc = "insert"
  /\ records' = InsertPacket(records, thr[t].batch[thr[t].ind], Nanoseconds(TotalWindow))
  /\ IF cfg.version \in Baselines
     THEN Step(t, "record", thr[t].ind) /\ Enter(t)
     ELSE Inserted(t) /\ UNCHANGED base
  /\ UNCHANGED <<cfg, loss_map, timeouts, sendVars, flight, lost>>

\* The end of the baseline's InsertRecord.
BaselineRecorded(t) ==
  /\ Running /\ thr[t].pc = "record"
  /\ \E old \in 0 .. Len(base.history) :
       base' = Left(t, IF base.raced THEN base
                       ELSE InsertRecord(cfg.version, base, thr[t].batch[thr[t].ind], old))
  /\ Inserted(t)
  /\ UNCHANGED <<cfg, mapVars, sendVars, flight, lost>>

\* The window reaches one ns beyond the packets on both sides.
LookUp(t) ==
  LET batch == thr[t].batch
      start == Minus(batch[1].timer, Nanoseconds(1))
      end == Plus(batch[Len(batch)].timer, Nanoseconds(1))
  IN  /\ Running /\ thr[t].pc = "lookup"
      /\ thr' = [thr EXCEPT ![t].pc = "update", ![t].ind = 1,
                            ![t].loss_arr = CalcLossRates(records, start, end, RateSet)]
      /\ UNCHANGED <<cfg, mapVars, sendVars, flight, base, lost>>

UpdateBack(t) ==
  LET i == thr[t].ind
      r == Rates[i]
  IN  /\ Running /\ thr[t].pc = "update"
      /\ loss_map' = [loss_map EXCEPT !.back[r] = UpdateLoss(@, thr[t].loss_arr[r], kPrevWeight)]
      /\ IF i < Len(Rates) THEN Step(t, "update", i + 1) ELSE Go(t, "idle", <<>>)
      /\ UNCHANGED <<cfg, records, timeouts, sendVars, flight, base, lost>>

Feedback ==
  \/ \E num \in 1 .. TheSmaller(cfg.known, Len(flight)) : TakeKnown(num)
  \/ TimeOutLimit \/ SetHighLoss \/ TakeRest
  \/ \E t \in Threads : InsertFeedback(t) \/ BaselineRecorded(t) \/ LookUp(t) \/ UpdateBack(t)

-----------------------------------------------------------------------------
(* MakeDecision.                                                           *)

SendStep(new) == snd' = new /\ UNCHANGED <<cfg, records, flight, timeouts, thr>>

\* A new batch, or one packet again; a batch that waits for more packets may be
\* cut to those it has, at the rate chosen for it.
StartDecision ==
  /\ \/ /\ snd.pc = "ready"
        /\ \E mode \in {"Data", "Retrans"} :
             SendStep([Resting EXCEPT !.pc = IF cfg.version \in ScoutCombine THEN "scout" ELSE "combine",
                                      !.mode = mode, !.k = IF mode = "Retrans" THEN 1 ELSE 0])
        /\ lost' = IF lost = "yes" THEN "deciding" ELSE lost
     \/ /\ snd.pc = "batch" /\ decision.mode = "Data"
        /\ \E k \in 1 .. decision.k - 1 :
             SendStep([Resting EXCEPT !.pc = "fec", !.mode = "TimeOut", !.k = k])
        /\ UNCHANGED lost
  /\ UNCHANGED <<loss_map, rate, feasible, decision, sent, base>>

\* CalcLossRates for the scout: nothing is known of the place ahead.
ForgetScout ==
  /\ snd.pc = "scout"
  /\ loss_map' = [loss_map EXCEPT !.scout[Rates[snd.ind]] =
                                    UpdateLoss(@, INVALID_LOSS_RATE, NoHistory)]
  /\ SendStep(IF snd.ind < Len(Rates) THEN [snd EXCEPT !.ind = @ + 1]
              ELSE [snd EXCEPT !.pc = "feasible", !.ind = 1])
  /\ UNCHANGED <<rate, feasible, decision, sent, base, lost>>

FindFeasible ==
  LET start == Minus(Now, Nanoseconds(BackWindow))
  IN  /\ snd.pc = "feasible"
      /\ feasible' = IF IsAvailable(records, start, Now)
                     THEN FindSuccessRates(records, start, Now, RateSet) ELSE RateSet
      /\ SendStep([snd EXCEPT !.pc = "combine"])
      /\ UNCHANGED <<loss_map, rate, decision, sent, base, lost>>

\* CalcLossRatesAfterCombine: the maps are read one after the other.
ReadScout ==
  /\ snd.pc = "combine" /\ cfg.version \in ScoutCombine
  /\ SendStep([snd EXCEPT !.pc = "front", !.scout = loss_map.scout[Rates[snd.ind]]])
  /\ UNCHANGED <<loss_map, rate, feasible, decision, sent, base, lost>>

ReadFront ==
  /\ \/ snd.pc = "front"
     \/ snd.pc = "combine" /\ cfg.version \notin ScoutCombine \cup BackOnly
  /\ SendStep([snd EXCEPT !.pc = "back", !.front = loss_map.front[Rates[snd.ind]]])
  /\ UNCHANGED <<loss_map, rate, feasible, decision, sent, base, lost>>

ReadBack ==
  LET r == Rates[snd.ind]
  IN  /\ snd.pc = "back" \/ (snd.pc = "combine" /\ cfg.version \in BackOnly)
      /\ loss_map' = [loss_map EXCEPT !.combine[r] =
           UpdateLoss(@, Combined(cfg.version, snd.scout, snd.front, loss_map.back[r]), NoHistory)]
      /\ SendStep([snd EXCEPT !.scout = INVALID_LOSS_RATE, !.front = INVALID_LOSS_RATE,
                              !.pc = IF snd.ind < Len(Rates) THEN "combine" ELSE "rate",
                              !.ind = IF snd.ind < Len(Rates) THEN @ + 1 ELSE 1])
      /\ UNCHANGED <<rate, feasible, decision, sent, base, lost>>

ChooseRate ==
  /\ snd.pc = "rate" /\ cfg.version \notin Baselines
  /\ rate' = ApplyRate(cfg.version, loss_map.combine, feasible, rate)
  /\ SendStep([snd EXCEPT !.pc = "fec"])
  /\ UNCHANGED <<loss_map, feasible, decision, sent, base, lost>>

\* The sender enters the baseline for the rate of the batch or of a packet of it.
AskBaseline ==
  /\ cfg.version \in Baselines
  /\ snd.pc = "rate" \/ (snd.pc = "rates" /\ Len(snd.rate_arr) < snd.n)
  /\ Enter("sender")
  /\ SendStep([snd EXCEPT !.pc = IF snd.pc = "rate" THEN "rate asked" ELSE "rates asked"])
  /\ UNCHANGED <<loss_map, rate, feasible, decision, sent, lost>>

BaselineAnswers ==
  /\ \E answer \in BaselineRate("sender") :
       /\ base' = answer.base
       /\ \/ /\ snd.pc = "rate asked"
             /\ rate' = answer.rate
             /\ SendStep([snd EXCEPT !.pc = "fec"])
          \/ /\ snd.pc = "rates asked"
             /\ SendStep([snd EXCEPT !.pc = "rates", !.rate_arr = Append(@, answer.rate)])
             /\ UNCHANGED rate
  /\ UNCHANGED <<loss_map, feasible, decision, sent, lost>>

IsDuplicate(mode) ==
  /\ cfg.enable_duplicate
  /\ IsHighLoss(loss_map.combine, rate) \/ mode = "Retrans" \/ IsBootstrapping(rate)

\* The assertions on n stop the program. A duplicated batch has no redundancy.
ChooseFEC ==
  /\ snd.pc = "fec"
  /\ \E kn \in ApplyFEC(snd.mode, cfg.use_fec, loss_map.combine[rate], rate, snd.k) :
       LET dup == IsDuplicate(snd.mode)
       IN  SendStep(IF kn[2] < kn[1] THEN [snd EXCEPT !.pc = "stopped"]
                    ELSE [snd EXCEPT !.pc = "rates", !.k = kn[1], !.n = IF dup THEN kn[1] ELSE kn[2],
                                     !.dup = dup, !.rate_arr = <<rate>>])
  /\ UNCHANGED <<loss_map, rate, feasible, decision, sent, base, lost>>

\* FindRatesForBatch; the numbers of coded packets and of rates are the same.
DecisionMade ==
  /\ snd.pc = "rates"
  /\ \/ /\ cfg.version \in Baselines
        /\ Len(snd.rate_arr) >= snd.n
        /\ decision' = [mode |-> snd.mode, k |-> snd.k, n |-> Len(snd.rate_arr),
                        rate_arr |-> snd.rate_arr, dup |-> snd.dup, lost |-> lost = "deciding"]
     \/ /\ cfg.version \notin Baselines
        /\ \E sample \in SampleRates(cfg.version, feasible, rate) :
             LET rate_arr == FindRatesForBatch(cfg.version, snd.n, rate, sample)
             IN  decision' = [mode |-> snd.mode, k |-> snd.k, n |-> Len(rate_arr),
                              rate_arr |-> rate_arr, dup |-> snd.dup, lost |-> lost = "deciding"]
  /\ SendStep([Resting EXCEPT !.pc = "batch"])
  /\ lost' = IF lost = "deciding" THEN "yes" ELSE lost
  /\ UNCHANGED <<loss_map, rate, feasible, sent, base>>

SendCodedBatch ==
  LET most == TheSmaller(TheSmaller(MaxFollowed, cfg.pkts - sent), decision.n)
      pkt(followed, i) ==
        [timer |-> SentAt(sent + i), rate |-> decision.rate_arr[decision.n - followed + i]]
  IN  /\ snd.pc = "batch"
      /\ \E followed \in TheSmaller(1, most) .. most :
           /\ flight' = flight \o [i \in 1 .. followed |-> pkt(followed, i)]
           /\ sent' = sent + followed
      /\ snd' = Resting /\ decision' = NoDecision
      /\ UNCHANGED <<cfg, mapVars, rate, feasible, thr, base, lost>>

Sender ==
  \/ StartDecision \/ ForgetScout \/ FindFeasible \/ ReadScout \/ ReadFront \/ ReadBack
  \/ ChooseRate \/ AskBaseline \/ BaselineAnswers \/ ChooseFEC \/ DecisionMade
  \/ SendCodedBatch

Stopped == ~Running /\ UNCHANGED vars

Next == Feedback \/ Sender \/ Stopped

Spec == Init /\ [][Next]_vars

-----------------------------------------------------------------------------
(* Properties                                                              *)

(***************************************************************************)
(* Every variable has its type.                                            *)
(***************************************************************************)
TypeOK ==
  /\ cfg \in Configs
  /\ \A i \in DOMAIN records : records[i] \in [timer : Timer, rate : RateSet, acked : BOOLEAN]
  /\ loss_map \in [{"front", "back", "scout", "combine"} -> [RateSet -> LossRate]]
  /\ rate \in RateSet /\ feasible \subseteq RateSet
  /\ snd.k \in 0 .. kMaxK /\ snd.n \in 0 .. kGFSize /\ snd.ind \in RateInd
  /\ sent \in 0 .. cfg.pkts /\ timeouts \in 0 .. cfg.timeouts /\ Len(flight) <= sent
  /\ \A t \in Threads : thr[t].loss_arr \in [RateSet -> LossRate]
  /\ base.table.pos \in RateInd /\ base.table.wnd_counter > 0
  /\ base.inside \subseteq Threads \cup {"sender"}
  /\ lost \in {"no", "setting", "yes", "deciding"}

(***************************************************************************)
(* What MakeDecision returns is a code fec.cc can build and SendCodedBatch *)
(* can send, in whatever order losses were updated under it, up to the     *)
(* rounding of the quotients: the assertions of ApplyFEC* and of           *)
(* SendCodedBatch (scout_rate.cc:715, 729, wspace_ap_scout.cc:325) hold.   *)
(* Only a retransmission whose redundancy is within a rounding of 1 can    *)
(* fail one, n >= k at scout_rate.cc:801.                                  *)
(***************************************************************************)
DecisionSound ==
  /\ snd.pc = "batch" =>
       /\ decision.k \in 1 .. kMaxK
       /\ decision.n \in decision.k .. gf_size
       /\ Len(decision.rate_arr) = decision.n
       /\ \A i \in 1 .. decision.n : decision.rate_arr[i] \in RateSet
       /\ decision.mode = "Retrans" => decision.k = 1
  /\ ~Running =>
       /\ snd.mode = "Retrans" /\ cfg.use_fec
       /\ Redundancy(loss_map.combine[rate], 800) \in {Unit - 1, Unit}

(***************************************************************************)
(* After the losses were all set to 1, a decision goes to the lowest rate  *)
(* and duplicates the batch, if that is enabled, as long as no raw ack has *)
(* told otherwise, whatever the timeout handler still inserts and however  *)
(* its updates fall between the reads of the sender (scout_rate.cc:211,    *)
(* 287). A batch that was waiting and is cut by a timeout keeps the rate   *)
(* chosen before, and is not counted.                                      *)
(***************************************************************************)
HighLossSafe ==
  snd.pc = "batch" /\ decision.lost /\ cfg.version \notin BackOnly =>
    /\ rate = Rates[1]
    /\ decision.dup = cfg.enable_duplicate

(***************************************************************************)
(* "This would only happen to the lowest data rate as we won't choose a    *)
(* higher rate with loss > 0.65" (scout_rate.cc:324): true of the versions *)
(* that bound the loss, also when a later decision keeps the rate.         *)
(***************************************************************************)
HighLossOnlyAtLowest ==
  snd.pc = "batch" /\ cfg.version \in BoundLoss /\ IsHighLoss(loss_map.combine, rate) =>
    rate = Rates[1]

(***************************************************************************)
(* While the records are in order a lookup of InsertFeedback counts the    *)
(* packets sent from the first to the last of its own, no more and no less *)
(* (feedback_records.h:64, wspace_ap_scout.cc:862).                        *)
(***************************************************************************)
InOrder(recs) == \A i, j \in DOMAIN recs : i < j => Less(recs[i].timer, recs[j].timer)
LossIn(window, r) ==
  LET at == {i \in window : records[i].rate = r}
      bad == {i \in at : ~records[i].acked}
  IN  IF at = {} THEN INVALID_LOSS_RATE ELSE (Unit * Cardinality(bad)) \div Cardinality(at)
SentBetween(first, last) ==
  {i \in DOMAIN records : AtMost(first, records[i].timer) /\ AtMost(records[i].timer, last)}
WindowCounted ==
  [][\A t \in Threads : thr[t].pc = "lookup" /\ thr'[t].pc = "update" /\ InOrder(records) =>
       LET batch == thr[t].batch
           window == SentBetween(batch[1].timer, batch[Len(batch)].timer)
       IN  \A r \in RateSet : thr'[t].loss_arr[r] = LossIn(window, r)]_vars

(***************************************************************************)
(* The counters of a baseline are those of its history, unless two threads *)
(* were in it at once: what is inserted is removed again in full.          *)
(***************************************************************************)
BaselineTablesMatch ==
  ~base.raced =>
    LET at(i) == {h \in DOMAIN base.history : base.history[h].rate = Rates[i]}
        acked == {h \in DOMAIN base.history : base.history[h].acked}
    IN  /\ base.table.num_acked = Cardinality(acked)
        /\ \A i \in RateInd : /\ base.table.rate[i].sent = Cardinality(at(i))
                              /\ base.table.rate[i].acked = Cardinality(at(i) \cap acked)

(***************************************************************************)
(* SampleRate sends at "the bit-rate that has the lowest average           *)
(* transmission time" (sample_rate.cc:49), never one whose acks have all   *)
(* expired while another still has some.                                   *)
(***************************************************************************)
Answered == "sender" \in base.inside \ base'.inside
Delivers ==
  cfg.version = "SampleRate" /\ Answered /\ ~base'.raced
    /\ base'.table.num_acked > 0 /\ (base.table.pkt_count + 1) % SampleEvery # 0 =>
    \E h \in DOMAIN base.history :
      base.history[h].acked /\ base.history[h].rate = Rates[base'.table.pos]
SampleRateDelivers == [][Delivers]_vars
=============================================================================
