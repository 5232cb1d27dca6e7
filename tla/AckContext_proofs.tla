-------------------------- MODULE AckContext_proofs --------------------------
(***************************************************************************)
(* Proofs about AckContext: acks are handled once and in order, and nobody *)
(* sleeps through a change, for any set of boxes and any number of acks.   *)
(***************************************************************************)
EXTENDS AckContext, TLAPS

\* The acks of box b that were read and not taken: the one in the box and the
\* one TxRcvCell holds.
InBox(b)  == IF ack_available[b] THEN 1 ELSE 0
InHand(b) == IF rcv_pc # "read" /\ rcv_box = b THEN 1 ELSE 0

Accounted == \A b \in Boxes : /\ received[b] = taken[b] + InBox(b) + InHand(b)
                              /\ ack_available[b] => pkt[b] = taken[b] + 1

Inv == TypeOK /\ Accounted /\ InOrderOnce /\ NoSleeper

LEMMA InitInv == Init => Inv
  BY BoxesAssumption DEF Init, Inv, TypeOK, Accounted, InBox, InHand, InOrderOnce, NoSleeper

\* TxRcvCell's side of a step.
LEMMA ReceiverInv ==
  ASSUME Inv, (\E b \in Boxes : ReadAck(b)) \/ RcvAck \/ SpuriousEmpty
  PROVE  Inv'
<1> USE BoxesAssumption DEF Inv, rcvVars, hndVars
<1>1. ASSUME NEW b \in Boxes, ReadAck(b) PROVE Inv'
  <2>1. TypeOK'
    BY <1>1 DEF ReadAck, TypeOK
  <2>2. Accounted'
    BY <1>1 DEF ReadAck, TypeOK, Accounted, InBox, InHand
  <2> QED BY <1>1, <2>1, <2>2 DEF ReadAck, InOrderOnce, NoSleeper
<1>2. CASE RcvAckWait
  <2>1. TypeOK'
    BY <1>2 DEF RcvAckWait, SignalFill, TypeOK
  <2>2. Accounted'
    BY <1>2 DEF RcvAckWait, Accounted, InBox, InHand
  <2>3. NoSleeper'
    BY <1>2 DEF RcvAckWait, SignalFill, NoSleeper, TypeOK
  <2> QED BY <1>2, <2>1, <2>2, <2>3 DEF RcvAckWait, InOrderOnce
<1>3. CASE RcvAckFill
  <2>1. TypeOK'
    BY <1>3 DEF RcvAckFill, SignalFill, TypeOK
  <2>2. Accounted'
    BY <1>3 DEF RcvAckFill, TypeOK, Accounted, InBox, InHand
  <2>3. NoSleeper'
    BY <1>3 DEF RcvAckFill, SignalFill, NoSleeper, TypeOK
  <2> QED BY <1>3, <2>1, <2>2, <2>3 DEF RcvAckFill, InOrderOnce
<1>4. CASE SpuriousEmpty
  BY <1>4 DEF SpuriousEmpty, TypeOK, Accounted, InBox, InHand, InOrderOnce, NoSleeper
<1> QED BY <1>1, <1>2, <1>3, <1>4 DEF RcvAck

\* The handler's side.
LEMMA HandlerInv ==
  ASSUME Inv, NEW b \in Boxes,
         TxHandleAck(b) \/ FillTimesOut(b) \/ Handled(b) \/ SpuriousFill(b)
  PROVE  Inv'
<1> USE BoxesAssumption DEF Inv, rcvVars, hndVars
<1>1. CASE TakeAck(b)
  <2>1. TypeOK'
    BY <1>1 DEF TakeAck, SignalEmpty, TypeOK
  <2>2. Accounted'
    BY <1>1 DEF TakeAck, SignalEmpty, TypeOK, Accounted, InBox, InHand
  <2>3. InOrderOnce'
    BY <1>1 DEF TakeAck, TypeOK, Accounted, InOrderOnce
  <2>4. NoSleeper'
    BY <1>1 DEF TakeAck, SignalEmpty, TypeOK, NoSleeper
  <2> QED BY <2>1, <2>2, <2>3, <2>4
<1>2. CASE NoAck(b)
  <2>1. TypeOK'
    BY <1>2 DEF NoAck, SignalEmpty, TypeOK
  <2>2. Accounted'
    BY <1>2 DEF NoAck, SignalEmpty, Accounted, InBox, InHand
  <2>3. NoSleeper'
    BY <1>2 DEF NoAck, SignalEmpty, TypeOK, NoSleeper
  <2> QED BY <1>2, <2>1, <2>2, <2>3 DEF NoAck, InOrderOnce
<1>3. CASE WaitFill(b) \/ FillTimesOut(b) \/ Handled(b) \/ SpuriousFill(b)
  <2>1. UNCHANGED <<ack_available, pkt, rcvVars, hnd_ack, taken>>
    BY <1>3 DEF WaitFill, FillTimesOut, Handled, SpuriousFill
  <2>2. TypeOK'
    BY <1>3 DEF WaitFill, FillTimesOut, Handled, SpuriousFill, TypeOK
  <2>3. Accounted' /\ InOrderOnce'
    BY <2>1 DEF Accounted, InBox, InHand, InOrderOnce
  <2>4. NoSleeper'
    BY <1>3, <2>1 DEF WaitFill, FillTimesOut, Handled, SpuriousFill, TypeOK, NoSleeper
  <2> QED BY <2>2, <2>3, <2>4
<1> QED BY <1>1, <1>2, <1>3 DEF TxHandleAck

LEMMA NextInv == Inv /\ [Next]_vars => Inv'
<1> SUFFICES ASSUME Inv, [Next]_vars PROVE Inv'
  OBVIOUS
<1>1. CASE UNCHANGED vars
  BY <1>1 DEF vars, rcvVars, hndVars, Inv, TypeOK, Accounted, InBox, InHand, InOrderOnce, NoSleeper
<1>2. CASE Next
  BY <1>2, ReceiverInv, HandlerInv DEF Next
<1> QED BY <1>1, <1>2

LEMMA InvHolds == Spec => []Inv
  BY InitInv, NextInv, PTL DEF Spec

\* However receiver, handlers, timeouts and spurious wakeups interleave, every
\* variable of the boxes keeps its type.
THEOREM MailboxesTyped == Spec => []TypeOK
  BY InvHolds, PTL DEF Inv

\* The n-th ack that TxHandleAck returns for a box is the n-th ack RcvAck was
\* given for it.
THEOREM AcksInOrderOnce == Spec => []InOrderOnce
  BY InvHolds, PTL DEF Inv

\* No lost wakeup: TxHandleAck never waits on a full box and RcvAck never waits
\* on an empty one.
THEOREM NobodySleeps == Spec => []NoSleeper
  BY InvHolds, PTL DEF Inv
=============================================================================
