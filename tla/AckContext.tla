----------------------------- MODULE AckContext -----------------------------
(***************************************************************************)
(* The mailboxes through which acks reach their handlers.  TxRcvCell, one  *)
(* thread for all clients, reads an ack and puts it into the AckContext of *)
(* its client and type (RcvAck); a handler thread per AckContext takes it  *)
(* out (TxHandleAck).  A box holds one ack.  TxRcvCell waits for a full    *)
(* box to be emptied and reads nothing else meanwhile; a handler waits for *)
(* an empty box to be filled, with a timeout when the box is for data acks.*)
(*                                                                         *)
(* lock_ is held from entry to a wait or to the return, so each stretch    *)
(* between two of these points is one step.  A wait releases lock_ and     *)
(* ends by a signal, spuriously or by its timeout; then the thread goes    *)
(* for lock_ again and another may come first.                             *)
(***************************************************************************)
EXTENDS Integers

CONSTANTS
  Boxes,        \* the AckContexts of all clients
  DataBoxes,    \* those of type DATA_ACK
  MaxAcks       \* bound: acks that arrive for each box

ASSUME BoxesAssumption == DataBoxes \subseteq Boxes
ASSUME MaxAcksAssumption == MaxAcks \in Nat

VARIABLES
  ack_available, pkt,   \* the contents of each box; acks are numbered as they come
  rcv_pc, rcv_box,      \* TxRcvCell, and the box of the ack it read
  hnd_pc, hnd_ack,      \* the handler of each box and the ack it took last
  received, taken       \* history: acks read from the tunnel, acks taken

rcvVars == <<rcv_pc, rcv_box, received>>
hndVars == <<hnd_pc, hnd_ack, taken>>
vars == <<ack_available, pkt, rcvVars, hndVars>>

Init ==
  /\ ack_available = [b \in Boxes |-> FALSE]
  /\ pkt = [b \in Boxes |-> 0]
  /\ rcv_pc = "read"
  /\ rcv_box \in Boxes
  /\ hnd_pc = [b \in Boxes |-> "enter"]
  /\ hnd_ack = [b \in Boxes |-> 0]
  /\ received = [b \in Boxes |-> 0]
  /\ taken = [b \in Boxes |-> 0]

-----------------------------------------------------------------------------
(* Signals.  One that finds nobody waiting is lost.                        *)

SignalFill(b) ==
  hnd_pc' = IF hnd_pc[b] = "wait_fill" THEN [hnd_pc EXCEPT ![b] = "enter"] ELSE hnd_pc

SignalEmpty(b) ==
  rcv_pc' = IF rcv_pc = "wait_empty" /\ rcv_box = b THEN "enter" ELSE rcv_pc

-----------------------------------------------------------------------------
(* TxRcvCell and RcvAck.                                                   *)

ReadAck(b) ==
  /\ rcv_pc = "read"
  /\ received[b] < MaxAcks
  /\ received' = [received EXCEPT ![b] = @ + 1]
  /\ rcv_box' = b
  /\ rcv_pc' = "enter"
  /\ UNCHANGED <<ack_available, pkt, hndVars>>

RcvAckWait ==
  /\ rcv_pc = "enter"
  /\ ack_available[rcv_box]
  /\ SignalFill(rcv_box)
  /\ rcv_pc' = "wait_empty"
  /\ UNCHANGED <<ack_available, pkt, rcv_box, received, hnd_ack, taken>>

\* Broken variant: the last ack is overwritten.
RcvAckOverwrite ==
  /\ rcv_pc = "enter"
  /\ ack_available' = [ack_available EXCEPT ![rcv_box] = TRUE]
  /\ pkt' = [pkt EXCEPT ![rcv_box] = received[rcv_box]]
  /\ SignalFill(rcv_box)
  /\ rcv_pc' = "read"
  /\ UNCHANGED <<rcv_box, received, hnd_ack, taken>>

\* Broken variant: nobody is told.
RcvAckFillSilent ==
  /\ rcv_pc = "enter"
  /\ ~ack_available[rcv_box]
  /\ ack_available' = [ack_available EXCEPT ![rcv_box] = TRUE]
  /\ pkt' = [pkt EXCEPT ![rcv_box] = received[rcv_box]]
  /\ rcv_pc' = "read"
  /\ UNCHANGED <<rcv_box, received, hndVars>>

RcvAckFill ==
  /\ rcv_pc = "enter"
  /\ ~ack_available[rcv_box]
  /\ ack_available' = [ack_available EXCEPT ![rcv_box] = TRUE]
  /\ pkt' = [pkt EXCEPT ![rcv_box] = received[rcv_box]]
  /\ SignalFill(rcv_box)
  /\ rcv_pc' = "read"
  /\ UNCHANGED <<rcv_box, received, hnd_ack, taken>>

RcvAck == RcvAckWait \/ RcvAckFill

-----------------------------------------------------------------------------
(* TxHandleAck, called again and again by the handler of box b.            *)

WaitFill(b) ==
  /\ hnd_pc[b] = "enter"
  /\ ~ack_available[b]
  /\ hnd_pc' = [hnd_pc EXCEPT ![b] = "wait_fill"]
  /\ UNCHANGED <<ack_available, pkt, rcvVars, hnd_ack, taken>>

\* Broken variant: raw acks time out as well.
FillTimesOutAnyType(b) ==
  /\ hnd_pc[b] = "wait_fill"
  /\ hnd_pc' = [hnd_pc EXCEPT ![b] = "timed_out"]
  /\ UNCHANGED <<ack_available, pkt, rcvVars, hnd_ack, taken>>

\* Only data acks time out.
FillTimesOut(b) ==
  /\ b \in DataBoxes
  /\ hnd_pc[b] = "wait_fill"
  /\ hnd_pc' = [hnd_pc EXCEPT ![b] = "timed_out"]
  /\ UNCHANGED <<ack_available, pkt, rcvVars, hnd_ack, taken>>

\* Broken variant: TxRcvCell is not told that the box is empty.
TakeAckSilent(b) ==
  /\ hnd_pc[b] \in {"enter", "timed_out"}
  /\ ack_available[b]
  /\ ack_available' = [ack_available EXCEPT ![b] = FALSE]
  /\ hnd_ack' = [hnd_ack EXCEPT ![b] = pkt[b]]
  /\ taken' = [taken EXCEPT ![b] = @ + 1]
  /\ hnd_pc' = [hnd_pc EXCEPT ![b] = "ack"]
  /\ UNCHANGED <<pkt, rcvVars>>

\* An ack that came in while the timeout ran out is taken all the same.
TakeAck(b) ==
  /\ hnd_pc[b] \in {"enter", "timed_out"}
  /\ ack_available[b]
  /\ ack_available' = [ack_available EXCEPT ![b] = FALSE]
  /\ hnd_ack' = [hnd_ack EXCEPT ![b] = pkt[b]]
  /\ taken' = [taken EXCEPT ![b] = @ + 1]
  /\ hnd_pc' = [hnd_pc EXCEPT ![b] = "ack"]
  /\ SignalEmpty(b)
  /\ UNCHANGED <<pkt, rcv_box, received>>

NoAck(b) ==
  /\ hnd_pc[b] = "timed_out"
  /\ ~ack_available[b]
  /\ hnd_pc' = [hnd_pc EXCEPT ![b] = "time_out"]
  /\ SignalEmpty(b)
  /\ UNCHANGED <<ack_available, pkt, rcv_box, received, hnd_ack, taken>>

\* HandleDataAck, HandleTimeOut or PopPktStatus runs and TxHandleAck is called again.
Handled(b) ==
  /\ hnd_pc[b] \in {"ack", "time_out"}
  /\ hnd_pc' = [hnd_pc EXCEPT ![b] = "enter"]
  /\ UNCHANGED <<ack_available, pkt, rcvVars, hnd_ack, taken>>

TxHandleAck(b) == WaitFill(b) \/ TakeAck(b) \/ NoAck(b)

SpuriousFill(b) ==
  /\ hnd_pc[b] = "wait_fill"
  /\ hnd_pc' = [hnd_pc EXCEPT ![b] = "enter"]
  /\ UNCHANGED <<ack_available, pkt, rcvVars, hnd_ack, taken>>

SpuriousEmpty ==
  /\ rcv_pc = "wait_empty"
  /\ rcv_pc' = "enter"
  /\ UNCHANGED <<ack_available, pkt, rcv_box, received, hndVars>>

Next ==
  \/ \E b \in Boxes : \/ ReadAck(b)
                      \/ TxHandleAck(b) \/ FillTimesOut(b) \/ Handled(b) \/ SpuriousFill(b)
  \/ RcvAck
  \/ SpuriousEmpty

Spec == Init /\ [][Next]_vars

(***************************************************************************)
(* Threads that are not waiting run; lock_ is held for a few instructions. *)
(* Acks need not arrive, and neither timeouts nor spurious wakeups come to *)
(* anybody's help.                                                         *)
(***************************************************************************)
Fairness == /\ WF_vars(RcvAck)
            /\ \A b \in Boxes : WF_vars(TxHandleAck(b)) /\ WF_vars(Handled(b))

FairSpec == Spec /\ Fairness

-----------------------------------------------------------------------------
(* Properties                                                              *)

\* Every variable has its type; the handler of raw acks, which asserts it, never
\* comes back without an ack.
TypeOK ==
  /\ ack_available \in [Boxes -> BOOLEAN]
  /\ pkt \in [Boxes -> Nat]
  /\ rcv_pc \in {"read", "enter", "wait_empty"}
  /\ rcv_box \in Boxes
  /\ hnd_pc \in [Boxes -> {"enter", "wait_fill", "timed_out", "ack", "time_out"}]
  /\ \A b \in Boxes \ DataBoxes : hnd_pc[b] \notin {"timed_out", "time_out"}
  /\ hnd_ack \in [Boxes -> Nat]
  /\ received \in [Boxes -> Nat]
  /\ taken \in [Boxes -> Nat]

\* The n-th ack a handler takes is the n-th that arrived for its box: none is
\* overwritten, skipped or handled twice, whatever waits time out or wake up
\* for nothing.
InOrderOnce == \A b \in Boxes : hnd_ack[b] = taken[b]

\* Nobody sleeps through the news: no handler waits on a full box, and
\* TxRcvCell does not wait on an empty one.  So they never wait for each other.
NoSleeper == /\ \A b \in Boxes : hnd_pc[b] = "wait_fill" => ~ack_available[b]
             /\ rcv_pc = "wait_empty" => ack_available[rcv_box]

\* Every ack that was read is handled, also when every handler has to wait for
\* the one thread that serves all boxes.
EveryAckHandled == \A b \in Boxes, n \in 1 .. MaxAcks : received[b] >= n ~> taken[b] >= n
=============================================================================
