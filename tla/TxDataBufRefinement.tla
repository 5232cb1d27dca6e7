------------------------ MODULE TxDataBufRefinement ------------------------
(***************************************************************************)
(* The ring buffer with its threads implements SendWindow.  Packet n is    *)
(* the one at position n - 1: it has not come yet while that position is   *)
(* at or after the tail or its producer still writes the slot, and it is   *)
(* gone when head has passed it or its slot was freed.                     *)
(***************************************************************************)
EXTENDS TxDataBuf

Storing(p) == \E q \in Producers : enq_pc[q] = "store" /\ enq_index[q] = Slot(p)

LifeAt(p) ==
  CASE p < head_pt -> "gone"
    [] p >= tail_pt \/ (p >= head_pt /\ Storing(p)) -> "none"
    [] OTHER -> CASE book_keep[Slot(p)].status = "Empty" -> "gone"
                  [] book_keep[Slot(p)].status = "Outbound" -> "out"
                  [] OTHER -> "waiting"

SendsAt(p) ==
  IF LifeAt(p) = "out" \/ (LifeAt(p) = "waiting" /\ book_keep[Slot(p)].status = "Retrans")
  THEN NumRetrans - book_keep[Slot(p)].num_retrans + 1
  ELSE 0

Window == INSTANCE SendWindow WITH
  life  <- [n \in 1 .. MaxEnq |-> LifeAt(n - 1)],
  sends <- [n \in 1 .. MaxEnq |-> SendsAt(n - 1)]

\* Every step of every thread is a step of the window or changes nothing the
\* window shows: packets are accepted, sent for the first time in order, sent
\* at most NumRetrans + 1 times and leave only after they were sent.
ImplementsSendWindow == Window!WindowSpec
=============================================================================
