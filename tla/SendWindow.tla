----------------------------- MODULE SendWindow -----------------------------
(***************************************************************************)
(* What the send window of one client promises, without cursors, slots,    *)
(* locks or threads.  Packets are numbered in the order they are accepted. *)
(* A packet waits, is out, and in the end is gone: acknowledged or given   *)
(* up.  It is sent at most NumRetrans + 1 times, packets are sent for the  *)
(* first time in order, and a packet is accepted only when every packet    *)
(* BufSize or more before it is gone.                                      *)
(***************************************************************************)
EXTENDS Integers

CONSTANTS BufSize, NumRetrans, MaxEnq

VARIABLES life, sends

Packets == 1 .. MaxEnq
Life == {"none", "waiting", "out", "gone"}

WindowInit == /\ life = [n \in Packets |-> "none"]
              /\ sends = [n \in Packets |-> 0]

Accept(n) ==
  /\ life[n] = "none"
  /\ \A m \in Packets : m <= n - BufSize => life[m] = "gone"
  /\ life' = [life EXCEPT ![n] = "waiting"]
  /\ UNCHANGED sends

Send(n) ==
  /\ life[n] = "waiting"
  /\ sends[n] <= NumRetrans
  /\ sends[n] = 0 => \A m \in Packets : m < n => sends[m] > 0 \/ life[m] = "gone"
  /\ life' = [life EXCEPT ![n] = "out"]
  /\ sends' = [sends EXCEPT ![n] = @ + 1]

MissAck(n) ==
  /\ life[n] = "out"
  /\ sends[n] <= NumRetrans
  /\ life' = [life EXCEPT ![n] = "waiting"]
  /\ UNCHANGED sends

\* Only a packet that was sent leaves.
Leave(n) ==
  /\ life[n] \in {"waiting", "out"}
  /\ sends[n] > 0
  /\ life' = [life EXCEPT ![n] = "gone"]
  /\ sends' = [sends EXCEPT ![n] = 0]

WindowNext == \E n \in Packets : Accept(n) \/ Send(n) \/ MissAck(n) \/ Leave(n)

WindowSpec == WindowInit /\ [][WindowNext]_<<life, sends>>

-----------------------------------------------------------------------------
(* What follows                                                            *)

(***************************************************************************)
(* Packets that were accepted and are not gone are less than BufSize apart;*)
(* when one was sent or is gone, so is every earlier one; and none is sent *)
(* more often than NumRetrans + 1 times.                                   *)
(***************************************************************************)
InWindow == \A n, m \in Packets : life[n] # "none" /\ m <= n - BufSize => life[m] = "gone"
InTurn ==
  \A n, m \in Packets :
    m < n /\ (sends[n] > 0 \/ life[n] = "gone") => sends[m] > 0 \/ life[m] = "gone"
InBudget == \A n \in Packets : sends[n] <= NumRetrans + 1
WindowSafe == InWindow /\ InTurn /\ InBudget

(***************************************************************************)
(* A packet that is gone does not come back, and one that was sent leaves  *)
(* or keeps what it was sent: only Leave forgets.                          *)
(***************************************************************************)
Onward ==
  \A n \in Packets : /\ life[n] = "gone" => life'[n] = "gone"
                     /\ sends'[n] < sends[n] => life'[n] = "gone"
                     /\ life[n] # "none" => life'[n] # "none"
WindowOnward == [][Onward]_<<life, sends>>
=============================================================================
