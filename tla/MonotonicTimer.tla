---------------------------- MODULE MonotonicTimer ----------------------------
(***************************************************************************)
(* Points in time and durations as a struct timespec holds them: seconds   *)
(* and nanoseconds, with the comparisons and arithmetic of                 *)
(* monotonic_timer.cc.                                                     *)
(***************************************************************************)
EXTENDS Integers

CONSTANT Billion    \* nanoseconds in a second

ASSUME TimerAssumption == Billion \in Nat \ {0}

\* The times of clock_gettime; arithmetic keeps to them (RateControl_proofs).
Timer == [sec : Int, nsec : 0 .. Billion - 1]
Nanoseconds(ns) == [sec |-> ns \div Billion, nsec |-> ns % Billion]

GetNSec(t) == t.sec * Billion + t.nsec

Less(a, b) == a.sec < b.sec \/ (a.sec = b.sec /\ a.nsec < b.nsec)
AtMost(a, b) == a.sec < b.sec \/ (a.sec = b.sec /\ a.nsec <= b.nsec)

Plus(a, b) ==
  LET nsec == a.nsec + b.nsec
  IN  IF nsec >= Billion THEN [sec |-> a.sec + b.sec + 1, nsec |-> nsec - Billion]
      ELSE [sec |-> a.sec + b.sec, nsec |-> nsec]

\* A larger right side is reported and subtracted all the same.
Minus(a, b) ==
  LET nsec == a.nsec - b.nsec
  IN  IF nsec < 0 THEN [sec |-> a.sec - b.sec - 1, nsec |-> nsec + Billion]
      ELSE [sec |-> a.sec - b.sec, nsec |-> nsec]
=============================================================================
