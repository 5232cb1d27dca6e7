------------------------------ MODULE MCRateControl ------------------------------
(***************************************************************************)
(* Two rates, with ten ns to the second so that a few packets cross one.  *)
(***************************************************************************)
EXTENDS RateControl

MCRates == <<10, 55>>
MCWndSize == <<2, 2>>
Config(version, use_fec, enable_duplicate, pkts, limits) ==
  [version |-> version, use_fec |-> use_fec, enable_duplicate |-> enable_duplicate,
   pkts |-> pkts, known |-> 2, timeouts |-> limits]
MCTwoKnown ==
  {Config("ScoutBoundLossSeq", TRUE, TRUE, 2, 2), Config("ScoutRandom", FALSE, FALSE, 1, 1),
   Config("BatchSeq", TRUE, FALSE, 2, 1), Config("Fixed", TRUE, FALSE, 2, 1),
   Config("SampleRate", FALSE, FALSE, 3, 0), Config("RRAA", TRUE, FALSE, 2, 0),
   Config("RRAA", FALSE, TRUE, 1, 1)}

\* A raw ack that tells of four packets: with three of them lost and then a fifth, the loss is
\* .2 * .75 + .8 * 1 = .95, and the redundancy 1.
MCFourKnown == {[Config("Fixed", TRUE, FALSE, 5, 0) EXCEPT !.known = 4]}

MCConfigs == MCTwoKnown \cup MCFourKnown
=============================================================================
