---------------------------- MODULE MCAckContext ----------------------------
(* TLC instances of AckContext: the boxes of two clients.                    *)
EXTENDS AckContext, TLC

CONSTANTS data_1, raw_1, data_2

AckBoxes    == {data_1, raw_1, data_2}
TimedBoxes  == {data_1, data_2}
=============================================================================
