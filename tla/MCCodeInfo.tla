------------------------------ MODULE MCCodeInfo ------------------------------
(***************************************************************************)
(* Batches of up to 3 packets for TLC, at the width of the code. The       *)
(* packets of a batch, taken as the rows of a matrix, are linearly         *)
(* independent, so that no wrong combination of them gives back one.       *)
(***************************************************************************)
EXTENDS CodeInfo

MCCodes == {<<1, 2>>, <<2, 2>>, <<2, 4>>, <<3, 5>>}
MCPayloads == [i \in Elem |-> {[w \in Below(MaxLen) |-> IF w = i THEN 2 ELSE 1]}]
=============================================================================
