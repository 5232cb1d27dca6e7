---------------------------- MODULE MCTxSendAth ----------------------------
(* TLC instances of TxSendAth: one producer, as a model value.              *)
EXTENDS TxSendAth, TLC

CONSTANT rcv_cell

OneProducer == {rcv_cell}
=============================================================================
