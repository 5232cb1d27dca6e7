--------------------------- MODULE MCTxDataBuf ---------------------------
(* TLC instances of TxDataBuf: model values for the threads.             *)
EXTENDS TxDataBufRefinement, TLC

CONSTANTS rcv_cell, send_probe

OneProducer  == {rcv_cell}
TwoProducers == {rcv_cell, send_probe}
==========================================================================
