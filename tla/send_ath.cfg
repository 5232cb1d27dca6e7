SPECIFICATION FairSendSpec
CONSTANTS
  rcv_cell = rcv_cell
  Sender = sender
  Acker = acker
  NoOne = none
  Producers <- OneProducer
  BufSize = 2
  NumRetrans = 1
  MaxDupAck = 2
  MaxContTimeOut = 2
  MaxEnq = 3
  MaxAckSeq = 2
  MaxBatch = 2
INVARIANTS
  SendTypeOK
  BatchConsecutive
  SenderAsserts
  NoneForgotten
  FirstPayloadMatches
PROPERTIES
  BatchIsSent
  AllLeave
