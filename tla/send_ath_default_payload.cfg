SPECIFICATION SendSpec
CONSTANTS
  rcv_cell = rcv_cell
  Sender = sender
  Acker = acker
  NoOne = none
  Producers <- OneProducer
  BufSize = 2
  NumRetrans = 0
  MaxDupAck = 2
  MaxContTimeOut = 2
  MaxEnq = 4
  MaxAckSeq = 1
  MaxBatch = 2
INVARIANT PayloadMatches
