SPECIFICATION Spec
CONSTANTS
  rcv_cell = rcv_cell
  send_probe = send_probe
  Sender = sender
  Acker = acker
  NoOne = none
  Producers <- TwoProducers
  BufSize = 2
  NumRetrans = 2
  MaxDupAck = 2
  MaxContTimeOut = 2
  MaxEnq = 3
  MaxAckSeq = 2
INVARIANTS
  EnqueueIntoEmpty
  NothingStranded
PROPERTIES
  ImplementsSendWindow
