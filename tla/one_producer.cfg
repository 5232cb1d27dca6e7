SPECIFICATION Spec
CONSTANTS
  rcv_cell = rcv_cell
  send_probe = send_probe
  Sender = sender
  Acker = acker
  NoOne = none
  Producers <- OneProducer
  BufSize = 3
  NumRetrans = 2
  MaxDupAck = 2
  MaxContTimeOut = 2
  MaxEnq = 4
  MaxAckSeq = 2
INVARIANTS
  TypeOK
  WindowOrder
  EnqueueIntoEmpty
  DequeueAsserts
  NothingStranded
  SeqMatchesPosition
  NacksMatched
PROPERTIES
  NackedKept
  SentInOrder
