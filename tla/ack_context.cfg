SPECIFICATION FairSpec
CONSTANTS
  data_1 = data_1
  raw_1 = raw_1
  data_2 = data_2
  Boxes <- AckBoxes
  DataBoxes <- TimedBoxes
  MaxAcks = 2
INVARIANTS
  TypeOK
  InOrderOnce
  NoSleeper
PROPERTIES
  EveryAckHandled
