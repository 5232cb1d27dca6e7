SPECIFICATION GFSpec
CONSTANTS
  GF_BITS = 3
  Senders = {"alice", "bob"}
INVARIANTS
  TestGf
CHECK_DEADLOCK FALSE
