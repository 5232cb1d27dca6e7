SPECIFICATION CodeSpec
CONSTANTS
  GF_BITS = 8
  sender = "alice"
  Senders = {"alice"}
  Codes <- MCCodes
  MaxLen = 3
  Lens = {1, 3}
  Payloads <- MCPayloads
  MaxBatchSize = 10
INVARIANTS
  AnyKRecover
  UndecodedUntouched
  SizeIsOwn
  VandermondeInverted
PROPERTIES
  FieldTables
CHECK_DEADLOCK FALSE
