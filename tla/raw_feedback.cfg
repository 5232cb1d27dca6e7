SPECIFICATION Spec
CONSTANTS
  MaxRaw = 4
  MaxRawBufSize = 2
  Duration = 2
INVARIANTS
  TypeOK
  Contiguous
  NackedOnce
  FateIsTrue
  TakenOnce
