SPECIFICATION Spec
CONSTANTS
  Billion = 10
  Rates <- MCRates
  kMaxK = 2
  gf_size = 5
  CoherenceTime = 3000
  ExtraTime = 55
  PktSize = 110
  WndSize <- MCWndSize
  SampleEvery = 2
  FailLimit = 2
  Configs <- MCConfigs
  MaxFollowed = 2
  StartTime = 8
  Gap = 2
  TotalWindow = 6
  BackWindow = 5
INVARIANTS
  TypeOK
  DecisionSound
  HighLossSafe
  HighLossOnlyAtLowest
  BaselineTablesMatch
PROPERTIES
  WindowCounted
  SampleRateDelivers
