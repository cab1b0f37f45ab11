SPECIFICATION FairSpec
CONSTANTS
  N = 2
  k1 = k1
  k2 = k2
  t1 = t1
  u1 = u1
  eu = eu
  org = org
  NoId = NoId
  Caller <- PlainCaller
  Projected <- PersonProjected
  Bills <- PersonBills
  Streaming = {2}
  HardCap <- PlainHardCap
  Limit <- PlainLimit
  MaxFaults = 2
  MaxCrashes = 1
CHECK_DEADLOCK FALSE
PROPERTIES
  CountersComeToRest
