SPECIFICATION Spec
CONSTANTS
  N = 3
  k1 = k1
  k2 = k2
  t1 = t1
  u1 = u1
  eu = eu
  org = org
  NoId = NoId
  Caller <- MCCaller
  Projected <- MCProjected
  Bills <- MCBills
  Streaming = {1}
  HardCap <- MCHardCap
  Limit <- MCLimit
  MaxFaults = 0
  MaxCrashes = 1
CHECK_DEADLOCK FALSE
INVARIANTS
  CounterIsSum
  AdmittedWithinCap
  SettlesToTheBill
PROPERTIES
  AtomicSpec
