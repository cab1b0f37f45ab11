SPECIFICATION FairSpec
CONSTANTS
  Replica = {a, b}
  Orgs = 2
  ClaimTTL = 2
  Window = 5
  Rules = 2
  MaxOverlaps = 1
  MaxMonths = 1
  MaxFaults = 1
  MaxCrashes = 1
  N = 2
  Projected <- MCProjected
  Actual <- MCActual
  None = None
  Threshold = 1
  MaxDeaths = 1
CHECK_DEADLOCK FALSE
INVARIANTS
  AlertsBounded
  ForgivenessBounded
PROPERTIES
  SchedulerSends
  OverspendReported
  OverblockingEnds
