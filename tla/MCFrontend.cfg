SPECIFICATION Spec
CONSTANTS
  None = None
  n1 = n1
  n2 = n2
  Caller = {c1, c2}
  Key = {k1, k2}
  Replica = {n1, n2}
  Plan = "free"
  Home = {n1}
  Skew <- MCSkew
  Limit <- MCLimit
  Window = 6
  Second = 2
  LimitsTTL = 1
  Allowance = 1
  MaxTime = 8
  MaxKeyTime = 6
  MaxChecks = 4
  MaxDoorTime = 1
  MaxFaults = 1
  MaxRequests = 3
  MaxChanges = 1
SYMMETRY MCSymmetry
CHECK_DEADLOCK FALSE
INVARIANTS
  LimiterSafety
  DoorSafety
