SPECIFICATION Spec
CONSTANTS
  None = None
  Call = {c1, c2}
  Person = {p1, p2}
  Plan = {"free", "team"}
  Granted = {"owner", "member"}
  MaxFaults = 1
  MaxCalls = 3
  MaxTries = 5
  MaxClaims = 3
  MaxEvents = 2
  Name = {n1, n2}
  Provider = {q1}
  Region = {eu}
  Cap = {1, 2}
  Capped <- MCCapped
  Cost = {1, 2}
  MonthLength = 30
  HistoryDays = 30
  MinHistoryDays = 7
  AnomalyFloor = 5
  PageLimit = 1
  MaxDay = 2
  MaxRows = 2
SYMMETRY MCSymmetry
CHECK_DEADLOCK FALSE
INVARIANTS
  SetUpSafety
  
  BillingSafety
PROPERTIES
  LastOwnerKept
