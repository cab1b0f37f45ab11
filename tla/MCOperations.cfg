SPECIFICATION Spec
CONSTANTS
  r1 = r1
  r2 = r2
  t1 = t1
  t2 = t2
  t3 = t3
  a1 = a1
  a2 = a2
  m1 = m1
  m2 = m2
  q1 = q1
  p1 = p1
  p2 = p2
  Replicas = {r1, r2}
  Setups <- MCSetups
  LastMonth = 3
  MonthsAhead = 2
  MaxOutage = 2
  MaxStops = 1
  Recorders = {t1, t2, t3}
  Statuses = 2
  Edges = 1
  Requests = 1
  Percentiles = {60}
  Circuits = {q1}
  Models = {m1, m2}
  MaxChanges = 2
  Admins = {a1, a2}
  Listable = {1, 2}
  Lasting = 1
  MaxLists = 2
  Prices <- MCPrices
  None = None
  Call = {c1, c2}
  Person = {p1, p2}
  Plan = {"enterprise"}
  MaxFaults = 1
  MaxMoves = 3
  Domain = {"d1", "d2"}
  DomainOf <- MCDomainOf
  Tokens <- MCTokens
  MaxLogins = 1
  MaxReturns = 2
CHECK_DEADLOCK FALSE
INVARIANTS
  PartitionThere
  MetricsSafety
  ReferenceWhole
  DirectorySafety
PROPERTIES
  StartsAgain
  Converges
