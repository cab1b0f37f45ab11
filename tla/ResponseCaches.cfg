SPECIFICATION CachesFairSpec
CONSTANTS
  Replica = {a, b}
  Request = {a, b}
  Home <- OwnSlots
  Console = a
  TTL = 1
  FillTime = 0
  MaxChanges = 1
  MaxFaults = 1
  MaxAnswers = 1
PROPERTIES
  StaleOnlySoLong
  ZeroRetentionEmpties
