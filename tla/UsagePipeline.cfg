SPECIFICATION UsageFairSpec
CONSTANTS
  E = 4
  Replica = {w1, w2}
  Malformed = {2}
  BatchSize = 2
  MaxLen = 3
  MaxFaults = 1
  MaxCrashes = 1
INVARIANTS
  NothingSkipped
PROPERTIES
  LogSpec
  EveryEventPersisted
