SPECIFICATION Spec
CONSTANTS
  MaxParts = 4
  Counts = {0, 1}
  Calls = {c1, c2}
  Life = 4
  Margin = 2
  Delay = 1
  LastTick = 9
  acme = acme
  Asker = {a1}
  Org = {acme}
  Requests <- MCPictured
  Similarity <- MCSimilarity
  Domain <- MCDomain
  Shrunk <- MCShrunk
  Base = 95
  MaxCalls = 2
  None = None
  Keys <- MCKeys
  Wants <- MCWants
  Tables <- MCTables
  Spellings <- MCSpellings
  MaxRefreshes = 1
CHECK_DEADLOCK FALSE
INVARIANTS
  PictureTold
