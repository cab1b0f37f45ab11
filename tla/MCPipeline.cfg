SPECIFICATION FairPipelineSpec
CONSTANTS
  nano = nano
  small = small
  large = large
  rival = rival
  embed = embed
  novel = novel
  none = none
  None = none
  LastTurn = 2
  Model <- MCModel
  Unpriced = {novel}
  ProviderOf <- MCProviderOf
  Tier <- MCTier
  Price <- MCPrice
  Feature <- MCFeature
  Window <- MCWindow
  Ask <- MCAsk
  Policy <- MCPolicy
  MaxChanges = 1
  TurnLimit = 5
  KeepRecent = 3
  TokenBudget = 600
  StaleAge = 2
  LargeBlock = 400
  KeepEdge = 300
  Instruction <- MCInstruction
  Question <- MCQuestion
  Output <- MCOutput
  MaxMessages = 11
  IdRank <- MCIdRank
  BareName <- MCBareName
  Repriced = {small, large}
  Tariff <- MCTariff
  Spelling <- MCSpelling
  Tokens <- MCTokens
  TokensSaved = {0, 50}
  Plan = {"pro", "api"}
  MaxPriced = 2
  MaxPriceChanges = 1
CHECK_DEADLOCK FALSE
INVARIANTS
  RoutingSafety
  PromptSafety
  MoneyAddsUp
PROPERTIES
  PolicyTakesEffect
