SPECIFICATION MCSpec
CONSTANTS
  Precision = 5
  MaxExponent = 0
  Cost <- FiniteValues
  MaxCost <- MaxFinite
  Infinity <- Inf
  Add <- TAdd
  AddDistance <- TAddDistance
  Sub <- TSub
  Quotient <- TDiv
  NextUp <- TNextUp
  MaxLength = 4
  Symbols <- SmallSymbols
  Corpora <- MCCorpora
  Queries <- MCQueries
  Policies <- MCPolicies
  Thresholds <- MCThresholds
  Limits = {Unlimited}
  Unlimited = Unlimited
  MaxCandidates = 2
INVARIANTS
  CacheIsExact
  ResultsAreAnchored
CHECK_DEADLOCK FALSE
