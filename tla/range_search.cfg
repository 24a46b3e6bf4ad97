SPECIFICATION Spec
CONSTANTS
  Precision = 5
  MaxExponent = 0
  Cost <- FiniteValues
  MaxCost <- MaxFinite
  Infinity <- Inf
  Add <- TAdd
  AddDistance <- TAddDistance
  Sub <- TSub
  Quotient <- TDiv
  NextUp <- TNextUp
  MaxLength = 4
  Symbols <- SmallSymbols
  Corpora <- SmallCorpora
  Queries <- LongerQueries
  Policies <- SmallPolicies
  Thresholds <- MCThresholds
  Limits <- MCLimits
  Unlimited = Unlimited
  MaxUsize = 8
  PaymentScale = 1728
INVARIANTS
  FilterIsComplete
  SelectionIsTwoApproximate
  LimitIsExact
PROPERTY
  SearchIsExact
CHECK_DEADLOCK FALSE
