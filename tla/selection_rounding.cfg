SPECIFICATION SelectionSpec
CONSTANTS
  Precision = 2
  MaxExponent = 2
  Cost <- FiniteValues
  MaxCost <- MaxFinite
  Infinity <- Inf
  Add <- TAdd
  AddDistance <- TAddDistance
  Sub <- TSub
  Quotient <- TDiv
  NextUp <- TNextUp
  MaxLength = 4
  Symbols <- SmallSymbols
  Corpora <- SmallCorpora
  Queries <- LongerQueries
  Policies <- RoundingPolicies
  Thresholds <- FiniteValues
  Limits = {Unlimited}
  Unlimited = Unlimited
  MaxUsize = 8
  PaymentScale = 1
INVARIANTS
  SelectionTypeOK
  UnavailableOnlyIfDeletionsAdmitted
  AdjustedRadiusIsNarrowest
  ChosenLeavesBound
  NoMatchAvoidsSelection
PROPERTY
  SelectionReturns
CHECK_DEADLOCK FALSE
