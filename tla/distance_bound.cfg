SPECIFICATION Spec
CONSTANTS
  Precision = 3
  MaxExponent = 3
  Steps <- MCSteps
INVARIANTS
  OverflowIsExact
  BudgetKeepsExactMatches
CHECK_DEADLOCK FALSE
