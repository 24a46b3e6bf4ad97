SPECIFICATION Spec
CONSTANTS
  a = a
  b = b
  c = c
  Tokens <- MCTokens
  Code <- MCCode
  Vectors = {v1, v2}
  Invalid = Invalid
  None = None
  MaxRows = 2
  Threads = {t1, t2}
INVARIANTS
  TokensKeepTheirRows
  AnswersAreStable
  VerifiedIsWhole
PROPERTY
  LookupsReturn
CHECK_DEADLOCK FALSE
