SPECIFICATION Spec
CONSTANTS
  t1 = t1
  t2 = t2
  t3 = t3
  Tokens <- MCTokens
  MaxU32 = 2
  MaxTokens = 4
  MaxSequences = 4
  MaxQuery = 3
  SymbolCounts = {1, 2}
  CorpusStrings = 2
  CorpusLength = 3
  MaxPostings = 3
  MaxId = 2
  MaxPosition = 2
INVARIANTS
  IdentifiersAreStable
  BuiltEngineIsExact
  QueryKeepsItsTokens
  VerifiedIsExact
CHECK_DEADLOCK FALSE
