SPECIFICATION PolicySpec
CONSTANTS
  a = a
  b = b
  sp = sp
  Space = {sp}
  Wide = {b}
  Chars <- MCChars
  One = 5
  MaxCost = 6
  NegativeZero = 16
  Infinite = 99
  Damaged = Damaged
  Absent = Absent
  Configs <- MCConfigs
  Texts <- MCTexts
  RuleNumbers = {3, 16, 31}
  Vectors <- MCVectors
  MaxLines = 2
  MaxWord = 31
  Codecs <- MCCodecs
  DamagedWords = {0, 1, 2, 16}
  MaxDamage = 2
INVARIANTS
  ChargesAsConfigured
  NoRuleIsLost
CHECK_DEADLOCK FALSE
