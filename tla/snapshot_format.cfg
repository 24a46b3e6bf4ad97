SPECIFICATION Spec
CONSTANTS
  MaxU64 = 31
  MaxUsize = 30
  HeaderLen = 3
  EntryLen = 1
  CodecLen = 2
  NoCodecLen = 1
  Word = 2
  Contents <- MCContents
  MaxDamage = 2
INVARIANTS
  WrittenIsAccepted
  RegionsAreApart
  ViewsNeverFail
  LengthsAreRedundant
CHECK_DEADLOCK FALSE
