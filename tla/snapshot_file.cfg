SPECIFICATION Spec
CONSTANTS
  w1 = w1
  w2 = w2
  Writers <- MCWriters
  Readers = {r1, r2}
  Previous = Previous
  None = None
  Torn = Torn
  Size <- MCSize
INVARIANTS
  PublishedIsWhole
  SavedIsDurable
  MappingIsChecked
PROPERTY
  SavesAreAtomic
