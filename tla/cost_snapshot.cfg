SPECIFICATION Spec
CONSTANTS
  MaxRuns = 3
  Searches = {s1}
  None = None
INVARIANTS
  SuccessIsUsable
  OpensTheKindAnnounced
CHECK_DEADLOCK FALSE
