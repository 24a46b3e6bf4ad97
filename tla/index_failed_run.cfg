SPECIFICATION Spec
CONSTANTS
  Space = {" "}
  Wide = {"w"}
  Chars = {"a", "w", " "}
  Runs <- MCRuns
  Searches = {}
  NewLine = "n"
  None = None
INVARIANT
  FailedRunLeavesIndexUsable
CHECK_DEADLOCK FALSE
