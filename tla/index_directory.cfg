SPECIFICATION Spec
CONSTANTS
  Space = {" "}
  Wide = {"w"}
  Chars = {"a", "w", " "}
  Runs <- MCRuns
  Searches = {s1}
  NewLine = "n"
  None = None
INVARIANTS
  SuccessIsUsable
  LocatesWhatMatched
PROPERTIES
  OnlyPublishingReplaces
  OpenFilesNeverChange
CHECK_DEADLOCK FALSE
