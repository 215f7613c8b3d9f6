CONSTANTS
  MaxItems = 2
  StreamResults = {"ok", "err"}
  Limits = {0, 1, 2}
SPECIFICATION FairSpec
CHECK_DEADLOCK FALSE
PROPERTIES
  RunsToCompletion
