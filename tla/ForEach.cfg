CONSTANTS
  MaxItems = 3
  StreamResults = {"ok", "err"}
  Limits = {0, 1, 2}
SPECIFICATION FairSpec
CHECK_DEADLOCK FALSE
INVARIANTS
  LimitRespected
  FirstErrorReturned
  TerminatedMeansReturned
  WakeupComing
PROPERTIES
  ImplementsThenTry
  PollsEnd
  RunsToCompletionWithoutErr
