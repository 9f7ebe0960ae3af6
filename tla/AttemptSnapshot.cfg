\* Deadlock is not checked: a finished snapshot is the end.
CONSTANTS
  RunID = 7
  NoName = "none"
  Nothing = nothing
  MaxPasses = 3
  MaxUpdates = 4
  JobLists <- MCJobLists
  Responses <- MCResponses
  IDs = {0, 1, 2}
  Runs = {7, 8}
  Names = {"none", "a", "b"}
  MaxJobs = 3
SPECIFICATION Spec
INVARIANTS StableCoversAttempts SilenceIsComplete StableLastPass OrderFree JoinSafe
CHECK_DEADLOCK FALSE
