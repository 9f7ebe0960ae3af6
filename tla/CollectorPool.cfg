\* Deadlock is not checked: a collection that has returned is the end.
CONSTANTS
  Target <- MCTarget
  Worker = {w1, w2}
  RawRetention = TRUE
  MaxLogs = 1
  Nothing = nothing
SPECIFICATION FairSpec
INVARIANTS AppendedIsWhole CauseIsReported TransientRemoved
PROPERTIES CollectionEnds
CHECK_DEADLOCK FALSE
