\* Deadlock is not checked: an enumeration that has returned is the end.
CONSTANTS
  Run = {1, 2, 3, 4}
  Sec = 2
  Ceiling = 4
  PerPage = 2
  MaxPartitions = 5
  LateListing = TRUE
  MaxChanges = 3
  Nothing = nothing
  Requests <- MCRequests
  Creations <- MCCreations
SPECIFICATION Spec
INVARIANTS SilenceIsComplete QuietIsExact
CHECK_DEADLOCK FALSE
