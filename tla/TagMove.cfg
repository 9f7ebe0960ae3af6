\* Deadlock is not checked: moves that have ended are the end.
CONSTANTS
  A = a
  B = b
  Other = other
  Move = {m1, m2}
  MaxClock = 3
  MaxStops = 1
  MaxForeign = 1
  Nothing = nothing
SPECIFICATION Spec
INVARIANTS RecordIsAccepted ConfirmedMeansMoved NothingLeftBehind ClosedDerivation
SYMMETRY Symmetry
CHECK_DEADLOCK FALSE
