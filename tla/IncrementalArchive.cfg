\* Deadlock is not checked: at MaxTime nothing may be left to do.
CONSTANTS
  Run = {u1}
  Overlap = 2
  Horizon = 4
  Since = {1, 3}
  Latency = 2
  Ahead = 0
  Behind = 1
  Explicit = {2}
  MaxTime = 6
  MaxAttempts = 2
  Nothing = nothing
SPECIFICATION Spec
INVARIANTS NoSilentHole
PROPERTIES NoSilentStall WatermarkHolds
CHECK_DEADLOCK FALSE
