SPECIFICATION Spec
CONSTANTS
  g1 = g1
  g2 = g2
  Generators = {g1, g2}
  Nothing = Nothing
  Foreign = Foreign
  Squatter = Squatter
  Reader = Reader
  Archives <- ReobservedArchives
  Contracts <- MCContracts
  Scenarios <- NoTrouble
SYMMETRY Symmetry
INVARIANT ReplaySucceeds
CHECK_DEADLOCK FALSE
