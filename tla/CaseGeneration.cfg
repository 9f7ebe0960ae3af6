SPECIFICATION Spec
CONSTANTS
  g1 = g1
  g2 = g2
  Generators = {g1, g2}
  Nothing = Nothing
  Foreign = Foreign
  Squatter = Squatter
  Reader = Reader
  Archives <- MCArchives
  Contracts <- MCContracts
  Scenarios <- MCScenarios
SYMMETRY Symmetry
INVARIANTS OneCase CleansUp ReportsRestOnFacts AcceptedAgrees
CHECK_DEADLOCK FALSE
