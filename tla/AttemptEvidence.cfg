\* Deadlock is not checked: an attempt that is done with is the end.
CONSTANTS
  j1 = j1
  j2 = j2
  AttemptLog = attempt
  None = none
  Url = {route, other, third}
  Route = route
  MaxAttempts = 2
  MaxRedirects = 1
  ClientLimit = 2
  AdapterLimit = 2
  MaxBody = 3
  MaxDepth = 4
  Job <- MCJob
  LogOrder <- MCLogOrder
  RepositoryOf <- MCRepositoryOf
  ActionNamed <- MCActionNamed
  Commits <- MCCommits
  Worlds <- MCWorlds
  Faulty <- MCFaulty
SPECIFICATION FairEvidenceSpec
INVARIANTS OneBody DefinitionSilence BoundToItsJob
PROPERTIES AttemptEnds
CHECK_DEADLOCK FALSE
