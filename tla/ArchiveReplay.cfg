\* One writer that may die at every step, and a reader that starts at any time.
CONSTANTS
  none = none
  d1 = d1
  Nothing = none
  Writer = {w1}
  Batch <- MCBatch
  Session <- MCSession
  Body <- MCBody
  Evidence <- MCEvidence
  Fact <- MCFact
  EvidenceSession <- MCEvidenceSession
  Object <- MCObject
  ObjectOf <- MCObjectOf
  ParentsOf <- MCParentsOf
  RepositoryFacts <- MCRepositoryFacts
  RunFacts <- MCRunFacts
  Capability <- MCCapability
  Status <- MCStatus
  Repo = {"r"}
  Run <- MCRun
  Digest = {d1}
  MaxTime = 2
  Content <- MCContent
  RawOf <- MCRawOf
  Contradicts <- MCContradicts
  RawLogs = "raw_logs"
  Retained = "retained"
  Gap = "gap"
SPECIFICATION ReplaySpec
INVARIANTS RawBehindCommit ReplayBetween CheckpointBacked
