\* Two writers that may each die at every step.
CONSTANTS
  none = none
  d1 = d1
  Nothing = none
  Writer = {w1, w2}
  Batch <- MCBatch
  Session <- MCSession
  Body <- MCBody
  Evidence <- MCEvidence
  Fact <- MCFact
  EvidenceSession <- MCEvidenceSession
  Object <- MCObject
  ObjectOf <- MCObjectOf
  ParentsOf <- MCParentsOf
  RepositoryFacts <- MCRepositoryFacts
  RunFacts <- MCRunFacts
  Capability <- MCCapability
  Status <- MCStatus
  Repo = {"r"}
  Run <- MCRun
  Digest = {d1}
  MaxTime = 2
  Content <- MCContent
SPECIFICATION FairSpec
INVARIANTS CommittedWhole NothingUncommitted FrontierIsLatest ReferencesClosed
PROPERTIES AtomicArchive AppendEnds
