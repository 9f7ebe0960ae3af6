CONSTANTS
  MaxFacts = 4
  None = none
  Batches <- MCBatches
  Indicators <- MCIndicators
  KnownGood <- MCKnownGood
SPECIFICATION Spec
INVARIANTS AffectedIsReported NegativeIsEarned NoCarryForward
PROPERTIES ReplayIsStable ConfirmedStands
