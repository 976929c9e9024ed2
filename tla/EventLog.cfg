SPECIFICATION Spec
CONSTANTS
  Events <- Small
  MaxEvents = 4
INVARIANTS
  FactsAreTheLog
  OutcomeHasEvidence
  ReplayAgreesOnceEnded
PROPERTIES
  ForwardOnly
