CONSTANTS
  None = None
  Runs = {r1, r2, r3}
  r1 = r1 r2 = r2 r3 = r3
  Assignments <- MCAssignments
  Count = 2
  Batches = 2
  LeaseDuration = 1
SPECIFICATION Spec

INVARIANTS TypeOK DomainMatchesLedger GapsNeedOverrun
PROPERTIES BatchesAreFenced
CHECK_DEADLOCK FALSE
