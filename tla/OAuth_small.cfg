SPECIFICATION Spec
CONSTANTS
  Requests = {r1, r2}
  MaxAttempts = 2
SYMMETRY RequestSymmetry
\* Nothing is served once the source is deleted.
CHECK_DEADLOCK FALSE
INVARIANTS
  SucceedsByItsOwnUrl
  SucceededIsStored
  CancelHolds
  WaitingCanComplete
  DeletionIsComplete
  VerifierGone
PROPERTIES
  ImplementsOperation
