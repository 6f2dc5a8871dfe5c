SPECIFICATION Spec
CONSTANTS
  Cancellers = {c1}
  UniqueSequence = FALSE
  MaxRaw = 2
  MaxFaults = 0
INVARIANTS
  AcceptedCancelHolds
CHECK_DEADLOCK FALSE
