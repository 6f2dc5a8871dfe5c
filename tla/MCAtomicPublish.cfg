SPECIFICATION Spec
CONSTANTS
  Cancellers = {c1}
  UniqueSequence = FALSE
  MaxRaw = 1
  MaxFaults = 1
INVARIANTS
  SaveAndPublishIsAtomic
CHECK_DEADLOCK FALSE
