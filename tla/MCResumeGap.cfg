SPECIFICATION StreamSpec
CONSTANTS
  Cancellers = {}
  UniqueSequence = FALSE
  MaxRaw = 2
  MaxFaults = 0
  Streams = {s1}
  Resume = {0}
INVARIANTS
  ResumeIsLossless
CHECK_DEADLOCK FALSE
