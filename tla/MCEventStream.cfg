SPECIFICATION FairStreamSpec
CONSTANTS
  Cancellers = {c1}
  UniqueSequence = FALSE
  MaxRaw = 1
  MaxFaults = 1
  Streams = {s1}
  Resume <- MCResume
INVARIANTS
  StreamTypeOK
  AtMostOneDuplicate
  LostOnlyInTheGap
  ReplayEndsWithOutcome
PROPERTIES
  StreamsEnd
CHECK_DEADLOCK FALSE
