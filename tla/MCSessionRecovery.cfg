SPECIFICATION Spec
CONSTANTS
  r1 = r1
  r2 = r2
  Runs <- MCOneRun
  MaxRetry = 1
  MaxSeq = 2
  MaxMessages = 2
  MaxRestarts = 2
  MaxLost = 2
INVARIANTS
  OneStream
  
  CompletedIsTrue
CHECK_DEADLOCK FALSE
