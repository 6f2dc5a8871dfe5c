SPECIFICATION FairSpec
CONSTANTS
  r1 = r1
  r2 = r2
  Runs <- MCRuns
  MaxRetry = 2
  MaxSeq = 1
  MaxMessages <- MCMaxMessages
  MaxRestarts = 0
  MaxLost = 0
INVARIANTS
  TypeOK
  OneStream
  FailureIsEarned
PROPERTIES
  GeneratedSettles
CHECK_DEADLOCK FALSE
