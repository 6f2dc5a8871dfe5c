SPECIFICATION FairSpec
CONSTANTS
  r1 = r1
  r2 = r2
  Runs <- MCRuns
  MaxRetry = 1
  MaxSeq = 1
  MaxMessages <- MCMaxMessages
  MaxRestarts = 1
  MaxLost = 0
PROPERTIES
  FirstErrorReconnects
CHECK_DEADLOCK FALSE
