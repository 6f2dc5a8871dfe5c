SPECIFICATION FairSpec
CONSTANTS
  Cancellers = {c1, c2}
  UniqueSequence = FALSE
  MaxRaw <- MCMaxRaw
  MaxFaults <- MCMaxFaults
INVARIANTS
  TypeOK
  CancelledOnlyOnRequest
  CompletedHasOutcome
  SettledWhenClosed
  OutcomeBeforeClose
  OutcomeSortsLast
PROPERTIES
  FeedSpec
  LifecycleSpec
  RunSettles
CHECK_DEADLOCK FALSE
