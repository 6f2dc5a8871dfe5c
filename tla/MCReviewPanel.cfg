SPECIFICATION PanelSpec
CONSTANTS
  Reviews <- MCReviews
  MaxChunks <- MCChunks
  Null = null
  MaxMishaps = 1
  MaxGestures = 1
CHECK_DEADLOCK FALSE
INVARIANTS ReplyIsTheGraphs OneRunsText OverlapIsExplained
