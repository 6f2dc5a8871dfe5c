SPECIFICATION PanelSpec
CONSTANTS
  Reviews <- MCOneReview
  MaxChunks <- MCTwoChunks
  Null = null
  MaxMishaps = 2
  MaxGestures = 4
CHECK_DEADLOCK FALSE
PROPERTIES PanelSettles
