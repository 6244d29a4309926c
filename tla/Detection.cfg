CONSTANTS
  Rects <- MCRects
  MaxDetections = 3
  LineCounts = {4, 5}
  NmsThreshold = 0
  NmsNeighbors = 0
  Scores <- MCScores
SPECIFICATION Spec
INVARIANTS LargestReported SuppressionsCorrect WireCarriesResult AngleInView
CHECK_DEADLOCK FALSE
