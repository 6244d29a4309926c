CONSTANTS
  Rects <- MCRects
  Confidences = {40, 60, 80}
  MaxDetections = 2
  LineCounts = {6, 7}
  Thresholds <- MCThresholds
  SpanSize = 1
  Unset = Unset
SPECIFICATION Spec
INVARIANTS ResultsComplete DirectionsAgree ResultsAreRanked
PROPERTIES SpanWritten
