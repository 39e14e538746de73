\* Nothing fails; the overlay takes its time, or closes again.
CONSTANTS
  w1 = w1
  w2 = w2
  left = left
  right = right
  leftAnchor = leftAnchor
  rightAnchor = rightAnchor
  Nothing = Nothing
  Displays <- OneDisplay
  DisplayOf <- OneDisplayOf
  Anchor <- OneAnchor
  Reading <- MCReading
  AppOf <- OneAppOf
  Requests <- MCRequests
  MousePoints <- OneMousePoints
  OldCentres <- OneMousePoints
  MoveCursor = FALSE
  MaxSwipes = 1
  MaxJobs = 1
  MaxHighlights = 1
  Polls = 1
  MaxUnshown = 0
  Disturbances = {}
SPECIFICATION Spec
PROPERTY HighlightsOnlyOverlay
