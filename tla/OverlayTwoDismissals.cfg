\* Keys pressed while a dismissal is under way.
CONSTANTS
  w1 = w1
  w2 = w2
  left = left
  right = right
  leftAnchor = leftAnchor
  rightAnchor = rightAnchor
  Nothing = Nothing
  Displays <- OneDisplay
  DisplayOf <- OneDisplayOf
  Anchor <- OneAnchor
  Reading <- MCReading
  AppOf <- OneAppOf
  Requests <- MCRequests
  MousePoints <- OneMousePoints
  OldCentres <- OneMousePoints
  MoveCursor = FALSE
  MaxSwipes = 2
  MaxJobs = 2
  MaxHighlights = 2
  Polls = 1
  MaxUnshown = 0
  Disturbances = {}
SPECIFICATION Spec
INVARIANT CursorReturns
