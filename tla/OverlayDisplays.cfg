\* A display with a window and one without; dismissals overlap, any call may fail.
CONSTANTS
  w1 = w1
  w2 = w2
  left = left
  right = right
  leftAnchor = leftAnchor
  rightAnchor = rightAnchor
  Nothing = Nothing
  Displays <- TwoDisplay
  DisplayOf <- TwoDisplayOf
  Anchor <- TwoAnchor
  Reading <- OneWindow
  AppOf <- OneAppOf
  Requests <- MCRequests
  MousePoints <- TwoMousePoints
  OldCentres <- OneOldCentre
  MoveCursor = TRUE
  MaxSwipes = 1
  MaxJobs = 2
  MaxHighlights = 0
  Polls = 1
  MaxUnshown = 1
  Disturbances = {"failure"}
SPECIFICATION Spec
INVARIANTS TypeOK RequestsActOnHighlight CursorVisibleAtRest
PROPERTY DismissalEnds
