\* One display, every disturbance but vertical swipes in App Expose.
CONSTANTS
  w1 = w1
  w2 = w2
  left = left
  right = right
  leftAnchor = leftAnchor
  rightAnchor = rightAnchor
  Nothing = Nothing
  Displays <- OneDisplay
  DisplayOf <- OneDisplayOf
  Anchor <- OneAnchor
  Reading <- MCReading
  AppOf <- TwoAppOf
  Requests <- MCRequests
  MousePoints <- OneMousePoints
  OldCentres <- OneOldCentre
  MoveCursor = FALSE
  MaxSwipes = 1
  MaxJobs = 1
  MaxHighlights = 1
  Polls = 1
  MaxUnshown = 0
  Disturbances = {"mouse", "failure", "slow", "native", "lost"}
SPECIFICATION Spec
INVARIANTS SessionIsTheHighlight KeysStepOn DismissalBringsHighlightForward
