CONSTANTS
  left = left
  right = right
  Displays = {left, right}
  Main = Main
  Nothing = Nothing
  NumSpaces <- MCNumSpaces
  Occupied <- MCOccupied
  Requests <- MCRequests
  MaxUnderWay = 3
  Polls = 1
SPECIFICATION Spec
INVARIANTS
  TypeOK
  AskedSpaceShown
  HighlightFollows
PROPERTY ComesToAnEnd
