\* Two actions deferred, two swipes on their way, three spaces.
CONSTANTS
  None = None
  Alphabetical <- MCAlphabetical
  Lowercase <- MCLowercase
  Documents <- MCDocuments
  Presses <- MCPresses
  Gestures = {"left", "down"}
  NumSpaces = 3
  MaxUnderWay = 2
SPECIFICATION Spec
INVARIANTS TypeOK WholeGestures AskedIsReached DeferredIsOwed
PROPERTIES PressesGetDone SwipesArrive
