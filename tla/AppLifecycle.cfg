\* Three spaces; access, the settings file and the space change at any time.
CONSTANTS
  None = None
  Spaces <- MCSpaces
  MaxNotices = 2
  MaxBlocks = 3
SPECIFICATION Spec
INVARIANTS TypeOK NeverSilentlyDown MenuTellsTruth
PROPERTIES StopsAsking TitleCatchesUp
