CONSTANTS
  None = None
  NoFile = NoFile
  Broken = Broken
  Alphabetical <- MCAlphabetical
  Lowercase <- MCLowercase
  KnownActions <- MCKnownActions
  Members <- MCMembers
  Files <- MCFiles
  Keys <- MCKeys
  Flags <- MCFlags
  Switches <- MCSwitches
  Hands <- MCHands
  MaxSheets = 2
SPECIFICATION Spec
INVARIANTS
  TypeOK
  CleanMeansStored
  RequestsAreSettled
  SuspendedWhileRecording
  SavedIsLive
  ReportingFollowsChoice
PROPERTIES
  EditsLostOnlyIfTold
  SavesKeepTheRest
