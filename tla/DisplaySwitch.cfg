\* Every disturbance, and up to two changes of focus the server has not reported.
CONSTANTS
  a = a
  b = b
  c = c
  d = d
  NoDisplay = NoDisplay
  NoSwitch = NoSwitch
  Displays <- MCDisplays
  Arrangements <- MCArrangements
  Requests <- MCRequests
  Ttl = 2
  Lag = 1
  MaxInFlight = 3
  Disturbances <- Disturbing
SPECIFICATION Spec
INVARIANTS TypeOK AnswerIsRecent
PROPERTY PressesWalk
