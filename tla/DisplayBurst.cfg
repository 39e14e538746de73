\* Nothing but hotkeys; three switches within the server's lag.
CONSTANTS
  a = a
  b = b
  c = c
  d = d
  NoDisplay = NoDisplay
  NoSwitch = NoSwitch
  Displays <- MCDisplays
  Arrangements <- MCArrangements
  Requests <- MCRequests
  Ttl = 2
  Lag = 1
  MaxInFlight = 3
  Disturbances = {}
SPECIFICATION Spec
PROPERTY PlansFromLastSwitch
