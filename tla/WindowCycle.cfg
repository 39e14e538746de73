\* Up to four windows on two displays.
CONSTANTS
  a = a
  b = b
  w1 = w1
  w2 = w2
  w3 = w3
  w4 = w4
  NoWindow = NoWindow
  NoCycle = NoCycle
  Displays <- MCDisplays
  Windows <- MCWindows
  Timeout = 1
SPECIFICATION Spec
SYMMETRY MCSymmetry
INVARIANTS TypeOK AimIsHere EveryPressMoves
PROPERTIES EveryWindowHasItsTurn TurningBackReturns
