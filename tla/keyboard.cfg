SPECIFICATION LiveSpec
CONSTANTS
  NButtons = 2
  Backed <- MCOne
  TouchStable = 2
  ReleaseStable = 2
  CountMax = 2
  PressTime = 1
  BootHold = 1
  StartupMax = 1
  ConnectedHold = 1
  IterMax = 1
INVARIANTS
  TypeOK
  KeyTracked
  ScreenConsistent
PROPERTIES
  NoAutoRepeat
  TypesOnce
  KeyIsReleased
  GetsReady
  CatchesUp
CHECK_DEADLOCK FALSE
