SPECIFICATION Spec
CONSTANTS
  NButtons = 2
  Backed <- MCNone
  TouchStable = 3
  ReleaseStable = 3
  CountMax = 4
  PressTime = 2
  BootHold = 3
  StartupMax = 1
  ConnectedHold = 1
  IterMax = 2
PROPERTIES
  AcceptsStableTouch
CHECK_DEADLOCK FALSE
