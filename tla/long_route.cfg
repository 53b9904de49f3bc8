SPECIFICATION Spec
CONSTANTS
  Systems = {"a", "b", "c", "d"}
  NoName = "-"
  Gap = ".."
  Routes <- MCLongRoutes
  Stray = "d"
  Listed = 3
  Late = {}
  Rows = 4
  MaxEvents = 4
  MaxWire = 2
PROPERTIES
  NextIsOnRoute
