SPECIFICATION Spec
CONSTANTS
  Systems = {"a", "b", "c", "d"}
  NoName = "-"
  Gap = ".."
  Routes <- MCTwoRoutes
  Stray = "d"
  Listed = 3
  Late = {"NavRoute", "FSDJump", "NavRouteClear"}
  Rows = 3
  MaxEvents = 3
  MaxWire = 2
PROPERTIES
  NoObsoleteCount
