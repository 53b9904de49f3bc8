SPECIFICATION LiveSpec
CONSTANTS
  Systems = {"a", "b", "c", "d"}
  NoName = "-"
  Gap = ".."
  Routes <- MCTwoRoutes
  Stray = "d"
  Listed = 3
  Late = {"FSDJump", "NavRouteClear"}
  Rows = 2
  MaxEvents = 3
  MaxWire = 2
PROPERTIES
  ShowsHistory
  Recovers
  ClearStays
  ChangesAreShown
