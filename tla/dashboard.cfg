SPECIFICATION LiveSpec
CONSTANTS
  Stripes = 2
  PageCount = 2
  Data = {"none", "full"}
  NoData = "none"
  States = {"OFFLINE", "OPEN"}
  Offline = "OFFLINE"
  NoState = "99"
  Wide <- MCWide
  Phases = {0, 1}
  ScrollTime = 1
  Blank = Blank
  Inputs = {"key","touch"}
  DebounceTime = 1
  BootTasks = 2
  IterMax = 1
INVARIANTS
  WholeFrame
  RightAfterAPause
  FirstFrame
PROPERTIES
  OnePagePerPress
  KeepsScrolling
