SPECIFICATION PartsSpec
CONSTANTS
  PoolSize = 2
  OutRoom = 2
  MaxFrames = 4
  Lengths = {0, 4, 12, 19, 30}
  Fingers <- MCFingers
  Noise = 8
  Texts <- MCTexts
  Responses = {"indicator", "status", "genericui", "journalpush", "travelhistory"}
  Members <- MCMembers
  FirstMessages <- MCFirst
  MaxMembers = 2
  TokenCount = 36
  LooksTrue = {"1", "true", "10"}
  RouteRows <- MCRows
INVARIANTS
  OnlyThePoolStops
  FramesInOrder
  HostAccepts
  DrawsWhole
  FrameShowsPage
  OneSpikeIsHarmless
  MembersFound
  FieldsFollow
PROPERTIES
  FramesArrive
