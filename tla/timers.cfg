SPECIFICATION LoopSpec
CONSTANTS
  Capacity = 8
  MaxSegment = 3
  ControlMax = 1
  Empty = "empty"
  Payload <- MCPayload
  PayloadLen <- MCPayloadLen
  Frames <- MCTimeFrames
  ResponseLen = 3
  MaxItems = 2
  OfflineDelay = 1
  RetryStep = 2
  RetryMax = 6
  ConnectTimeout = 4
  IdleTimeout = 7
  PingInterval = 4
  IterMax = 2
  NInitial = 2
  PeriodicInterval = 3
INVARIANTS
  TypeOK
  PcbMatchesState
  OpenMeansRequested
  KeepsAsking
PROPERTIES
  KeepsTime
  NeverGivesUp
  AttemptsResolve
  ComesUp
