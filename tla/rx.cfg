SPECIFICATION Spec
CONSTANTS
  Capacity = 8
  MaxSegment = 3
  ControlMax = 1
  Empty = "empty"
  Payload <- MCPayload
  PayloadLen <- MCPayloadLen
  Frames <- MCFrames
  ResponseLen = 3
  MaxItems = 4
  OfflineDelay = 1
  RetryStep = 1
  RetryMax = 1
  ConnectTimeout = 0
  IdleTimeout = 0
  PingInterval = 0
  IterMax = 1
  NInitial = 1
  PeriodicInterval = 0
INVARIANTS
  FramesAligned
  Drained
  BuffersHold
  NoNeedlessOverflow
  OutboundWhole
PROPERTIES
  DeliversMessages
