CONSTANTS
  Protocols <- MCProtocols
  Framed = {"H"}
  DispatchLen = 5
  MaxText = 1
  Capacity = 6
  MaxItems = 4
  MaxConnections = 2
  None = None
SPECIFICATION FairSpec
INVARIANTS
  TypeOK
  BytesInOrder
  SentencesAreFound
  FramesReachDecoder
PROPERTY ReadBufferDrains
CHECK_DEADLOCK FALSE
