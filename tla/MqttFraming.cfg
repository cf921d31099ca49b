SPECIFICATION Spec
CONSTANTS
  Base = 4
  LenBytes = 2
  CheapPrepend = 1
  InitialSize = 4
  ExtraBuf = 5
  Type <- MCType
  Qos <- MCQos
  Raw <- MCRaw
  Sent <- MCSent
INVARIANTS BufferHoldsTail ChunkingIrrelevant PacketsAsSent
CHECK_DEADLOCK FALSE
