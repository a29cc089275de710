CONSTANTS
  Pairs = 1
  Limit <- LimitOne
  BufferSize = 2
  KernelBuf = 1
  ConnTimeout = 1
  Resets = FALSE
SPECIFICATION LoopSpec
PROPERTY SendEnds
CHECK_DEADLOCK FALSE
