CONSTANTS
  Pairs = 1
  Limit <- LimitOne
  BufferSize = 2
  KernelBuf = 3
  ConnTimeout = 1
  Resets = TRUE
SPECIFICATION FairSpec
INVARIANTS TypeOK Conserved DeliveredInOrder CountersExact
PROPERTIES Arrives TailArrives ImplementsPipe
\* a connection that has ended leaves the loop waiting
CHECK_DEADLOCK FALSE
