CONSTANTS
  ClientLimit = 3
  TargetLimit = 3
  BufferSize = 2
  KernelBuf = 2
  ConnTimeout = 1
SPECIFICATION FairSpec
INVARIANTS TypeOK EndToEndOrder CountersHonest
PROPERTIES EndedClientRemoved DeadTransportRemoved
\* an entry that was cleaned up stays so
CHECK_DEADLOCK FALSE
