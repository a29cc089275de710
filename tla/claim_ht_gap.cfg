CONSTANTS
  Mode = "tcp"
  TcpOpens <- TcpUp
  FirstSequences <- Zero
  SequenceModulus = 8
  TimeModulus = 16
  MaxPayload = 1
  ReadSize = 4
  RetransmitTimeout = 0
  MaxRetransmit = 3
  HeartbeatInterval = 2
  IdleLimit = 3
  Limit <- BothWays
  MaxPackets <- FourEach
  MaxStored = 2
  TcpRoom = 2
  Merging = FALSE
SPECIFICATION Spec
INVARIANT NextCanArrive
\* a closed connection stays closed
CHECK_DEADLOCK FALSE
