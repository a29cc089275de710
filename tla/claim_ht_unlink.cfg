CONSTANTS
  Mode = "udp"
  TcpOpens <- Anyhow
  FirstSequences <- Zero
  SequenceModulus = 8
  TimeModulus = 16
  MaxPayload = 1
  ReadSize = 4
  RetransmitTimeout = 0
  MaxRetransmit = 1
  HeartbeatInterval = 2
  IdleLimit = 3
  Limit <- OneWay
  MaxPackets <- FourEach
  MaxStored = 2
  TcpRoom = 2
  Merging = TRUE
SPECIFICATION Spec
PROPERTY OnlyExhaustedAreDropped
\* a closed connection stays closed
CHECK_DEADLOCK FALSE
