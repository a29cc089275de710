CONSTANTS
  Mode = "tcp"
  TcpOpens <- Anyhow
  FirstSequences <- Zero
  SequenceModulus = 2
  TimeModulus = 8
  MaxPayload = 1
  ReadSize = 2
  RetransmitTimeout = 0
  MaxRetransmit = 1
  HeartbeatInterval = 0
  IdleLimit = 1
  Limit <- OneByte
  MaxPackets <- TwoEach
  MaxStored = 1
  TcpRoom = 1
  Merging = TRUE
SPECIFICATION TrafficSpec
PROPERTIES NoneWaitsForever PeerLossNoticed
CHECK_DEADLOCK FALSE
