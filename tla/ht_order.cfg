CONSTANTS
  Mode = "hybrid"
  TcpOpens <- Anyhow
  FirstSequences <- Zero
  SequenceModulus = 8
  TimeModulus = 8
  MaxPayload = 2
  ReadSize = 1
  RetransmitTimeout = 0
  MaxRetransmit = 1
  HeartbeatInterval = 0
  IdleLimit = 1
  Limit <- OneWay
  MaxPackets <- ThreeTwo
  MaxStored = 2
  TcpRoom = 2
  Merging = TRUE
SPECIFICATION Spec
INVARIANTS TypeOK DeliveredInOrder AckMeansStored OlderFirst
PROPERTY ImplementsStream
CHECK_DEADLOCK FALSE
