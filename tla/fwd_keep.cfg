SPECIFICATION Spec
CONSTANTS
  MaxClients = 2
  MaxFd = 6
  MaxBacklog = 1
  PeerEvents = {"data", "eof"}
  EnableFast = TRUE
  KeepTargetAlive = TRUE
  TransportMode = "tcp"
  MaxAttempts = 1
  ReconnectDelay = 100
  ConnTimeout = 1
  Grace = 0
INVARIANTS TypeOK FdOwnership EntryConsistent ServedOnce FdNumberBound
PROPERTIES NoStaleBit StandbyKept
