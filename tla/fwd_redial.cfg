SPECIFICATION FairSpec
CONSTANTS
  MaxClients = 2
  MaxFd = 3
  MaxBacklog = 1
  PeerEvents = {"data", "eof", "reset"}
  EnableFast = TRUE
  KeepTargetAlive = FALSE
  TransportMode = "hybrid"
  MaxAttempts = 1
  ReconnectDelay = 1000
  ConnTimeout = 2
  Grace = 0
INVARIANT ServedOnce
PROPERTIES EofNoticed TimeoutUnderTraffic ShutdownOnEvent ImplementsSessions
