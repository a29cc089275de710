SPECIFICATION Spec
CONSTANTS
  MaxClients = 1
  MaxFd = 3
  MaxBacklog = 1
  PeerEvents = {"data", "eof", "reset"}
  EnableFast = TRUE
  KeepTargetAlive = TRUE
  TransportMode = "tcp"
  MaxAttempts = 2
  ReconnectDelay = 1000
  ConnTimeout = 1
  Grace = 0
PROPERTY StandbyMayTalk
