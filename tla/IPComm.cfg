SPECIFICATION FairSpec
CONSTANTS
  Service <- MCServices
  MaxConnections = 2
  Size = 2
  QueueSize = 2
  ExternalLimit = 1
  MaxUnits = 2
  MaxOpened = 1
  Commands = TRUE
  Inits = TRUE
INVARIANTS TypeOK ReceivedIsHandedOrBuffered ReportedDataHasEvent OneClient
PROPERTIES ClosedByPeerEnds
CHECK_DEADLOCK FALSE
