SPECIFICATION FairSpec
CONSTANTS
  Service <- MCServer
  MaxConnections = 2
  Size = 2
  QueueSize = 2
  ExternalLimit = 2
  MaxUnits = 2
  MaxOpened = 1
  Commands = FALSE
  Inits = FALSE
PROPERTIES ReceivedIsHandled
CHECK_DEADLOCK FALSE
