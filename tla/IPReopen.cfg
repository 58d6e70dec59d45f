SPECIFICATION FairSpec
CONSTANTS
  Service <- MCServer
  MaxConnections = 2
  Size = 2
  QueueSize = 2
  ExternalLimit = 2
  MaxUnits = 2
  MaxOpened = 2
  Commands = TRUE
  Inits = FALSE
INVARIANTS SafelyOpenedAgain
CHECK_DEADLOCK FALSE
