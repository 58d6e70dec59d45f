SPECIFICATION Spec
CONSTANTS
  start = start
  outer = outer
  inner = inner
  internal = internal
  Path <- MCPath
  Creations <- MCCreations
  Commands <- MCCommands
  Start <- MCStart
  Internal = internal
  ExternalLimit = 2
  PostLimit = 2
  Gone = Gone
PROPERTY StopWasSent
CHECK_DEADLOCK FALSE
