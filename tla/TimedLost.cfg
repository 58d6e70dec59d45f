SPECIFICATION Spec
CONSTANTS
  f1 = f1
  f2 = f2
  FB <- MCBlocks
  Applications <- MCRestarted
  Stoppable = {}
  GoOnAfter <- MCRestartable
  Managed = {}
  Interval <- MCInterval
  ZeroInterval = 1
  WordSize = 3
  Null = Null
  InputLimit = 2
  ExternalLimit = 2
  ListLimit = 4
PROPERTIES RegistrationKept
