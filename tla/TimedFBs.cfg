SPECIFICATION FairSpec
CONSTANTS
  f1 = f1
  f2 = f2
  FB <- MCBlocks
  Applications <- MCApplications
  Stoppable <- MCOneBlock
  GoOnAfter <- MCRestartable
  Managed <- MCOneBlock
  Interval <- MCInterval
  ZeroInterval = 1
  WordSize = 3
  Null = Null
  InputLimit = 1
  ExternalLimit = 2
  ListLimit = 2
INVARIANTS TypeOK TimesCompare ListSorted ActiveIsPending RestartedHasTimer CycleRegistered
PROPERTIES NeverEarly DelayEnds
CHECK_DEADLOCK FALSE
