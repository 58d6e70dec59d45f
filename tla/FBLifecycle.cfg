SPECIFICATION FairSpec
CONSTANTS
  start = start
  outer = outer
  inner = inner
  internal = internal
  Path <- MCPath
  Creations <- MCCreations
  Commands <- MCCommands
  Start <- MCStart
  Internal = internal
  ExternalLimit = 2
  PostLimit = 2
  Gone = Gone
INVARIANTS TypeOK NamesUnique Agreement PostsAreAwaited
PROPERTIES WarmFollowsStop StopEnds
CHECK_DEADLOCK FALSE
