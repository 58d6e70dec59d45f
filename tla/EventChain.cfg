SPECIFICATION FairSpec
CONSTANTS
  h1 = h1
  h2 = h2
  e1 = e1
  e2 = e2
  Handler <- MCHandler
  Event <- MCEvent
  Started <- MCStarted
  Sent <- MCSent
  NoEvent = NoEvent
  Ecet = Ecet
  Nobody = Nobody
  EventListSize = 3
  ExternalEventListSize = 2
  MaxFanout = 1
  SemBound = 1
  AfterKill = FALSE
INVARIANTS TypeOK MutualExclusion ExternalListContiguous EventListContiguous
  TransferNeverSpins NoLostWakeup StopWakes
PROPERTIES ImplementsEventQueues ExternalEventsTransferred HeadDelivered StopEndsRunningThread
