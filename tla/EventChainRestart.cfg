SPECIFICATION FairSpec
CONSTANTS
  h1 = h1
  h2 = h2
  e1 = e1
  e2 = e2
  Handler <- MCOneHandler
  Event <- MCEvent
  Started <- MCStarted
  Sent <- MCSent
  NoEvent = NoEvent
  Ecet = Ecet
  Nobody = Nobody
  EventListSize = 2
  ExternalEventListSize = 2
  MaxFanout = 1
  SemBound = 1
  AfterKill = TRUE
PROPERTY StartedResourceExecutes
