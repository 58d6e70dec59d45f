SPECIFICATION FairSpec
CONSTANTS
  p1 = p1
  p2 = p2
  s1 = s1
  s2 = s2
  r1 = r1
  r2 = r2
  g1 = g1
  g2 = g2
  Block <- MCBlock
  Resource <- MCResource
  Group <- MCGroup
  Applications <- MCApplications
  Managed <- MCManaged
  QueueSize = 1
  ExternalLimit = 2
  MaxPublished = 2
  Nobody = Nobody
  Nothing = Nothing
  Gone = Gone
INVARIANTS TypeOK OnePublication LatestSeen AllServed
PROPERTIES SendEnds
CHECK_DEADLOCK FALSE
