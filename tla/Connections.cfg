SPECIFICATION Spec
CONSTANTS
  Block <- MCBlock
  EventOutput = {"start"}
  EventInput = {"init", "req"}
  Output = {"real", "any"}
  Input = {"int", "generic", "text"}
  Plug = {"plugA", "plugB"}
  Socket = {"socketC", "socketD"}
  Owner <- MCOwner
  PortType <- MCPortType
  Plans <- MCPlans
  None = None
CHECK_DEADLOCK FALSE
INVARIANTS TypeOK PointersAreGranted GrantedIsConnected ReadsConverted
