SPECIFICATION FairSpec
CONSTANTS
  Nodes = {n1, n2, n3}
  NULL = NULL
  Slots = 2
  MaxExpTm = 3
  MaxTick = 3
  MaxDue = 4
  MaxJump = 3
  MaxCalls = 2
INVARIANTS WheelExact
PROPERTIES ImplementsService HandlerEnds
