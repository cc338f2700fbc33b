SPECIFICATION Spec
CONSTANTS
  Node <- MCNode
  Worker = {1, 2}
  Host <- MCHost
  Eligible <- MCNode
  Receives <- MCNode
  Priority <- MCPriority
  LeaseTtl <- MCTtl
  StrictAll = FALSE
  FreeChoice = FALSE
  InitUp = {}
  MayCrash = FALSE
  Reaches <- MCReaches
  NoNode = 0
  MaxTerm = 2
  MaxFaults = 0
CHECK_DEADLOCK FALSE
PROPERTIES
  HealthyLeaderKept
