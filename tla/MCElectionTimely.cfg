SPECIFICATION TimelySpec
CONSTANTS
  Node <- MCNode
  Worker <- MCWorker
  Host <- MCHost
  Eligible <- MCNode
  Receives <- MCNode
  Priority <- MCPriority
  LeaseTtl <- MCTtl
  StrictAll = FALSE
  FreeChoice = FALSE
  InitUp = {}
  MayCrash = FALSE
  Reaches <- MCReaches
  NoNode = 0
  MaxTerm = 5
  MaxFaults = 1
PROPERTIES
  LeaderReturns
  LeaderSettles
CHECK_DEADLOCK FALSE
