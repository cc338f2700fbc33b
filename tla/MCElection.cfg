SPECIFICATION Spec
CONSTANTS
  Node <- MCNode
  Worker = {1, 2}
  Host <- MCHost
  Eligible <- MCNode
  Receives <- MCNode
  Priority <- MCPriority
  LeaseTtl <- MCTtl
  StrictAll = FALSE
  FreeChoice = TRUE
  InitUp <- MCNode
  MayCrash = TRUE
  Reaches <- MCReaches
  NoNode = 0
  MaxTerm = 2
  MaxFaults = 1
INVARIANTS
  TypeOK
  ApprovalsHold
  NoDoubleVote
  OneLeasePerTerm
CHECK_DEADLOCK FALSE
