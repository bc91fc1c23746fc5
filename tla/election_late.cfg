SPECIFICATION Spec
CONSTANTS
  InitialLeader = 1
  Priority <- MCPriority
  Breakages <- MCBreakages
  ReadQuorum = 2
  Settling = 4
  Nodes = {1, 2}
  Timely = FALSE
  MaxRound = 4
INVARIANTS TypeOK FollowsRealBallot HeardOnce
PROPERTY BallotsOnlyGrow
CHECK_DEADLOCK FALSE
