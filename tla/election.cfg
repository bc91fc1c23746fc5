SPECIFICATION Spec
CONSTANTS
  InitialLeader = 1
  Priority <- MCPriority
  Breakages <- MCBreakages
  ReadQuorum = 2
  Settling = 4
  Nodes = {1, 2, 3}
  Timely = TRUE
  MaxRound = 7
INVARIANTS NoNeedlessTakeover ElectedAfterBreak
CHECK_DEADLOCK FALSE
