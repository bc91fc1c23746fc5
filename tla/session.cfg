SPECIFICATION FairSpec
CONSTANTS
  c1 = c1
  c2 = c2
  Servers = {1, 2}
  Clients = {c1, c2}
  Home <- MCHome
  InitialLeader = 2
  MaxBreaks = 1
  NumIntervals = 2
  MaxRequests <- MCRequests
  Capacity = 1
INVARIANTS ClientsNumbered NoLateConnection
PROPERTIES EveryoneStarts ClientFinishes
\* The run is over when all clients have ended.
CHECK_DEADLOCK FALSE
