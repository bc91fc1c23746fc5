SPECIFICATION Spec
CONSTANTS
  Servers = {1, 2}
  InitialLeaders = {1}
  Delay = 1
  Steps = {1}
  MaxReq = 2
  MaxTime = 1
  MaxResyncs = 0
  None = None
INVARIANTS TypeOK WaitingHasOneHome NotifiersInSync AckDescribesLog AppendedOnce
PROPERTY ImplementsReplicaLogs
\* The bounds end every behaviour.
CHECK_DEADLOCK FALSE
