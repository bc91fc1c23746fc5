SPECIFICATION FairSpec
CONSTANTS
  Servers = {1}
  InitialLeaders = {1}
  Delay = 1
  Steps = {1, 2}
  MaxReq = 2
  MaxTime = 2
  MaxResyncs = 1
  None = None
INVARIANT EarlyNotBeforeReleased
PROPERTY LeaderAcknowledges
\* The bounds end every behaviour.
CHECK_DEADLOCK FALSE
