SPECIFICATION Spec
CONSTANTS
  N = 3
  FaultTolerance = 1
  Leaders = {1}
  ServOrder <- MCOrder
  ChanCap = 1
  NumClients = 3
  Script <- MCOneCommand
  MaxBreaks = 1
  None = None
INVARIANT ConfirmNeedsQuorum
\* Clients stop sending and connections may break.
CHECK_DEADLOCK FALSE
