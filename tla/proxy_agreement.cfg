SPECIFICATION Spec
CONSTANTS
  N = 3
  FaultTolerance = 1
  Leaders = {1}
  ServOrder <- MCOrder
  ChanCap = 1
  NumClients = 2
  Script <- MCTwoCommands
  MaxBreaks = 0
  None = None
INVARIANTS TypeOK ConfirmNeedsQuorum ConfirmedAgree
\* Clients stop sending and connections may break.
CHECK_DEADLOCK FALSE
