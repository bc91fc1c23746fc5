SPECIFICATION FairSpec
CONSTANTS
  Step = 2
  Drift = 1
  MasterFreq = 1
  ServerFreq = 1
  Capacity = 1
  MaxTime = 2
  MaxReading = 8
  MaxTasks = 2
  None = None
INVARIANTS NeverFarAhead AnswersAwaited
PROPERTY LockReleased
CHECK_DEADLOCK FALSE
