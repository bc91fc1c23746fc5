SPECIFICATION FairSpec
CONSTANTS
  NumCmds = 3
  Keys = {"k"}
  Values = {"a"}
  None = None
INVARIANTS NoDecidedSkipped DatabaseConverges
PROPERTY DecidedGetsApplied
CHECK_DEADLOCK FALSE
