SPECIFICATION Spec
CONSTANTS
  BatchSize = 2
  MaxEntries = 3
  MaxBallot = 1
  Width = 4
  MaxCrashes = 1
  None = None
INVARIANTS BackendsAgree RestartRecovers  SnapshotCovers
