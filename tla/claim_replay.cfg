CONSTANTS
  Plan <- FourTasks
  Owned <- MCOwned
  RootPaths = {}
  MaxConcurrency = 1
  SameWorktree = FALSE
  Segment <- MCSegment
  MaxRoots = 3
  OldRoots = 0
  OtherLeases = 0
  MaxStuck = 0
  DebugEnabled = FALSE
SPECIFICATION IsoSpec
INVARIANTS
  ResultsReplayed
