CONSTANTS
  Plan <- TwoTasks
  Owned <- MCOwned
  RootPaths = {}
  MaxConcurrency = 4
  SameWorktree = FALSE
  Segment <- MCSegment
  MaxRoots = 4
  OldRoots = 2
  OtherLeases = 1
  MaxStuck = 1
  DebugEnabled = FALSE
SPECIFICATION IsoSpec
INVARIANTS
  IsoTypeOK
  LiveRootsKept
  CompletedReachProject
  LeftBehind
  IsoInv
PROPERTIES
  OnlyVerifiedFlushed
