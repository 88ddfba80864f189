CONSTANTS
  Plan <- SharedPlan
  Owned <- MCOwned
  RootPaths <- MCRootPaths
  MaxConcurrency = 3
  SameWorktree = TRUE
SPECIFICATION LiveSpec
INVARIANTS
  TypeOK
  ConflictFree
  RootsTriedFirst
  EveryFailureRecovered
  IInv
PROPERTIES
  Settles
  ImplementsTaskPool
