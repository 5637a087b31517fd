SPECIFICATION Spec
CONSTANTS
  MaxExecutions = 5
  MaxRoots = 2
  MaxCalls = 1
  maxConcurrentPerParent = 1
  maxConcurrentPerTree = 1
  maxConcurrentDelegatedExecutions = 1
  maxDepth = 2
  maxChildrenPerExecution = 2
  maxExecutionsPerTree = 3
  maxHandoffsPerBranch = 1
  HandoffDepths = {0}
  ProgrammaticDelegation = FALSE
INVARIANTS
  NoOrphan
  OneLivePerBranch
  FinishedTreesReleased
PROPERTY PoolSpec
CHECK_DEADLOCK FALSE
