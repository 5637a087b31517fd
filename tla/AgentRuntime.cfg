SPECIFICATION Spec
CONSTANTS
  MaxExecutions = 5
  MaxRoots = 1
  MaxCalls = 2
  maxConcurrentPerParent = 2
  maxConcurrentPerTree = 3
  maxConcurrentDelegatedExecutions = 2
  maxDepth = 2
  maxChildrenPerExecution = 2
  maxExecutionsPerTree = 4
  maxHandoffsPerBranch = 1
  HandoffDepths = {0}
  ProgrammaticDelegation = TRUE
INVARIANTS
  PermitAccounting
  PermitBound
  QueueServed
  PermitsWhereWork
CHECK_DEADLOCK FALSE
