SPECIFICATION FairSpec
CONSTANTS
  MaxExecutions = 5
  MaxRoots = 2
  MaxCalls = 1
  maxConcurrentPerParent = 1
  maxConcurrentPerTree = 1
  maxConcurrentDelegatedExecutions = 1
  maxDepth = 2
  maxChildrenPerExecution = 1
  maxExecutionsPerTree = 3
  maxHandoffsPerBranch = 1
  HandoffDepths = {}
  ProgrammaticDelegation = FALSE
PROPERTIES
  DelegationEnds
  CallsReturn
CHECK_DEADLOCK FALSE
