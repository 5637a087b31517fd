SPECIFICATION Spec
CONSTANTS
  NumProcesses = 1
  MaxRevision = 4
  MaxCrashes = 0
INVARIANT ClearKeepsSession
CHECK_DEADLOCK FALSE
