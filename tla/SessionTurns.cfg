SPECIFICATION Spec
CONSTANTS
  NumSessions = 2
  MaxTurns = 2
  MaxSteps = 1
  NumCalls = 2
  MaxFailures = 1
  MaxCrashes = 1
INVARIANTS
  TranscriptWhole
  DurablePrefix
  RunningIsLive
  LeaseAccounted
  CurrentFresh
  PhasesInOrder
PROPERTIES
  StatusFinal
CHECK_DEADLOCK FALSE
