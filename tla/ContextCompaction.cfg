SPECIFICATION Spec
CONSTANTS
  MaxTurns = 4
  MaxBlocks = 3
  MaxSize = 6
  MaxPolicy = 1
  RecentTurns = 1
  RecentBlocks = 1
  Modes = {"off", "auto", "spare"}
INVARIANTS
  UpdatesAccepted
  InvalidForAReason
  ViewExact
  StoredFrontierUsable
  SessionSummariesClosed
PROPERTY CoverageKept
