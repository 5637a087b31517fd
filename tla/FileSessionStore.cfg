SPECIFICATION FairSpec
CONSTANTS
  NumProcesses = 2
  MaxRevision = 4
  MaxCrashes = 1
INVARIANTS
  SingleWriter
  WritesUnderLease
  LeaseAccounted
PROPERTIES
  LogSpec
  StaleLeaseYields
CHECK_DEADLOCK FALSE
