SPECIFICATION Spec
CONSTANTS
  Root = Root
  Child = Child
  NoRequest = NoRequest
  MAX_QUEUE_SIZE = 1
  MaxUses = 2
  Messages <- MCMessages
  maxSteps <- MCSteps
  ThrowingHooks = {Child}
INVARIANTS
  SessionHoldsRootOnly
CHECK_DEADLOCK FALSE
