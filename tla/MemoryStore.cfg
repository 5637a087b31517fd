SPECIFICATION FairSpec
CONSTANTS
  p1 = p1
  p2 = p2
  a1 = a1
  a2 = a2
  b1 = b1
  topic = topic
  f = f
  g = g
  Index = Index
  Absent = Absent
  NoRequest = NoRequest
  Free = Free
  Refs = {Index, topic}
  Facts = {f, g}
  maxDocumentBytes = 2
  maxDocumentsPerScope = 2
  maxScopeBytes = 3
  Procs = {p1, p2}
  Agents = {a1, a2, b1}
  process <- TwoProcesses
  access <- TwoAccess
  Mutations <- MCMutations
  InitialDocuments <- OneIndex
  Crashable = {p1}
  MaxRequests = 1
INVARIANTS
  LockAccounted
PROPERTIES
  CompareAndSet
  MutationsAnswered
CHECK_DEADLOCK FALSE
