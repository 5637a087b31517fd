SPECIFICATION Spec
CONSTANTS
  c1 = c1
  c2 = c2
  c3 = c3
  Calls = {c1, c2, c3}
  None = None
  Line <- MCLine
  Unix <- MCUnix
  Relative = Relative
  DevNull = DevNull
  Dir = Dir
  Unlimited = Unlimited
  Messages <- HeadedMessages
  Workspaces <- MCWorkspaces
  Modes = {"execute"}
INVARIANTS
  AcceptedPatchLands
CHECK_DEADLOCK FALSE
