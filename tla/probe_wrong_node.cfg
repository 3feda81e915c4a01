CONSTANTS
  n1 = n1
  n2 = n2
  NoSession = NoSession
  NoNode = NoNode
  NoMode = NoMode
  Node <- MCNode
  Rejected = {}
  Mode = {"proxy"}
  Lists <- MCLists
  CoreCap = 2
  Scope <- MCScope
  Selection <- MCSelection
  Call = {1}
  Probe = {1, 2}
  Elevated = TRUE
  MaxEpoch = 1
CHECK_DEADLOCK FALSE
SPECIFICATION ProbeSpec
INVARIANT
  NeverWrongNode
