CONSTANTS
  n1 = n1
  n2 = n2
  n3 = n3
  NoSession = NoSession
  NoNode = NoNode
  NoMode = NoMode
  Node <- MCNode
  Rejected <- MCRejected
  Mode = {"proxy", "vpn"}
  Lists <- MCLists
  CoreCap = 3
  Scope <- MCScope
  Selection <- MCSelection
  Call <- MCCall
  Elevated = TRUE
  MaxEpoch = 2
SPECIFICATION SharedFairSpec
CHECK_DEADLOCK FALSE
PROPERTIES
  DeathNoticed

