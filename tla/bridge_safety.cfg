CONSTANTS
  n1 = n1
  n2 = n2
  n3 = n3
  NoSession = NoSession
  NoNode = NoNode
  NoMode = NoMode
  Node <- MCNode
  Rejected <- MCRejected
  Mode = {"proxy", "vpn"}
  Lists <- MCLists
  CoreCap = 3
  Scope <- MCScope
  Selection <- MCSelection
  Call <- MCCall
  Elevated = TRUE
  MaxEpoch = 3
SPECIFICATION FairSpec
CHECK_DEADLOCK FALSE
INVARIANTS
  TypeOK
  ProtectedIsHonest
  NoOrphan
  NoStartOnTop
  NoStopRacesSession
  OneOperation
PROPERTIES
  DisconnectWins
  ModeIsSessions
  BusyEnds
  EngineFollowsUI
  DisposeIsFinal
