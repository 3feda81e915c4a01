CONSTANTS
  Canonical <- MCCanonical
  Worlds <- MCWorlds
  Answers <- MCAnswers
  Global <- MCGlobal
  Country <- MCCountry
  Encodable <- MCEncodable
  Rtt <- MCRtt
  Timeout = 2
  Concurrency = 2
  PerCountry = 1
  MinNodes = 1
  Now = 3
  FreshMax = 1
  ShortMax = 3
  Window = 5
  Scale = 1000
SPECIFICATION FairSpec
CHECK_DEADLOCK FALSE
INVARIANTS
  HarvestIsLocal
  XrayOnlyStaysOut
  ProbeSpeaksOutbound
  ReachableIfAnswered
  SlotsHeld
  AliveInTime
  PublishedPlace
  NoTraceOfFailure
PROPERTY
  RunEnds
