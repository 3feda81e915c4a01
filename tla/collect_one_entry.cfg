CONSTANTS
  Canonical <- MCCanonical
  Worlds <- MCUnexpectedWorlds
  Answers <- MCAnswers
  Global <- MCGlobal
  Country <- MCCountry
  Encodable <- MCEncodable
  Rtt <- MCRtt
  Timeout = 2
  Concurrency = 2
  PerCountry = 1
  MinNodes = 1
  Now = 3
  FreshMax = 1
  ShortMax = 3
  Window = 5
  Scale = 1000
SPECIFICATION Spec
CHECK_DEADLOCK FALSE
INVARIANT
  OneEntryNeverTheRun
