CONSTANTS
  n1 = n1
  n2 = n2
  u1 = u1
  u2 = u2
  b1 = b1
  None = None
  Unknown = Unknown
  NoCountry = "XX"
  Country = {"NL", "SC"}
  Wanted = "NL"
  Node = {n1, n2}
  Service = {}
  UserTask = {u1}
  Burst = {b1}
  Width = 2
  Lists <- MCLists
  Accept = {"any", "notElsewhere", "confirmed"}
  Sources = 3
  Opinions <- MCOpinions
SPECIFICATION FairSpec
PROPERTIES
  WinnerNotElsewhere
  BurstEnds
  TestingEnds
