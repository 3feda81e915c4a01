CONSTANTS
  n1 = n1
  n2 = n2
  u1 = u1
  u2 = u2
  b1 = b1
  None = None
  Unknown = Unknown
  NoCountry = "XX"
  Country = {"NL", "US", "SC"}
  Wanted = "NL"
  Node = {n1}
  Service = {"youtube"}
  UserTask = {u1, u2}
  Burst = {}
  Width = 1
  Lists = {}
  Accept = {"any"}
  Sources = 3
  Opinions <- MCEveryOpinion
SPECIFICATION Spec
INVARIANTS
  TestingHasTest
  PluralityOfFirst
