CONSTANTS
  n1 = n1
  n2 = n2
  n3 = n3
  n4 = n4
  c1 = c1
  c2 = c2
  Nil = Nil
  Node <- MCNode
  Rejected <- MCRejected
  Mode = {"proxy"}
  Lists <- MCShortLists
  Caller <- MCCaller
  CoreCap = 3
  MaxGen = 1
SPECIFICATION FairSpec
PROPERTIES
  CallsReturn
  LoopsEnd
