SPECIFICATION FairSpec
CONSTANTS
  MaxName = 3
  Name <- MCName
  Prefix <- MCPrefix
  PolicyType = "policy-descendants"
  Graphs <- AllGraphs
INVARIANTS
  TypeOK
  WalkSound
  WalkCorrect
PROPERTIES
  WalkTerminates
