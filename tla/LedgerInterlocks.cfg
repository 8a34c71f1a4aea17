SPECIFICATION FairSpec
CONSTANTS
  A = A
  B = B
  d1 = d1
  d2 = d2
  Node = {A, B}
  Data = {d1, d2}
  NoData = NoData
  MaxSeq = 3
  Faults = {}
  Threshold = 2
  PolicyType = "policy-descendants"
  Name <- MCName
  Prefix <- MCPrefix
  Submission <- OneEach
INVARIANTS
  StatusTruthful
PROPERTIES
  EventuallyInterlocked
