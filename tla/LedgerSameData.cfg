SPECIFICATION FairSpec
CONSTANTS
  A = A
  B = B
  d1 = d1
  d2 = d2
  Node = {A, B}
  Data = {d1, d2}
  NoData = NoData
  MaxSeq = 4
  Faults = {}
  Threshold = 1
  PolicyType = "policy-witness"
  Name <- MCName
  Prefix <- MCPrefix
  Submission <- SameData
PROPERTIES
  RipeIsHarvested
