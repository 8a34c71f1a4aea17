SPECIFICATION Spec
CONSTANTS
  A = A
  B = B
  d1 = d1
  d2 = d2
  Node = {A, B}
  Data = {d1, d2}
  NoData = NoData
  MaxSeq = 3
  Faults = {A}
  Threshold = 2
  PolicyType = "policy-witness"
  Name <- MCName
  Prefix <- MCPrefix
  Submission <- SameData
INVARIANTS
  SuccessMeansRecorded
