SPECIFICATION Spec
CONSTANTS
  MaxName = 6
  Publishers = 3
  Name <- MCName
  Prefix <- MCPrefix
  PolicyType = "policy-descendants"
  Histories <- ChainHistory
  Threshold = 3
PROPERTIES
  HarvestTakesAllCited
