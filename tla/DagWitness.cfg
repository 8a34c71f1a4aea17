SPECIFICATION Spec
CONSTANTS
  MaxName = 5
  Publishers = 2
  Name <- MCName
  Prefix <- MCPrefix
  PolicyType = "policy-witness"
  Histories <- AllHistories
  Threshold = 2
INVARIANTS
  TypeOK
  WaitlistConsistent
  DescendantsSound
  DescendantsComplete
  ArrivalOrderIrrelevant
  InterlockQuorum
  TipsExist
PROPERTIES
  Irrevocable
  ImplementsLog
