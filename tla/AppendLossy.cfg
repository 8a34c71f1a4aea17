SPECIFICATION FairSpec
CONSTANTS
  a1 = a1
  a2 = a2
  d1 = d1
  d2 = d2
  d3 = d3
  Data = {d1, d2, d3}
  DataOf <- MCDataOf
  Nonce = {a1}
  MAX_RETRIES = 1
  Lossy = TRUE
INVARIANTS
  TypeOK
  OneOutcome
  ProcessedOnce
  AckTruthful
PROPERTIES
  AppendEnds
