SPECIFICATION FairSpec
CONSTANTS
  Check = {"c1"}
  Reply = {"c1"}
  Sizes = {2, 3, 8}
  maxSegmentSize = 2
  maxPipelineSize = 3
  maxRetries = 1
  MaxRecords = 2
  CHECKER_MAX_RETRIES = 1
  Faulty = TRUE
  Async = TRUE
INVARIANTS
  TypeOK
  CountIsExact
  AllReceivedDelivers
  QuietAfterVerdict
  FailureJustified
  VerdictSound
PROPERTIES
  CheckEnds
