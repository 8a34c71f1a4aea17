SPECIFICATION FairSpec
CONSTANTS
  Check = {"c1", "c2"}
  Reply = {"c1", "c2"}
  Sizes = {2}
  maxSegmentSize = 2
  maxPipelineSize = 1
  maxRetries = 0
  MaxRecords = 1
  CHECKER_MAX_RETRIES = 0
  Faulty = FALSE
  Async = FALSE
PROPERTIES
  FetchesOwnReply
