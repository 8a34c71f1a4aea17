SPECIFICATION Spec
SYMMETRY Symmetry
CONSTANTS
  Peer = {p1, p2}
  Event = {e1, e2}
  numGenesisBlock = 2
  precedingRecordNum = 2
  MaxRecords = 3
  MaxRestarts = 2
CHECK_DEADLOCK FALSE
INVARIANTS
  TypeOK
  CitesHeldHistory
  FrontierComplete
  RefusedForWantOfTails
