CONSTANTS
  N = 3
  QuorumSize = 2
  Requests = {a}
  MaxBatch = 1
  MaxSeq = 0
  MaxView = 2
  ViewChangeMode = TRUE
  PersistLevel = "PersistCritical"
SPECIFICATION MCFairSpec
PROPERTIES ViewChangesEnd ViewsAdvance
CHECK_DEADLOCK FALSE
