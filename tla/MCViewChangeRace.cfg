CONSTANTS
  N = 3
  QuorumSize = 2
  Requests = {a}
  MaxBatch = 1
  MaxSeq = 2
  MaxView = 1
  ViewChangeMode = TRUE
  PersistLevel = "PersistCritical"
SPECIFICATION MCSpec
INVARIANT OnlyLeadersPropose
CHECK_DEADLOCK FALSE
