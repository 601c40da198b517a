CONSTANTS
  N = 3
  QuorumSize = 2
  Requests = {a}
  MaxBatch = 1
  MaxSeq = 6
  MaxView = 0
  ViewChangeMode = FALSE
SPECIFICATION MCSpec
INVARIANT NoHeightSkipped
CHECK_DEADLOCK FALSE
