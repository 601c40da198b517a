CONSTANTS
  N = 4
  QuorumSize = 3
  Requests = {a}
  MaxBatch = 1
  MaxSeq = 6
  MaxView = 1
  ViewChangeMode = TRUE
  PersistLevel = "PersistCritical"
SPECIFICATION MCSpec
INVARIANT Agreement
CONSTRAINT LateTimers
ACTION_CONSTRAINTS MonitorsFirst InOrder
CHECK_DEADLOCK FALSE
