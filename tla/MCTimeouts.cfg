CONSTANTS
  N = 3
  QuorumSize = 2
  Requests = {a}
  MaxBatch = 1
  MaxSeq = 0
  MaxView = 2
  ViewChangeMode = TRUE
  PersistLevel = "NoPersist"
SPECIFICATION MCSpec
INVARIANT TimeoutsBackViews
ACTION_CONSTRAINT OwnStepsFirst
CHECK_DEADLOCK FALSE
