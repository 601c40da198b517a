CONSTANTS
  N = 3
  QuorumSize = 2
  Requests = {a}
  MaxBatch = 1
  MaxSeq = 3
  MaxView = 1
  ViewChangeMode = TRUE
  PersistLevel = "PersistCritical"
SPECIFICATION MCSpec
INVARIANTS VCTypeOK CertifiedByVoters NewLeaderHasQuorum LockBelowBlock
PROPERTY HeightsGrow
ACTION_CONSTRAINT OwnStepsFirstInOrder
CHECK_DEADLOCK FALSE
