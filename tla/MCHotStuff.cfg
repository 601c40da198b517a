CONSTANTS
  N = 3
  QuorumSize = 2
  Requests = {a}
  MaxBatch = 1
  MaxSeq = 4
  MaxView = 0
  ViewChangeMode = FALSE
SPECIFICATION MCFairSpec
INVARIANTS TypeOK Agreement OneChain CommitBelowLock OneProposalOutstanding
PROPERTIES NothingUndone ImplementsLedger ProposalsGetCertified FollowersCatchUp
CHECK_DEADLOCK FALSE
