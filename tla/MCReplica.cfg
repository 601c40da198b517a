CONSTANTS
  Reqs = {a}
  Sources = {1, 2, 3}
  QuorumSize = 2
  LastView = 0
  Goroutines = {1, 2, 3}
  Signers = {1, 2, 3}
  Quorum = 2
  Proposed <- TwoBlocks
  ViewChanges = 1
  Handlers = {1, 2}
  Peers = {dead, alive}
  Good = {alive}
  Senders = {1, 2}
  InitialTimer = 10
  Width = 9
  MaxFailures = 7
  Requests = {1, 2}
  MaxBatch = 2
  MaxSize = 2
  MaxTogether = 2
  MaxArrivals = 4
  MaxMessages = 3
  MaxHeight = 2
  Transactions = {1, 2, 3}
  TS <- Milliseconds
  Bodies <- TwoBodies
  Savers = {1, 2}
  PrintLimit = 1
  Prints = TRUE
  Stores = TRUE
  Nums <- MCNums
  Faults <- MCFaults
  Sleepers <- MCFaults
SPECIFICATION MCSpec
INVARIANTS RecoversItsLock
INVARIANTS SentTQCsVerify OneTQCPerView EchoesVerify
INVARIANTS CertificatesVerify
PROPERTY ImplementsVoteCounting
INVARIANTS MarkedAfterFiveFailures GoodPeersKept
INVARIANTS ProposedAsArrived LatestMessages
INVARIANTS WrittenOnce SavedUpToGap
INVARIANTS QuorumsMeet QuorumsExist RecoverySeesVotes
INVARIANTS OnePRF VerifiedSharesAreRight ThresholdIsK
ACTION_CONSTRAINT Scheduled
CONSTRAINT Followed
CHECK_DEADLOCK FALSE
