CONSTANTS
  N = 3
  QuorumSize = 2
  RecQuorum = 2
  Requests = {a}
  MaxBatch = 1
  MaxSeq = 3
  MaxView = 2
  ViewChangeMode = TRUE
  PersistLevel = "NoPersist"
  Sleepers = {2}
  SleepSeq = 0
  RecMode = "RecKoala2"
SPECIFICATION MCSpec
INVARIANTS SleepTypeOK RecoversInNewView RecoversItsLock RecoversItsVotes
PROPERTY SilentUntilRecovered
ACTION_CONSTRAINT Scheduling
CONSTRAINT NotRecovered
CHECK_DEADLOCK FALSE
