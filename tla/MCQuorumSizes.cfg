CONSTANTS
  Nums <- MCNums
  Faults <- MCFaults
  Sleepers <- MCSleepers
SPECIFICATION SizesSpec
INVARIANT RecoveriesAskQuorum
CHECK_DEADLOCK FALSE
