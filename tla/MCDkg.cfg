SPECIFICATION DkgSpec
CONSTANTS
  n1 = n1
  n2 = n2
  v1 = v1
  v2 = v2
  v3 = v3
  Nodes <- MCNodes
  Setups <- MCSetups
  MaxFaults = 1
  MaxGeneration = 3
  Validators <- MCValidators
  Quorum = 2
  EpochLength = 3
  PrepareWindow = 2
  Grace = 1
  MaxHeight = 6
  MaxBreaks = 1
INVARIANTS OneOutput AcknowledgedDealingsDurable MaterialKept HandoffSafe
PROPERTIES DkgCompletes
CHECK_DEADLOCK FALSE
