SPECIFICATION Spec
CONSTANTS
  v1 = v1
  v2 = v2
  Validators = {v1, v2}
  Founders = {v1}
  MinStake = 2
  MaxStake = 3
  UnjailCooldown = 1
  ReregistrationCooldown = 1
  RecoveryWindow = 2
  EpochLength = 2
  PrepareWindow = 1
  MaxRemovals = 1
  MaxHeight = 8
INVARIANTS
  RecordsCanonical
  CommitteeHoldsShares
  FrozenTargetConsistent
  PendingCoversWaiters
  UnderfundedOnlyInRecovery
  WindowsResolvedInTime
