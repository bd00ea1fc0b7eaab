SPECIFICATION Spec
CONSTANTS
  v1 = v1
  v2 = v2
  Validators = {v1, v2}
  Founders = {v1}
  MinStake = 2
  MaxStake = 2
  UnjailCooldown = 1
  ReregistrationCooldown = 1
  RecoveryWindow = 2
  EpochLength = 2
  PrepareWindow = 1
  MaxRemovals = 1
  MaxHeight = 4
INVARIANT FrozenTargetActivatable
