SPECIFICATION StakingSpec
CONSTANTS
  v1 = v1
  v2 = v2
  NoOne = NoOne
  Validators = {v1, v2}
  Actors = {v1, v2}
  Founders = {v1, v2}
  MinStake = 2
  MaxStake = 2
  Wallet = 0
  UnjailCooldown = 0
  ReregistrationCooldown = 1
  RecoveryWindow = 2
  EpochLength = 1
  PrepareWindow = 0
  MaxRemovals = 1
  MaxHeight = 5
  UnbondingPeriod = 1
  SlashedDelay = 2
  SlashPercents = {50, 100}
  OcompDivisor = 2
  MaxStakePercent = 60
  LastCall <- MCLastCall
  MaxCompaction = 1
INVARIANTS
  BooksBalance
  ListsPartitionQueue
PROPERTIES
  EntriesHeldToMaturity
  ImplementsClaims
