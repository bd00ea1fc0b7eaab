SPECIFICATION MCSpec
CONSTANTS
  Parts = {"slash", "votes", "prices"}
  v1 = v1
  v2 = v2
  v3 = v3
  v4 = v4
  coen = coen
  other = other
  Validators <- Four
  Founders <- Four
  Actors = {v4}
  MinStake = 2
  MaxStake = 2
  UnjailCooldown = 0
  ReregistrationCooldown = 0
  RecoveryWindow = 2
  EpochLength = 2
  PrepareWindow = 1
  MaxRemovals = 1
  MaxHeight = 9
  K = 2
  VoterThreshold = 3
  ProposerThreshold = 2
  SlashPercent = 50
  Evidence <- OneEvidence
  MaxSkips = 1
  Pairs <- TwoPairs
  Scale <- Scales
  Unit = 12
  Word = 40
  RewardBand = 1
  Rank <- Ranks
  Iso = {coen}
  ZeroWeight <- Weights
  DayTicks = 3
  SuffixStart = 1
  PrefixEnd = 2
  Retention = 10
  MaxBackfill = 2
  Coefficients <- Decline
  CurveUnit = 6
  MaxClock = 20
  Feeders = {v4}
  Reports <- VoteReports
  VotePeriod = 2
  SlashWindow = 4
  MinValid = 6
  WindowPercent = 50
  Protected = {}
  MaxWindowValidators = 4
  MaxVoteHeight = 4
  Jumps = {1, 3, 7}
  MaxBlocks = 4
INVARIANTS
  LivenessFelonyHitsActive
  ThresholdEnforced
  AveragesExact
  HookCannotFail
PROPERTIES
  AgreeingMajoritySucceeds
CHECK_DEADLOCK FALSE
