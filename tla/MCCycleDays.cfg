SPECIFICATION DaysSpec
CONSTANTS
  Parts = {"cycle", "metadosis"}
  v1 = v1
  v2 = v2
  v3 = v3
  v4 = v4
  Validators <- Two
  Committees <- SmallCommittees
  K = 2
  WMax = 1
  Retain = 4
  Fees = {3}
  DayLength = 2
  MaxHeight = 8
  MaxClock = 6
  Period = 1
  Pool = 6
  Unit = 2
  MaxBatch = 0
  o1 = o1
  o2 = o2
  o3 = o3
  HoursPerDay = 2
  UtcOffset = 1
  FormingPeriod = 1
  LookbackDelay = 1
  OfferingPeriod = 2
  WaitingPeriod = 1
  MaxRetained = 2
  MaxRecordsKept = 2
  AwaitingBlocks = 3
  FinalityDepth = 1
  BackoffBlocks = 1
  JobRank <- Descending
  ResultMembers <- Three
  QuorumSize = 2
  Jumps = {1, 3}
  Windows = {1, 2}
  Emission <- Sixty
  Recycled <- SmallResidue
  Tributes <- FewTributes
  Greens = {{0, 1, 3, 4, 5, 6}}
  Results = {0, 5}
  LastBlock = 10
  LastHour = 11
INVARIANTS GuardsCoverHorizon PreparedDaysFinal QueueSound EmissionConserved AggregateValid EmissionAccounted JobsEndInTime
SYMMETRY Symmetric
