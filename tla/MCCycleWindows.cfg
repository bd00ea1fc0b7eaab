CONSTANTS
  v1 = v1
  v2 = v2
  v3 = v3
  v4 = v4
  Validators <- Four
  Committees <- OneCommittee
  K = 2
  WMax = 1
  Retain = 3
  Fees = {5}
  DayLength = 2
  MaxHeight = 5
  MaxClock = 4
  Period = 1
  Pool = 9
  Unit = 2
  MaxBatch = 1
SYMMETRY FourSymmetry
SPECIFICATION Spec
INVARIANTS Solvent OpenWindowsAreLastK AttendanceExact
PROPERTIES TimelyVotersShareEqually
