SPECIFICATION RuntimeFairSpec
CONSTANTS
  Threads = {t1, t2, t3}
  Worker = worker
  None = none
  MaxCalls = 2
  MaxPanics = 1
  OneCall = {t3}
  EarlyUse = {t1, t2}
  BootMayFail = TRUE
  MayNest = TRUE
INVARIANTS
  SetUpAlone
  LeanOnlyAfterBoot
  CapturesOutliveUse
  ReturnedMeansRanOnce
PROPERTIES
  CallsComeBack
  ImplementsSerialExecutor
CHECK_DEADLOCK FALSE
