SPECIFICATION RunsSpec
CONSTANTS
  t1 = t1
  t2 = t2
  core = core
  other = other
  Untrusted = Untrusted
  NotPending = NotPending
  NoFile = NoFile
  Threads <- MCThreads
  Stages <- MCStages
  CoreStage = core
  Ceilings = {2}
  CallLimit <- MCCallLimit
  TokenLimit <- MCTokenLimit
  Reports = {1, 3}
  MaxRuns = 1
  Overrun = 1
INVARIANTS ReservedIsInFlight StageLimitsHold DegradationIsOnRecord
PROPERTY CheckpointsAddUp
CHECK_DEADLOCK FALSE
SYMMETRY MCThreadSymmetry
