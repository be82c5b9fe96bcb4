CONSTANTS
  Threads = {t1, t2, t3, t4}
  None = None
  GateCeiling = 4
  RecoverySuccesses = 2
SPECIFICATION ClientSpec
INVARIANTS
  ActiveCountsHolders
PROPERTIES
  ExcessOnlyDrains
  GateNeverStalls
