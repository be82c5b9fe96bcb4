SPECIFICATION Spec
CONSTANTS
  budgeted = budgeted
  plain = plain
  small = small
  core = core
  Untrusted = Untrusted
  None = None
  NoCall = NoCall
  NotPending = NotPending
  NoFile = NoFile
  Threads <- MCThreads
  Budgeted = {budgeted}
  Payloads = {small}
  TokenCeiling <- MCCeiling
  Reports = {1}
  GateCeiling = 2
  RecoverySuccesses = 1
  MaxCalls = 3
  MaxTokens = 5
  Stages = {core}
  CoreStage = core
  CallLimit <- MCCallLimit
  TokenLimit <- MCTokenLimit
  MaxAttempts = 2
  RateMinimum = 1
  CallBound = 3
INVARIANTS PaidOnce RequestsBounded LedgerCoversRequests
PROPERTIES ImplementsGateClients EveryCallReturns
CHECK_DEADLOCK FALSE
