CONSTANTS
  Threads = {t1, t2, t3}
  small = small
  large = large
  Payloads = {small, large}
  TokenCeiling <- Ceilings
  Reports = {1, 2, 3, 4}
  Untrusted = Untrusted
  NoCall = NoCall
  MaxCalls = 4
  MaxTokens = 8
SPECIFICATION BudgetSpec
INVARIANTS
  BudgetTypeOK
  AuthorisationHolds
  DurableCoversTheWire
  CheckpointsAcceptable
PROPERTIES
  DurableNeverRegresses
SYMMETRY ThreadSymmetry
CHECK_DEADLOCK FALSE
