SPECIFICATION AttemptSpec
CONSTANTS
  w1 = w1  w2 = w2  k1 = k1  k2 = k2
  Executors <- MCExecutors
  Keys <- MCKeys
  Nobody = Nobody
  NoFold = NoFold
  Settings <- MCFunctional
INVARIANTS PublishedCanResume
