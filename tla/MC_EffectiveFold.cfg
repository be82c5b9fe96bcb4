SPECIFICATION FoldSpec
CONSTANTS
  Decisions = {1, 2, 3, 4, 5}
  Tracks = {"A", "B"}
  TrackOf <- MCTrackOf
  Nobody = Nobody
  DrainPasses = 2
INVARIANTS FoldTypeOK CoverIsFresh SingleFlight NeverMorePassesThanDecisions OvertakenAtMostOnce
PROPERTIES EveryCoverReturns
CHECK_DEADLOCK FALSE
