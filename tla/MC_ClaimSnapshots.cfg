SPECIFICATION SnapshotSpec
CONSTANTS
  p1 = p1  p2 = p2
  Processes <- MCProcesses
  Nobody = Nobody
  None = None
  MaxAttempts = 2
  MaxReads = 1
  Bounds <- MCBounds
SYMMETRY MCSymmetry
INVARIANTS SnapshotIsWhole DecisionsAreInformed
PROPERTIES ReadsAreSettled FoldCoversItsPast
