SPECIFICATION LeaseSpec
CONSTANTS
  a1 = a1
  a2 = a2
  b1 = b1
  c1 = c1
  a = a
  b = b
  c = c
  Nobody = Nobody
  NoFile = NoFile
  Threads <- MCThreads
  Processes <- MCProcesses
  ProcessOf <- MCProcessOf
  Platforms = {"windows", "posix"}
  MaxCrashes = 2
INVARIANTS OneOperationOnWindows OneOperationUnlessRaced ProcessLockReturned
SYMMETRY MCSymmetry
CHECK_DEADLOCK FALSE
