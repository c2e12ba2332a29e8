SPECIFICATION FairSpec
CONSTANTS
  p1 = p1
  p2 = p2
  p3 = p3
  Procs <- TwoProcs
  N = 4
  LockFile <- MCLockFile
  Requests <- MCRequests
CHECK_DEADLOCK FALSE
PROPERTIES
  
  ImplementsLeaseSpec
