SPECIFICATION Spec
CONSTANTS
  p1 = p1
  p2 = p2
  p3 = p3
  Procs <- MCProcs
  N = 4
  LockFile <- MCLockFile
  Requests <- MCRequests
SYMMETRY Symmetry
CHECK_DEADLOCK FALSE
INVARIANTS
  TypeOK
  InsideExclusion
  RecordsTruthful
  RefusedHoldsNothing
  
