SPECIFICATION Spec
CONSTANTS
  r1 = r1
  r2 = r2
  NoParent = NoParent
  Unknown = Unknown
  Runs = {r1, r2}
  Configs <- AllConfigs
  Cards = {"cuda:0", "cuda:1"}
  DefaultCard = "cuda:0"
  NoRun <- NoParent
  Ghost <- Unknown
  Metrics = {0, 1}
  Floor = 1
  Budget = 0
CHECK_DEADLOCK FALSE
INVARIANTS
  TypeOK
  
  
  FailureRecorded
  LineageGrounded
PROPERTIES
  NoUpdateLost
