SPECIFICATION Spec
CONSTANTS
  w1 = w1
  w2 = w2
  w3 = w3
  Writers <- Three
  Old = Old
  None = None
CHECK_DEADLOCK FALSE
INVARIANTS
  TypeOK
  NeverTorn
  
  ReturnedSurvives
PROPERTY
  ImplementsDurableFile
