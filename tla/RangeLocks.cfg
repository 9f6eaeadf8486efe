SPECIFICATION Spec
CONSTANTS
  p1 = p1
  p2 = p2
  p3 = p3
  Owners <- TwoOwners
  MaxByte = 1
  MaxWaiting = 2
  MaxWorks = 1
INVARIANTS
  TypeOK
  RangesMerged
  NoNeedlessWait
PROPERTIES
  ImplementsByteLocks
CHECK_DEADLOCK FALSE
