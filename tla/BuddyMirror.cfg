SPECIFICATION Spec
CONSTANTS
  A = A
  B = B
  Group = Group
  w1 = w1
  w2 = w2
  Writes <- TwoWrites
  FaultKinds <- AllFaults
  MaxFaults = 1
INVARIANTS
  TypeOK
  GoodPrimaryHasAckedWrites
  DivergenceRecorded
