SPECIFICATION Spec
CONSTANTS
  A = A
  B = B
  Group = Group
  w1 = w1
  w2 = w2
  Writes <- OneWrite
  FaultKinds = {"crash"}
  MaxFaults = 2
INVARIANTS
  OfflineNoticed
