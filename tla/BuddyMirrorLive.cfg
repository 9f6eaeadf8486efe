SPECIFICATION FairSpec
CONSTANTS
  A = A
  B = B
  Group = Group
  w1 = w1
  w2 = w2
  Writes <- OneWrite
  FaultKinds <- AllFaults
  MaxFaults = 1
PROPERTIES
  MirroredAckOnBuddy
  BuddiesConverge
  ResyncEnds
ACTION_CONSTRAINT
  CrashWhenGood
