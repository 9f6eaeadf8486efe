SPECIFICATION Spec
CONSTANTS
  Capacity = 8
  MaxSequence = 12
INVARIANTS
  AcknowledgesFinished
CHECK_DEADLOCK FALSE
