SPECIFICATION FairSpec
CONSTANTS
  t1 = t1
  mkdir = mkdir
  unlink = unlink
  Threads <- OneThread
  Requests <- TwoRequests
  MaxSequence = 3
  MaxCrashes = 2
INVARIANTS
  TypeOK
  AppliedOnce
  AnswersTrue
PROPERTIES
  RequestsReturn
CHECK_DEADLOCK FALSE
