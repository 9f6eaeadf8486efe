SPECIFICATION FairSpec
CONSTANTS
  h1 = h1
  h2 = h2
  h3 = h3
  Handles <- TwoHandles
  Clients <- TwoClients
  NoHandle = NoHandle
  Lossy = TRUE
  MaxRequests = 3
INVARIANTS
  TypeOK
  WaitersKnown
  NoNeedlessWait
PROPERTIES
  WriterPreference
  CallsReturn
CHECK_DEADLOCK FALSE
