SPECIFICATION Spec
CONSTANTS
  h1 = h1
  h2 = h2
  h3 = h3
  Handles <- MCHandles
  Clients <- MCClients
  NoHandle = NoHandle
  Lossy = FALSE
  MaxRequests = 3
INVARIANTS
  HeldIsHeld
CHECK_DEADLOCK FALSE
