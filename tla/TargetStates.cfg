SPECIFICATION FairSpec
CONSTANTS
  t1 = t1
  t2 = t2
  g1 = g1
  Targets <- MCTargets
  Groups <- MCGroups
  First <- MCFirst
  Second <- MCSecond
  Servers <- TwoServers
  POfflineTimeout = 0
  OfflineTimeout = 1
  MaxPending = 1
  MaxRestarts = 1
INVARIANTS
  TypeOK
  MembersPreserved
  AcceptedStatesSaved
PROPERTIES
  ImplementsMgmtd
  NoSwitchBeforeReport
  PrimaryResyncResolved
  SilentGoesOffline
