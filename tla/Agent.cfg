SPECIFICATION FairSpec
CONSTANTS
  d1 = d1
  d2 = d2
  Devices = {d1, d2}
  None = None
  Bad = Bad
  MaxDrops = 2
  MaxRestarts = 1
  MaxResets = 1
  Dests = {1}
  OwnerOf <- OfFirst
  Loops = {1}
  Unset = Unset
  Keys = {1, 2}
  MaxChanges = 1
CHECK_DEADLOCK FALSE
INVARIANTS SpentTokenAccounted OneLoop LedTellsTruth ActiveIsNewest StoredFollows
PROPERTIES TokenOfferedOnce RestartKeepsDestinations PortalSetArrives
