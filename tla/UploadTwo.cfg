SPECIFICATION TwoFairSpec
CONSTANTS
  Files = {f1}
  Paths = {f1}
  PathOf <- OwnPath
  NDests = 1
  Workers = 1
  MaxAttempts = 3
  MaxCancels = 1
  MaxCrashes = 1
  MaxLost = 1
  NoFile = NoFile
  Torn = Torn
CHECK_DEADLOCK FALSE
INVARIANTS NothingLost StuckRowAccounted EarlyGiveUpIsDelivered
PROPERTIES FilesSettle
