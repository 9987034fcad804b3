SPECIFICATION FairPipeSpec
CONSTANTS
  Files = {f1, f2, f3}
  Paths = {f1, f2, f3}
  PathOf <- OwnPath
  NDests = 1
  Workers = 1
  MaxAttempts = 2
  MaxCancels = 1
  MaxCrashes = 1
  Ignored = {f3}
  RetainFrom = 1
  NoFile = NoFile
  Torn = Torn
CHECK_DEADLOCK FALSE
INVARIANTS PipeTypeOK
PROPERTIES RetentionIsSafe LifecycleSpec  DriveComesBack CallReturns
