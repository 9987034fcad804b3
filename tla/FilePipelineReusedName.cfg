SPECIFICATION PipeSpec
CONSTANTS
  Files = {f1, f2}
  Paths = {f1}
  PathOf <- SharedPath
  NDests = 1
  Workers = 1
  MaxAttempts = 1
  MaxCancels = 0
  MaxCrashes = 0
  Ignored = {}
  RetainFrom = 1
  NoFile = NoFile
  Torn = Torn
CHECK_DEADLOCK FALSE
PROPERTIES RetentionIsSafe
