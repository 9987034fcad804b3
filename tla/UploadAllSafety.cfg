SPECIFICATION Spec
CONSTANTS
  Files = {f1, f2, f3}
  Paths = {f1, shared}
  PathOf <- SomeShared
  NDests = 2
  Workers = 2
  MaxAttempts = 2
  MaxCancels = 1
  MaxCrashes = 1
  NoFile = NoFile
  Torn = Torn
CHECK_DEADLOCK FALSE
SYMMETRY Symm
INVARIANTS UploadedHasCopy PendingIsStaged NoUploadingAtRest DeadDestBound ReportedTookBackup
PROPERTIES ChargedOnlyWhenAllDead LifecycleSpec
