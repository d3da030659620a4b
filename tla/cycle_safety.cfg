SPECIFICATION Spec
CONSTANTS
  LowPercent = 20
  RecoveryPercent = 30
  CriticalPercent = 5
  CriticalShutdown = TRUE
  CheckInterval = 10
  RefreshFallback = 10
  RefreshMin = 10
  RefreshMax = 10
  FailureThreshold = 2
  FullRefreshEvery = 2
  Images = {imgA, bad}
  Undecodable = {bad}
  Rates = {0}
  BootIds = {b1, b2, b3}
  MaxFailures = 2
  Samples <- MCSamples
  Faults <- AllFaults
SYMMETRY BootSymmetry
INVARIANTS
  TypeOK
  ScreenHonest
  SuccessShowsImage
  PartialOverImage
  CacheUsable
  SleepMatchesDeadline
  RadioQuiet
  BackoffKept
  EntryHonest
PROPERTIES
  OutageKeepsImage
  WakeBeforeSleep
  CriticalNeverPlans
