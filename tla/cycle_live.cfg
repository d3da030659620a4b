SPECIFICATION FairSpec
CONSTANTS
  LowPercent = 20
  RecoveryPercent = 30
  CriticalPercent = 5
  CriticalShutdown = TRUE
  CheckInterval = 5
  RefreshFallback = 5
  RefreshMin = 5
  RefreshMax = 5
  FailureThreshold = 1
  FullRefreshEvery = 1
  Images = {imgA}
  Undecodable = {}
  Rates = {0}
  BootIds = {b1, b2, b3}
  MaxFailures = 1
  Samples <- LiveSamples
  Faults <- LiveFaults
PROPERTIES
  CriticalRequestsPoweroff
  CycleEnds
