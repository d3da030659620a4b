SPECIFICATION Spec
CONSTANTS
  LowPercent = 6
  RecoveryPercent = 10
  CriticalPercent = 3
  CriticalShutdown = TRUE
  CheckInterval = 30
  RefreshFallback = 7
  RefreshMin = 2
  RefreshMax = 10
  FailureThreshold = 3
  FullRefreshEvery = 3
  MaxFailures = 8
  MaxRendered = 9
  Samples <- MCSamples
  Rates <- MCRates
INVARIANTS
  HysteresisLatches
  ShutdownJustified
  BackoffDoubles
  CadenceKept
  RateRespected
