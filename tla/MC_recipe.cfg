SPECIFICATION FairSpec
CONSTANTS
  MaxRetries = 2
  MaxCook = 5
  Requests <- RecipeRequests
  RecipeSteps <- ThreeSteps
  AfterStartup = "Smoke"
  PrimeOnStartup = TRUE
  PrimeIgnition = FALSE
  AllowManualChanges = FALSE
  AutoPowerOff = FALSE
  Standalone = TRUE
  BootToMonitor = FALSE
  RealHardware = TRUE
  PlatformBroken = FALSE
  Notifications = {}
  MaxQueue = 2
  Budget <- RequestsGapAndHang
INVARIANTS
  NeverIdlesInCycleMode
PROPERTIES
  StopHonoured
