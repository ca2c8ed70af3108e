SPECIFICATION Spec
CONSTANTS
  MaxRetries = 1
  MaxCook = 5
  Requests <- CookRequests
  RecipeSteps <- NoSteps
  AfterStartup = "Smoke"
  PrimeOnStartup = TRUE
  PrimeIgnition = FALSE
  AllowManualChanges = FALSE
  AutoPowerOff = TRUE
  Standalone = TRUE
  BootToMonitor = FALSE
  RealHardware = TRUE
  PlatformBroken = FALSE
  Notifications = {"shutdown", "keep_warm", "reignite"}
  MaxQueue = 2
  Budget <- RequestsAndFailure
INVARIANTS
  TypeOK
  RecordNamesCycle
  HoldHasSetpoint
PROPERTIES
  StopNotLost
  CookIdentityKept
  HaltsCold
