SPECIFICATION Spec
CONSTANTS
  MaxRetries = 1
  MaxCook = 5
  Requests <- StartupSmoke
  RecipeSteps <- NoSteps
  AfterStartup = "Smoke"
  PrimeOnStartup = FALSE
  PrimeIgnition = FALSE
  AllowManualChanges = FALSE
  AutoPowerOff = FALSE
  Standalone = TRUE
  BootToMonitor = FALSE
  RealHardware = TRUE
  PlatformBroken = FALSE
  Notifications = {}
  MaxQueue = 2
  Budget <- TwoRequests
PROPERTIES
  SafetyTripSurvives
