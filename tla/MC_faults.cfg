SPECIFICATION Spec
CONSTANTS
  MaxRetries = 1
  MaxCook = 5
  Requests <- FaultRequests
  RecipeSteps <- NoSteps
  AfterStartup = "Hold"
  PrimeOnStartup = FALSE
  PrimeIgnition = TRUE
  AllowManualChanges = TRUE
  AutoPowerOff = FALSE
  Standalone = FALSE
  BootToMonitor = FALSE
  RealHardware = TRUE
  PlatformBroken = FALSE
  Notifications = {}
  MaxQueue = 2
  Budget <- RequestsAndFaults
INVARIANTS
  HeatOnlyInCycle
  
  NoIllegalTransition
PROPERTIES
  NoHeatWhilePending
