SPECIFICATION FairSpec
CONSTANTS
    Kinds = {"mpc", "pid"}
    ObservationCapacity = 1
    DispatchCapacity = 1
    OutcomeCapacity = 1
    HoldCapacity = 2
    MaxCores = 2
    MaxWork = 0
PROPERTIES KeepsUpdating
CHECK_DEADLOCK FALSE
