SPECIFICATION FairSpec
CONSTANTS
    Lineages = 3
    Rolls = 2
    SegmentCapacity = 2
    WorkCapacity = 4
    ActivationReserve = 1
    BoundaryReserve = 1
    EvidenceCapacity = 1
    TrajectoryCapacity = 1
    MaxRevision = 0
    MaxCalls = 14
    MaxFrames = 4
    MaxBreaks = 1
INVARIANTS StoredContiguous FramesStored
PROPERTIES UntracedRemoved FailureNoticed
CHECK_DEADLOCK FALSE
