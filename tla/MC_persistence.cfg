SPECIFICATION WorkerSpec
CONSTANTS
    Lineages = 0
    Rolls = 0
    SegmentCapacity = 1
    WorkCapacity = 4
    ActivationReserve = 1
    BoundaryReserve = 1
    EvidenceCapacity = 1
    TrajectoryCapacity = 1
    MaxRevision = 3
    MaxCalls = 4
INVARIANTS ReceiptsTruthful TwoPhase EvidenceAccounted FenceHolds
PROPERTIES AnsweredAll
CHECK_DEADLOCK FALSE
