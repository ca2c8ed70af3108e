SPECIFICATION Spec
CONSTANTS
    PulseTime = 2
    FrameTime = 4
    Requests = {3}
    Gaps = {1, 3, 8}
    Lags = {0, 2}
    Roles = {0, 1}
    MaxTime = 9
INVARIANTS FairMean RunsOnlyInFrame ContinuousIsFresh
PROPERTIES ToldAsObserved
CHECK_DEADLOCK FALSE
