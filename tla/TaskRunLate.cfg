SPECIFICATION FairSpec
CONSTANTS
    N = 3
    Shapes <- MCTriples
    MaxFailures = 1
    HeartbeatTimeout = FALSE
    HandlersOutliveAgent = TRUE
    DeletionFails = TRUE
INVARIANTS
    RecordedIsTrue
    NoGaps
    NoSuccessAfterFailure
PROPERTY
    Returns
