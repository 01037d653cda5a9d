SPECIFICATION Spec
CONSTANTS
    N = 2
    Shapes <- MCShapes
    MaxFailures = 2
    HeartbeatTimeout = TRUE
    HandlersOutliveAgent = FALSE
    DeletionFails = TRUE
INVARIANTS
    TypeOK
    SuccessIsEarned
    VerdictStands
PROPERTY
    RunOnce
