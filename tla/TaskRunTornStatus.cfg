SPECIFICATION Spec
CONSTANTS
    N = 2
    Shapes <- MCScripts
    MaxFailures = 0
    HeartbeatTimeout = FALSE
    HandlersOutliveAgent = TRUE
    DeletionFails = FALSE
INVARIANT
    SuccessIsEarned
