SPECIFICATION FairSpec
CONSTANTS
    Modes <- MCModes
    Capacity = 1
    MaxOutput = 2
INVARIANTS
    TypeOK
    NoSendOnClosedChannel
    NothingLost
    LiveInOrder
PROPERTIES
    ImplementsLogSink
    StepReturns
