SPECIFICATION FairSpec
CONSTANTS
    c1 = c1
    c2 = c2
    c3 = c3
    k1 = k1
    k2 = k2
    Nothing = Nothing
    Client <- MCClients
    Key <- MCKeys
    Folder <- MCFolders
    Chunks = 2
    Instruction <- MCInstructions
    MaxFaults = 2
INVARIANTS
    TypeOK
    MissIsFilled
    SourcesKept
    ReportIsTrue
PROPERTIES
    ImplementsBlobStore
    ReplacesOnlyUnseen
    CacheStepsEnd
CHECK_DEADLOCK FALSE
