SPECIFICATION FairSpec
CONSTANTS
    i1 = i1
    i2 = i2
    v1 = v1
    v2 = v2
    None = None
    Instance <- MCInstances
    VM <- MCMachines
    Standbys = {"tart", "vetu"}
    Tasks = {"tart"}
    Volumes = "named"
INVARIANTS
    TypeOK
    NoLeftovers
    DeletedAfterRun
PROPERTY
    StoppedIsClosed
