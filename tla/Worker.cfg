SPECIFICATION Spec
CONSTANTS
    t1 = t1
    t2 = t2
    t3 = t3
    tart = tart
    vetu = vetu
    parallels = parallels
    i1 = i1
    i2 = i2
    i3 = i3
    None = None
    Task <- MCThreeTasks
    Upstreams = 1
    Isolation <- MCThreeIsolations
    Vetu <- MCVetu
    Allowed <- MCIsolations
    Resource <- MCResources
    Total <- MCTotal
    MaxAmount = 2
    TaskIsolation <- MCThreeTaskIsolation
    ResourcesToUse <- MCThreeResourcesToUse
    StandbyParams <- MCThreeStandby
    Modifiers = 1
    Match <- MCOneModifier
    Instance <- MCInstances
INVARIANTS
    TypeOK
    NoStaleInstance
    NoLeakedInstance
    RightIsolation
    RunnersTracked
    CapacityRespected
    ModifiersExclusive
SYMMETRY MCSymmetry
CHECK_DEADLOCK FALSE
