SPECIFICATION FairSpec
CONSTANTS
    t1 = t1
    t2 = t2
    t3 = t3
    tart = tart
    vetu = vetu
    parallels = parallels
    i1 = i1
    i2 = i2
    i3 = i3
    None = None
    Task <- MCOneTask
    Upstreams = 2
    Isolation <- MCIsolations
    Vetu <- MCVetu
    Allowed <- MCIsolations
    Resource <- MCResources
    Total <- MCTotal
    MaxAmount = 2
    TaskIsolation <- MCOneTaskIsolation
    ResourcesToUse <- MCOneResourcesToUse
    StandbyParams <- MCTartStandby
    Modifiers = 0
    Match <- MCNoMatch
    Instance <- MCTwoInstances
PROPERTIES
    StoppedTasksLeave
    EveryUpstreamPolled
CHECK_DEADLOCK FALSE
