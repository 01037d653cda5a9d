SPECIFICATION Spec
CONSTANTS
    t1 = t1
    t2 = t2
    t3 = t3
    tart = tart
    vetu = vetu
    parallels = parallels
    i1 = i1
    i2 = i2
    i3 = i3
    None = None
    Task <- MCTasks
    Upstreams = 1
    Isolation <- MCIsolations
    Vetu <- MCVetu
    Allowed <- MCVetu
    Resource <- MCResources
    Total <- MCTotal
    MaxAmount = 2
    TaskIsolation <- MCTaskIsolation
    ResourcesToUse <- MCResourcesToUse
    StandbyParams <- MCStandby
    Modifiers = 1
    Match <- MCOneModifier
    Instance <- MCInstances
INVARIANT CountedTasksRun
CHECK_DEADLOCK FALSE
