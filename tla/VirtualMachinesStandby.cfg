SPECIFICATION Spec
CONSTANTS
    i1 = i1
    i2 = i2
    v1 = v1
    v2 = v2
    None = None
    Instance <- MCOneInstance
    VM <- MCMachines
    Standbys = {"tart"}
    Tasks = {"vetu"}
    Volumes = "unnamed"
INVARIANT
    StandbyIsUsed
