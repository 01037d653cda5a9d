SPECIFICATION Spec
CONSTANTS
    c1 = c1
    c2 = c2
    c3 = c3
    k1 = k1
    k2 = k2
    Nothing = Nothing
    Client <- MCThreeClients
    Key <- MCKeys
    Folder <- MCOneFolder
    Chunks = 1
    Instruction <- MCOptimists
    MaxFaults = 0
PROPERTY
    RestoresLatest
CHECK_DEADLOCK FALSE
