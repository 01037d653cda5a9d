SPECIFICATION FairSpec
CONSTANTS
    UserTask <- MCUserTasks
    ServiceTask <- MCServiceTasks
    None = None
INVARIANTS
    TypeOK
    NoDanglingDependency
    NothingLeftBehind
    DependenciesFirst
PROPERTIES
    RunAtMostOnce
    Terminates
