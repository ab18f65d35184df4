SPECIFICATION Spec
CONSTANTS
    NumThreads = 3
    GlobalCapacity = 2
    LocalCapacity = 2
    MaxTasks = 3
    None = None
CHECK_DEADLOCK FALSE
INVARIANTS
    NothingLeftBehind
PROPERTIES
    DestructorReturns
    SubmittedIsRun
