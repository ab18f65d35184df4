SPECIFICATION Spec
CONSTANTS
    Workers = {w1, w2}
    HighTasks = {2}
    MaxTasks = 3
    None = None
INVARIANTS
    NoLostWakeup
    WaitMeansDone
    StopDrains
PROPERTIES
    StopReturns
    WaitReturns
