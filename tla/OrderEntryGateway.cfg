SPECIFICATION Spec
CONSTANTS
    MaxConnections = 2
    Accounts = {A, B}
    Frames <- MCFrames
    A = A
    B = B
    Capacity = 1
    MaxSubmits = 2
    OutboundCapacity = 1
    pending_report_capacity = 1
    None = None
CHECK_DEADLOCK FALSE
INVARIANTS
    OnlyOwnAccount
    ReportsConserved
    GoneIsUnknown
    GaplessOrder
