SPECIFICATION Spec
CONSTANTS
    Slots = {s1, s2, s3, s4}
    Prices = {1, 2}
    Free = Free
    Accounts = {a1}
    ClientIds = {c1, c2, c3}
    Instruments = {i1}
    Universe = {}
    Quantities = {1, 2}
    Invalid = {0}
    MaxOrders = 4
    FreshReplaceIds = TRUE
    None = None
SYMMETRY Symmetry
VIEW Memory
INVARIANTS
    BookIntegrity
    NoCrossedBook
    DirectorySound
    DirectoryCoversBook
    FillOrKill
PROPERTIES
    PriceTimePriority
    RestingOrdersOnlyShrink
