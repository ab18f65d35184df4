SPECIFICATION Spec
CONSTANTS
    Slots = {s1, s2}
    Prices = {1}
    Free = Free
    Accounts = {a1}
    ClientIds = {c1, c2}
    Instruments = {i1}
    Universe = {i1}
    Quantities = {1}
    Invalid = {}
    MaxOrders = 2
    FreshReplaceIds = FALSE
    None = None
INVARIANTS
    DirectoryCoversBook
