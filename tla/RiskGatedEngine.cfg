SPECIFICATION RiskSpec
CONSTANTS
    Slots = {s1, s2, s3}
    Prices = {1, 2}
    Free = Free
    Accounts = {a1, a2}
    ClientIds = {c1, c2}
    Instruments = {i1}
    Universe = {i1}
    Quantities = {1, 2, 3}
    Invalid = {}
    MaxOrders = 3
    FreshReplaceIds = TRUE
    None = None
    SeedCash = {2, 4}
    SeedPosition = {0, 2}
    MaxOrderQuantity = 2
    QuantityModulus = 16
SYMMETRY Symmetry
VIEW Memory
INVARIANTS
    LedgerMirrorsBook
    Solvency
PROPERTIES
    Conservation
