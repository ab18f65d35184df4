SPECIFICATION Spec
CONSTANTS
    Prices = {1, 2}
    Quantities = {1, 2}
    Capacity = 2
    MaxOrders = 2
    None = None
INVARIANTS
    IndexMatchesBook
    NoCrossedBook
    PublishedIsBest
