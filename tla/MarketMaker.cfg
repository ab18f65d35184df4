CONSTANTS
    MaxOrders = 4
    QuoteSize = 2
    SeedPosition = 0
    MaxFaults = 1
    None = None
    Mids = {2, 4}
    half_spread = 1
    requote_threshold = 1
    max_position = 1
SPECIFICATION Spec
INVARIANTS FinishedIsFinished AgreeWhenQuiet OneQuotePerSide InventoryBounded
PROPERTY RequestsAnswered
CHECK_DEADLOCK FALSE
