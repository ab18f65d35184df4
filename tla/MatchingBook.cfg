SPECIFICATION Spec
CONSTANTS
  Prices = {1, 6, 7, 10}
  Quantities = {1, 2}
  MaxSlots = 3
  WordBits = 2
  band_ticks = 8
  Free = Free
  None = None
  Raw = Raw
INVARIANTS WalksInPriority
PROPERTIES ImplementsBook
