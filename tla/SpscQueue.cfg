SPECIFICATION Spec
CONSTANTS
    Values = {v1, v2}
    Capacity = 2
    IndexModulus = 8
    Raw = Raw
INVARIANTS
    DataRaceFree
    HighWaterMark
PROPERTIES
    ImplementsFifo
