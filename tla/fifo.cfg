SPECIFICATION Spec
CONSTANTS
    Values = {1, 2}
    Capacity = 3
    NoValue = 0
    ReadNMasked = TRUE
INVARIANTS TypeOK StillAvailable
PROPERTY QueueSpec
