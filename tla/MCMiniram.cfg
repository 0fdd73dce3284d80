SPECIFICATION Spec
CONSTANTS
    MantissaBits = 1
    Capacity = 7
    NumLeafBins = 8
    AllocCapacity = 3
    MaxNodes = 7
    Requests = {0, 1, 2, 5}
    None = None
VIEW View
INVARIANTS
    NoCriticalFails
    WellFormed
    LiveIntact
    AllocatableExact
PROPERTY ImplementsBlockAllocator
CHECK_DEADLOCK FALSE
