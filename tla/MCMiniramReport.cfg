SPECIFICATION OnceSpec
CONSTANTS
    MantissaBits = 3
    Capacity = 43
    NumLeafBins = 64
    AllocCapacity = 4
    MaxNodes = 6
    Requests = {7, 8, 17}
    Operations = {"clear", "defragment", "resize"}
    NewCapacities = {19, 70}
    MaxMaintenance = 1
    None = None
    NoReport = NoReport
VIEW OnceView
INVARIANTS
    ClassesExact
    StorageRearranged
CHECK_DEADLOCK FALSE
