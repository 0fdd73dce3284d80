SPECIFICATION DefragSpec
CONSTANTS
    MantissaBits = 1
    Capacity = 4
    NumLeafBins = 10
    AllocCapacity = 3
    MaxNodes = 7
    Requests = {1, 2}
    Operations = {"defragment"}
    NewCapacities = {}
    MaxMaintenance = 2
    None = None
    NoReport = NoReport
VIEW FullView
INVARIANT LiveIntact
CHECK_DEADLOCK FALSE
