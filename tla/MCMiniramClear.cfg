SPECIFICATION DefragSpec
CONSTANTS
    MantissaBits = 1
    Capacity = 4
    NumLeafBins = 10
    AllocCapacity = 3
    MaxNodes = 7
    Requests = {1, 2}
    Operations = {"clear"}
    NewCapacities = {}
    MaxMaintenance = 1
    None = None
    NoReport = NoReport
VIEW FullView
INVARIANT LiveIntact
CHECK_DEADLOCK FALSE
