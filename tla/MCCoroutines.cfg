SPECIFICATION FairSpec
CONSTANTS
    r1 = r1
    r2 = r2
    c1 = c1
    w1 = w1
    w2 = w2
    x1 = x1
    None = None
    Roots = {r1, r2}
    Clients = {c1}
    Workers = {w1, w2}
    Foreigners = {x1}
    Plans = {"task", "foreign", "bare"}
    MaxOps = 2
    MaxNested = 1
INVARIANTS
    ExecutorCodeOnWorkers
    OneResumption
    FrameLifetimes
    PayloadInjected
    NoExceptionLost
PROPERTIES
    SyncReturns
CHECK_DEADLOCK FALSE
