SPECIFICATION LibrarySpec
CONSTANTS
    q1 = q1
    q2 = q2
    q3 = q3
    q4 = q4
    Clients = {q1, q2, q3, q4}
    Exclusive = TRUE
    Queues = {q1, q2}
    Presses <- MCPresses
    MaxPresses = 2
    TextColors = {31, 39}
    BGColors = {107}
    Intensities = {1}
    Underlines = {24}
    MaxStates = 2
    MaxDetails = 2
    w1 = w1
    w2 = w2
    s1 = s1
    s2 = s2
    h1 = h1
    h2 = h2
    Waiters = {w1, w2}
    Signalers = {s1, s2}
    Handles = {h1, h2}
    Elements = 4
    Groups <- MCGroups
    MaxSize = 5
    v1 = v1
    v2 = v2
    v3 = v3
    Vectors = {v1, v2, v3}
    Contents = {0, 1}
    MaxBuffers = 4
    NULL = NULL
    MaxObjects = 3
    t1 = t1
    t2 = t2
    t3 = t3
    Calls = {t1, t2, t3}
    LastTime = 1
    ACount = 3
    BCount = 3
    OptionLists <- MCOptionLists
    Maxima <- MCMaxima
    Positions = {0, 10, 30, 60}
    Widths = {5, 8}
    ScaleAt <- MCScaleAt
    f1 = f1
    f2 = f2
    f3 = f3
    p1 = p1
    p2 = p2
    p3 = p3
    Frames = {f1, f2, f3}
    ClassNames = {"a", "b"}
    Pids = {p1, p2, p3}
    Programs = {"sought", "other"}
    FirstSlots = 1
INVARIANTS
    LibraryTypeOK
    NeverLeftOn
    SentIsHeard
    QueuesHearEverything
    ShownInItsState
    FailureReportedOnce
    ForestIsPartition
    BuffersOwned
    ObjectsHandedOutOnce
    TimersServeOneCall
    AssignsAndSpreads
    WindowsPartHolds
PROPERTIES
    MessageRestoresState
    StopReturns
    SignaledWaitersLeave
CHECK_DEADLOCK FALSE
