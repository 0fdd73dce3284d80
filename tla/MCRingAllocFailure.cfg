SPECIFICATION SpecHistory
CONSTANTS
    t1 = t1
    t2 = t2
    t3 = t3
    Threads = {t1, t2}
    Size = 4
    Sizes <- MCSizes
    Word = 64
    MaxPos = 8
CHECK_DEADLOCK FALSE
PROPERTY EmptyOnlyIfNoRoom
