SPECIFICATION SpecHistory
CONSTANTS
    t1 = t1
    t2 = t2
    t3 = t3
    Threads = {t1, t2, t3}
    Size = 4
    Sizes <- MCSizes
    Word = 64
    MaxPos = 5
SYMMETRY Perms
CHECK_DEADLOCK FALSE
INVARIANTS
    IndInv
    NoOverlap
    FreeNotLost
    MaxAllocExact
PROPERTIES
    ImplementsRegions
    EmptyJustifiedUnlessOvertaken
