SPECIFICATION Spec
CONSTANTS
    th1 = th1
    th2 = th2
    th3 = th3
    t1 = t1
    t2 = t2
    t3 = t3
    None = None
    Workers = 2
    Threads = {th1, th2, th3}
    Tasks = {t1, t2, t3}
    JoinFirst = TRUE
    MoveWhen = "inactive"
SYMMETRY Perms
INVARIANT NoUseAfterDestroy
CHECK_DEADLOCK FALSE
