SPECIFICATION TimerFairSpec
CONSTANTS
    t1 = t1 t2 = t2
    Timer = {t1, t2}
    None = None
    Delays = {0, 2}
    MaxUid = 4
INVARIANTS Agreement NoAbort PendingInFuture
PROPERTY PendingExpires
CHECK_DEADLOCK FALSE
