CONSTANTS
    t1 = t1  t2 = t2  p1 = p1  A = A  B = B
    None = None
    OneShots = {t1, t2}
    Periodics = {p1}
    Tasks = {A, B}
    Owner <- MCOwner
    Durs = {1}
    Period = 2
    MaxNow = 3
    MaxMade = 3
    ReuseInRun = FALSE
    StaleBytes = {"Cancelled"}
SPECIFICATION TimerFairSpec
INVARIANTS QueueConsistent HandleOwnsEntry NeverEarly NeverUnreachable
PROPERTY Fires
CHECK_DEADLOCK FALSE
