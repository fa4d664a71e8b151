CONSTANTS
    t1 = t1  t2 = t2  t3 = t3  A = A  B = B
    None = None
    NumSlots = 4
    Names = {t1, t2, t3}
    Streams = {t1}
    Tasks = {A, B}
    Owner <- MCOwner
    Secs = {0, 1, 3, 4, 5}
    MaxClock = 10
    MaxMade = 3
    Races = {}
    Lag = 0
SPECIFICATION WheelSpec
INVARIANTS ListSound HandleOwnsEntry OnTime NeverUnreachable
CHECK_DEADLOCK FALSE
