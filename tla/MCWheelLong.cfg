CONSTANTS
    t1 = t1  t2 = t2  t3 = t3  A = A  B = B
    None = None
    NumSlots = 4
    Names = {t1}
    Streams = {}
    Tasks = {A, B}
    Owner <- MCOwner
    Secs = {4}
    MaxClock = 10
    MaxMade = 3
    Races = {"long"}
    Lag = 0
SPECIFICATION WheelSpec
INVARIANT OnTime
CHECK_DEADLOCK FALSE
