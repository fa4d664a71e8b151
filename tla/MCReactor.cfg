\* Two tasks and two descriptors; the program keeps clear of the races.
CONSTANTS
    a = a  b = b  n1 = n1  n2 = n2
    Main = Main
    NoTask = NoTask
    Spawned = {a, b}
    Nios = {n1, n2}
    MaxEvents = 2
    MaxSteps = 2
    Races = {}
SPECIFICATION ReactorSpec
INVARIANTS WakesOwner CurrentIsPolled GateHolds NeverWaitsWhenDone NeverUnreachable
SYMMETRY Sym
CHECK_DEADLOCK FALSE
