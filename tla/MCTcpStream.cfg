\* Blocks of three bytes, a send buffer of one, on the three event queues.
CONSTANTS
    A = A  B = B  None = None
    Backends <- Platforms
    BufSize = 3
    MinRoom = 1
    IovMax = 2
    SndCap = 1
    ItemSizes = {1, 2}
    Segments = {2}
    MaxIn = 6
    MaxOut = 2
    Races = {}
SPECIFICATION FairSpec
INVARIANTS OutIntact InIntact Registered NeverUnreachable
PROPERTY Completes
CHECK_DEADLOCK FALSE
