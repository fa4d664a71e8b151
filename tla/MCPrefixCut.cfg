\* The same with reads that end anywhere.
CONSTANTS
    Kinds = {"u8", "u16be", "u16le", "u32be", "u32le"}
    Lengths = {0, 1, 3, 6}
    MaxFrames = 2
    Base = 4
    Cuts = {"prefix", "short"}
SPECIFICATION Spec
INVARIANT NeverUnreachable
CHECK_DEADLOCK FALSE
