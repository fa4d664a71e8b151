\* All decoders; frames of several prefix digits; no read ends inside a wide prefix,
\* or so near to the end of a frame that its length and the prefix's add up.
CONSTANTS
    Kinds = {"u8", "u16be", "u16le", "u32be", "u32le"}
    Lengths = {0, 3, 6}
    MaxFrames = 3
    Base = 4
    Cuts = {}
SPECIFICATION FairSpec
INVARIANT DeliversFrames
PROPERTY FramesArrive
CHECK_DEADLOCK FALSE
