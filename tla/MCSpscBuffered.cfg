\* Index stores may be buffered, as x86-TSO and the Release ordering allow.
CONSTANTS
    Cap = 1
    NumSlots = 1
    Word = 16
    MaxCalls = 2
    StoreBuffers <- Buffered
SPECIFICATION Spec
INVARIANT Told
CHECK_DEADLOCK FALSE
