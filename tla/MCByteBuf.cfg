\* Blocks of one or two bytes, up to three bytes in chains of up to three blocks.
CONSTANTS
    MinGrowth = 1
    Growth = 2
    MinTail = 1
    BigVec = 2
    MinRest = 1
    Bytes = {0, 1}
    MaxLen = 3
    MaxBlocks = 3
    MaxArg = 2
    MaxCalls = 4
    ReadPast = {}
SPECIFICATION Spec
INVARIANTS SearchesExact ComparesAsBytes WindowsExact
PROPERTY ImplementsByteSeq
CHECK_DEADLOCK FALSE
