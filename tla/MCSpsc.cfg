\* A ring of 3 in 4 slots, more messages than slots, both memory orderings.
CONSTANTS
    Cap = 3
    NumSlots = 4
    Word = 16
    MaxCalls = 5
    StoreBuffers <- BothOrders
SPECIFICATION FairSpec
INVARIANTS TypeOK Fifo ExactlyOnce AwakenerNeverBlocks NoLostWakeup
PROPERTIES ImplementsChannel Delivered
CHECK_DEADLOCK FALSE
