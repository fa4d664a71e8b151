CONSTANTS
    Elems = {a, b}
    NoElem = NoElem
    MaxObjs = 4
SPECIFICATION SlabSpec
INVARIANTS SlabTypeOK FreeListExact
PROPERTY ImplementsMap
