SPECIFICATION Spec
CONSTANTS
    p1 = p1
    p2 = p2
    p3 = p3
    v1 = v1
    v2 = v2
    PageIds <- MCPages
    Values <- MCValues
    InitCapacity = 2
    IntPages = 64
    Faults = {"write", "flush", "read", "resize"}
    MaxWrites = 2
    MaxDeletes = 2
SYMMETRY Symmetry
INVARIANT SlotOwnership
INVARIANT AckedIntact
PROPERTY ImplementsPageStore
