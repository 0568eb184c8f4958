SPECIFICATION FairSpec
CONSTANTS
    Inserters = {i1, i2}
    Scanners = {s1}
    SlotsPerPage = 2
    MaxPages = 4
    Kinds = {"small", "long", "huge"}
CHECK_DEADLOCK FALSE
INVARIANT ScanIsSnapshot
INVARIANT ScanSeesReturned
PROPERTY CallsFinish
