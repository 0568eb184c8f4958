SPECIFICATION FairSpec
CONSTANTS
    Threads = {t1, t2}
    Names = {a, b}
    IndexNames = {i}
    MaxOid = 2
CHECK_DEADLOCK FALSE
INVARIANT NamesResolve
INVARIANT BoundStays
INVARIANT OnlyIndexDisplayFails
PROPERTY StatementsFinish
