SPECIFICATION PartsSpec
CONSTANTS
    t1 = t1
    t2 = t2
    t3 = t3
    u1 = u1
    u2 = u2
    a = a
    b = b
    c = c
    N = 12
    Base = 16
    Word = 64
    Sizes = {1, 3}
    Alignments = {1, 2, 4}
    MaxCount = 3
    MaxBlocks = 3
    Buffers = {u1, u2}
    Records = {a, b}
    Faults = {"write", "flush"}
    MaxLog = 4
    Callers = {u1, u2}
    Contents = {a, b}
    MaxPage = 2
    Capacity = 0
    RingSize = 2
    MaxAccesses = 3
    Clients = {u1, u2}
    Sketches = {"s1", "s2"}
    Keys = {a, b, c}
    Width = 2
    Depth = 2
    Hash <- TwoHashes
    U32 = 4
    MaxInserts = 2
    Peers = 3
    MaxAdds = 1
    MaxVersion = 2
    Vectors = {u1, u2}
    Values = {a, b}
    Default = a
    Blocks = 3
    MaxLength = 3
    Rows <- IndexedRows
    KeyAttrs <- ThirdAndFirst
    KeySize = 3
    Rids = {a, b}
    Buckets = 2
    MaxCalls = 4
INVARIANTS LogIsPrefix MemoryReadsBack VersionsAtomic SketchesSound ReadMeansMerged
    VectorsOwnTheirElements BlocksApart IndexesExact SessionsSound ZeroMeansAsExpected
PROPERTY ReadsBack
CHECK_DEADLOCK FALSE
