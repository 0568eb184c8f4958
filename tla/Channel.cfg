SPECIFICATION FairSpec
CONSTANTS
    Producers = {p1, p2}
    Consumers = {c1, c2}
    Elements = {x, y}
    MaxPuts = 4
INVARIANT PopsInOrder
INVARIANT NoLostWakeup
PROPERTY ElementsTaken
