CONSTANTS
    Producers = {p1, p2}
    Consumers = {c1, c2}
    MaxPushes = 2
    MaxThrows = 1
SPECIFICATION FairSpec
INVARIANTS
    NoLostWakeup
PROPERTIES
    ImplementsFairFifo
    CloseReleases
