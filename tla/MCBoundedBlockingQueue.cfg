CONSTANTS
    Producers = {p1, p2}
    Consumers = {c1, c2}
    Capacity = 2
    MaxPushes = 2
    MaxThrows = 1
SPECIFICATION FairSpec
INVARIANTS
    NoLostNotEmpty
    NoLostNotFull
    EndIsFinal
    ValuesInOrder
PROPERTIES
    ImplementsFairFifo
    PushesFinish
    CloseReleases
