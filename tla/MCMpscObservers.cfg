CONSTANTS
    Producers = {p1, p2}
    Capacity = 2
    MaxPushes = 2
    Raw = Raw
    Moved = Moved
    Observers = {o1}
SPECIFICATION ObservedSpec
INVARIANTS
    StorageSafe
    NoStorageRace
    Fifo
    NothingLost
    IInv
PROPERTIES
    RefusedOnlyWhenFull
    PopFailsOnlyBehindProducer
    ClearEmpties
    ImplementsReservationFifo
    FullIsSnapshot
    EmptyErrsOnlyBehindPop
    EveryValueLeaves
