CONSTANTS
    Producers = {p1, p2}
    Consumer = c
    Capacity = 2
    MaxPushes = 3
    Raw = Raw
SYMMETRY Symmetry
SPECIFICATION Spec
INVARIANTS
    AccessesOrdered
PROPERTIES
    ImplementsReservationFifo
